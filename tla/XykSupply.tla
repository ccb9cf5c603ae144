----------------------------- MODULE XykSupply ------------------------------
(***************************************************************************)
(* What is issued is held, for all sets of users, assets and pools and all *)
(* amounts, with what follows for those who hold shares, ask for the       *)
(* balances of a pool, or pay a fee out of one.                            *)
(***************************************************************************)
EXTENDS XykFacts, XykRpc, FeeSwap, SumFacts

-----------------------------------------------------------------------------
(* What is issued is held                                                  *)

\* What is held of an asset is a finite sum, with the laws of one.
LEMMA LedgerSumsHold == LedgerSums
<1> DEFINE h(L, x) == [w \in Accounts |-> L.free[x][w] + L.reserved[x][w]]
<1>1. IsFiniteSet(Accounts)
  BY LedgerAssumption, FiniteUnion, Zenon DEF Accounts
<1>2. ASSUME NEW L \in Ledger, NEW x \in Assets
      PROVE  /\ h(L, x) \in [Accounts -> Nat]
             /\ h(L, x) \in [Accounts -> Int]
             /\ \A w \in Accounts : h(L, x)[w] = HoldingOf(L, x, w)
             /\ HeldIn(L, x) = SumFunctionOnSet(h(L, x), Accounts)
  <2>1. h(L, x) \in [Accounts -> Nat] /\ \A w \in Accounts : h(L, x)[w] = HoldingOf(L, x, w)
    BY DEF Ledger, HoldingOf
  <2>2. HeldIn(L, x) = SumFunctionOnSet(h(L, x), Accounts)
    BY DEF HeldIn, SumFunction, SumFunctionOnSet, FoldFunction
  <2>. QED
    BY <2>1, <2>2
<1> HIDE DEF h
<1>3. ASSUME NEW L \in Ledger, NEW M \in Ledger, NEW x \in Assets, NEW w \in Accounts,
             \A v \in Accounts : v # w => HoldingOf(M, x, v) = HoldingOf(L, x, v)
      PROVE  HeldIn(M, x) = HeldIn(L, x) + HoldingOf(M, x, w) - HoldingOf(L, x, w)
  <2>1. \A v \in Accounts \ {w} : h(M, x)[v] = h(L, x)[v]
    BY <1>2, <1>3
  <2>2. SumFunctionOnSet(h(M, x), Accounts)
          = SumFunctionOnSet(h(L, x), Accounts) + h(M, x)[w] - h(L, x)[w]
    BY <1>1, <1>2, <2>1, SumUpdate
  <2>. QED
    BY <1>2, <2>2, Zenon
<1>4. ASSUME NEW L \in Ledger, NEW x \in Assets
      PROVE  HeldIn(L, x) \in Int
  BY <1>1, <1>2, SumInt
<1>5. ASSUME NEW L \in Ledger, NEW x \in Assets, NEW w \in Accounts
      PROVE  HoldingOf(L, x, w) <= HeldIn(L, x)
  BY <1>1, <1>2, SumAtLeast, Zenon
<1>. QED
  BY <1>3, <1>4, <1>5, Zenon DEF LedgerSums

\* What is issued of each asset is what accounts hold, and `paid` more of the
\* native one: the fee of an extrinsic whose call has not finished.
Backed(L, paid) ==
  \A x \in Assets :
    L.issuance[x] = HeldIn(L, x) + (IF x = CORE_ASSET_ID THEN paid ELSE 0)

\* An operation that issues as much as it adds to balances keeps this.
LEMMA GapBacked ==
  ASSUME NEW L \in Ledger, NEW M \in Ledger, NEW paid \in Int,
         SameGap(L, M), Backed(L, paid)
  PROVE  Backed(M, paid)
<1> SUFFICES ASSUME NEW x \in Assets
             PROVE  M.issuance[x] = HeldIn(M, x) + (IF x = CORE_ASSET_ID THEN paid ELSE 0)
  BY Zenon DEF Backed
<1>1. M.issuance[x] - HeldIn(M, x) = L.issuance[x] - HeldIn(L, x)
  BY LedgerSumsHold, Zenon DEF SameGap
<1>2. /\ L.issuance[x] \in Int /\ M.issuance[x] \in Int
      /\ HeldIn(L, x) \in Int /\ HeldIn(M, x) \in Int
  BY LedgerSumsHold, ZenonT(60) DEF LedgerSums, Ledger
<1>3. L.issuance[x] = HeldIn(L, x) + (IF x = CORE_ASSET_ID THEN paid ELSE 0)
  BY Zenon DEF Backed
<1>. QED
  BY <1>1, <1>2, <1>3

\* The invariant of the pallet with its supply.
SupplyInv == IndInv /\ PoolsKnown /\ Backed(ledger, 0)

\* At genesis what is issued is what users are endowed with, of every asset.
LEMMA GenesisBacked ==
  ASSUME Init
  PROVE  ledger \in Ledger /\ PoolsKnown /\ Backed(ledger, 0)
<1>1. ledger \in Ledger
  BY IndInvInit, Zenon DEF IndInv, TypeOK
<1>2. PoolsKnown
  BY Zenon DEF Init, PoolsKnown
<1>3. ASSUME NEW x \in Assets
      PROVE  ledger.issuance[x] = HeldIn(ledger, x)
  <2>1. \A w \in Accounts :
          ledger.free[x][w] + ledger.reserved[x][w] = GenesisBalances(x)[w]
    BY XykAssumption DEF Init, GenesisBalances
  <2>2. [w \in Accounts |-> ledger.free[x][w] + ledger.reserved[x][w]] = GenesisBalances(x)
    BY <2>1, Zenon DEF GenesisBalances
  <2>3. ledger.issuance[x] = SumFunction(GenesisBalances(x))
    BY XykAssumption, Zenon DEF Init
  <2>. QED
    BY <2>2, <2>3, Zenon DEF HeldIn
<1>4. \A x \in Assets : HeldIn(ledger, x) \in Int
  BY <1>1, LedgerSumsHold, Zenon DEF LedgerSums
<1>. QED
  BY <1>1, <1>2, <1>3, <1>4 DEF Backed

\* The invariant with the supply holds in every reachable state.
THEOREM SupplyHeld == Spec => []SupplyInv
<1>1. Init => SupplyInv
  BY GenesisBacked, IndInvInit, Zenon DEF SupplyInv
<1>2. ASSUME SupplyInv, [Next]_xykVars
      PROVE  SupplyInv'
  <2>1. IndInv /\ IndInv' /\ ledger \in Ledger /\ ledger' \in Ledger
    BY <1>2, IndInvStep, Zenon DEF SupplyInv, IndInv, TypeOK
  <2>2. (PoolsKnown => PoolsKnown') /\ SameGap(ledger, ledger')
    <3>1. CASE Next
      BY <2>1, <3>1, CallKeeps, Zenon DEF Next, IndInv
    <3>2. CASE UNCHANGED xykVars
      BY <3>2, Zenon DEF xykVars, PoolsKnown, SameGap
    <3>. QED
      BY <1>2, <3>1, <3>2, Zenon
  <2>3. \A L, M : L \in Ledger /\ M \in Ledger /\ SameGap(L, M) /\ Backed(L, 0) => Backed(M, 0)
    BY GapBacked
  <2>. QED
    BY <1>2, <2>1, <2>2, <2>3, Zenon DEF SupplyInv, Backed
<1>. QED
  BY <1>1, <1>2, PTL DEF Spec

\* The share token of a pool that exists: its asset is not the native one, so
\* that no lock keeps it, and there is no more of it than the pool's liquidity.
LEMMA SharesOfPool ==
  ASSUME SupplyInv, NEW p \in Pools, NEW share, share = ShareToken[p], share # None
  PROVE  /\ share \in Assets /\ share # CORE_ASSET_ID
         /\ HeldIn(ledger, share) = TotalLiquidity[p]
<1>1. share = AssetIds[p] /\ ledger.issuance[share] = TotalLiquidity[p]
  BY Zenon DEF SupplyInv, IndInv, SharesMatchLiquidity
<1>2. share \in FirstAssetId .. MaxAssetId
  BY <1>1, Zenon DEF SupplyInv, IndInv, TypeOK
<1>3. share \in Assets /\ share # CORE_ASSET_ID
  BY <1>2, XykAssumption, RegistryAssumption DEF CORE_ASSET_ID
<1>4. ledger \in Ledger
  BY Zenon DEF SupplyInv, IndInv, TypeOK
<1>5. HeldIn(ledger, share) \in Int
  BY <1>3, <1>4, LedgerSumsHold, Zenon DEF LedgerSums
<1>6. ledger.issuance[share] = HeldIn(ledger, share) + 0
  BY <1>3, Zenon DEF SupplyInv, Backed
<1>. QED
  BY <1>1, <1>3, <1>5, <1>6

(* A holder of shares can take their part out of an existing pool at once, *)
(* all checks of remove_liquidity passing: their shares are no more than   *)
(* the recorded liquidity, because every share is held by someone and the  *)
(* liquidity is the issuance of the share token.                           *)
THEOREM HoldersExit == Spec => []HolderCanExit
<1>1. ASSUME SupplyInv
      PROVE  HolderCanExit
  <2> SUFFICES ASSUME NEW p \in Pools, NEW u \in Users, NEW share, share = ShareToken[p],
                      NEW held, held = FreeBalance(ledger, share, u),
                      share # None, held > 0
               PROVE  /\ held <= TotalLiquidity[p]
                      /\ \A a \in {p[1], p[2]} :
                           RemoveAmount(a, p, held) <= Reserve(ledger, a, p)
                      /\ CanWithdraw(ledger, share, u, held)
    BY Zenon DEF HolderCanExit
  <2>1. /\ share \in Assets /\ share # CORE_ASSET_ID
        /\ HeldIn(ledger, share) = TotalLiquidity[p]
    BY <1>1, SharesOfPool, Zenon
  <2>2. ledger \in Ledger /\ u \in Accounts /\ TotalLiquidity[p] \in Nat
    BY <1>1, Zenon DEF SupplyInv, IndInv, TypeOK, Accounts
  <2>3. held \in Nat /\ held <= HoldingOf(ledger, share, u) /\ HoldingOf(ledger, share, u) \in Nat
    BY <2>1, <2>2 DEF HoldingOf, FreeBalance, Ledger
  <2>4. HoldingOf(ledger, share, u) <= HeldIn(ledger, share)
    BY <2>1, <2>2, LedgerSumsHold, Zenon DEF LedgerSums
  <2>5. held <= TotalLiquidity[p]
    BY <2>1, <2>2, <2>3, <2>4
  <2>6. TotalLiquidity[p] \in Nat \ {0}
    BY <2>2, <2>3, <2>5
  <2>7. ASSUME NEW a \in {p[1], p[2]}
        PROVE  RemoveAmount(a, p, held) <= Reserve(ledger, a, p)
    <3>1. Reserve(ledger, a, p) \in Nat
      BY <1>1, PoolTypes, Zenon DEF SupplyInv, IndInv
    <3>. QED
      BY <2>3, <2>5, <2>6, <3>1, RemoveProportional, Zenon DEF RemoveAmount
  <2>8. CanWithdraw(ledger, share, u, held)
    BY <2>1, <2>3 DEF CanWithdraw, FrozenBalance
  <2>. QED
    BY <2>5, <2>7, <2>8, Zenon
<1>. QED
  BY <1>1, SupplyHeld, PTL, ZenonT(60)

\* What the shares of one account redeem of a reserve is, per share of the
\* pool, no more than the reserve; no shares redeem nothing.
LEMMA RedeemedBy ==
  ASSUME NEW reserve \in Nat, NEW total \in Nat, NEW held \in Nat, NEW holding \in Nat,
         held <= holding, holding <= total, NEW redeemed,
         redeemed = IF held = 0 THEN 0 ELSE CalculateLiquidityOut(reserve, held, total)
  PROVE  /\ redeemed \in Nat
         /\ total * redeemed <= reserve * holding
         /\ total = 0 => redeemed = 0
<1>1. CASE held = 0
  BY <1>1
<1>2. CASE held # 0
  <2>1. total \in Nat \ {0} /\ held * reserve \in Nat
    BY <1>2
  <2>2. redeemed = (held * reserve) \div total
    BY <1>2, Zenon DEF CalculateLiquidityOut
  <2>3. redeemed \in Nat /\ redeemed * total <= held * reserve
    BY <2>1, <2>2, DivFacts, ZenonT(60)
  <2>4. held * reserve <= reserve * holding
    BY <2>1
  <2>5. redeemed * total = total * redeemed /\ redeemed * total \in Nat /\ reserve * holding \in Nat
    BY <2>3
  <2>. QED
    BY <2>1, <2>3, <2>4, <2>5
<1>. QED
  BY <1>1, <1>2, Zenon

\* All shares of a pool together redeem no more than its reserve.
LEMMA ReserveCovers ==
  ASSUME SupplyInv, NEW p \in Pools, ShareToken[p] # None, NEW a \in {p[1], p[2]}
  PROVE  Redeemable(a, p) <= Reserve(ledger, a, p)
<1> DEFINE share   == ShareToken[p]
           reserve == Reserve(ledger, a, p)
           total   == TotalLiquidity[p]
           f == [w \in Accounts |-> HoldingOf(ledger, share, w)]
           g == [w \in Accounts |-> RedeemableBy(w, a, p)]
<1>1. share \in Assets /\ HeldIn(ledger, share) = total
  BY SharesOfPool, Zenon
<1>2. ledger \in Ledger /\ total \in Nat /\ reserve \in Nat
  BY PoolTypes, Zenon DEF SupplyInv, IndInv, TypeOK
<1>3. IsFiniteSet(Accounts)
  BY LedgerAssumption, FiniteUnion, Zenon DEF Accounts
<1>4. ASSUME NEW w \in Accounts
      PROVE  /\ HoldingOf(ledger, share, w) \in Nat
             /\ RedeemableBy(w, a, p) \in Nat
             /\ total * RedeemableBy(w, a, p) <= reserve * HoldingOf(ledger, share, w)
             /\ total = 0 => RedeemableBy(w, a, p) = 0
  <2> DEFINE held == FreeBalance(ledger, share, w)
             holding == HoldingOf(ledger, share, w)
  <2>1. held \in Nat /\ holding \in Nat /\ held <= holding
    BY <1>1, <1>2 DEF HoldingOf, FreeBalance, Ledger
  <2>2. holding <= total
    BY <1>1, <1>2, LedgerSumsHold, Zenon DEF LedgerSums
  <2>3. RedeemableBy(w, a, p) = IF held = 0 THEN 0 ELSE CalculateLiquidityOut(reserve, held, total)
    BY Zenon DEF RedeemableBy, RemoveAmount
  <2> HIDE DEF held, holding, reserve, total
  <2>4. /\ RedeemableBy(w, a, p) \in Nat
        /\ total * RedeemableBy(w, a, p) <= reserve * holding
        /\ total = 0 => RedeemableBy(w, a, p) = 0
    BY <1>2, <2>1, <2>2, <2>3, RedeemedBy, ZenonT(60)
  <2>. QED
    BY <2>1, <2>4, Zenon DEF holding
<1>5. Redeemable(a, p) = SumFunctionOnSet(g, Accounts)
  BY DEF Redeemable, SumFunction, SumFunctionOnSet, FoldFunction
<1>6. total = SumFunctionOnSet(f, Accounts)
  BY <1>1 DEF HeldIn, HoldingOf, SumFunction, SumFunctionOnSet, FoldFunction
<1> HIDE DEF share, reserve, total
<1>7. /\ f \in [Accounts -> Nat] /\ g \in [Accounts -> Nat]
      /\ \A w \in Accounts : total * g[w] <= reserve * f[w]
      /\ total = 0 => \A w \in Accounts : 1 * g[w] <= 0 * f[w]
  BY <1>4
<1> HIDE DEF f, g
<1>8. SumFunctionOnSet(g, Accounts) \in Nat
  BY <1>3, <1>7, SumNat, Zenon
<1>9. CASE total = 0
  <2>1. 1 * SumFunctionOnSet(g, Accounts) <= 0 * SumFunctionOnSet(f, Accounts)
    BY <1>3, <1>7, <1>9, SumScaled, Zenon
  <2>2. SumFunctionOnSet(f, Accounts) \in Nat
    BY <1>3, <1>7, SumNat, Zenon
  <2>3. SumFunctionOnSet(g, Accounts) <= reserve
    BY <1>2, <1>8, <2>1, <2>2
  <2>. QED
    BY <1>5, <2>3, Zenon DEF reserve
<1>10. CASE total # 0
  <2>1. total * SumFunctionOnSet(g, Accounts) <= reserve * total
    BY <1>2, <1>3, <1>6, <1>7, SumScaled, Zenon
  <2>2. \A n, r \in Nat, t \in Nat \ {0} : t * n <= r * t => n <= r
    OBVIOUS
  <2>3. SumFunctionOnSet(g, Accounts) <= reserve
    BY <1>2, <1>8, <1>10, <2>1, <2>2, Zenon
  <2>. QED
    BY <1>5, <2>3 DEF reserve
<1>. QED
  BY <1>9, <1>10, Zenon

(* What xyk_getPoolBalances reports of a pool are its two assets, and      *)
(* covers what all holders of its shares can take out together; where      *)
(* nothing is reported no share is left.                                   *)
THEOREM ReportsCover == Spec => []ReportCoversShares
<1>1. ASSUME SupplyInv
      PROVE  ReportCoversShares
  <2> SUFFICES ASSUME NEW p \in Pools, NEW report, report = RpcPoolBalances(p)
               PROVE  IF report = <<>>
                      THEN /\ TotalLiquidity[p] = 0
                           /\ AssetIds[p] # None => ledger.issuance[AssetIds[p]] = 0
                      ELSE /\ {report[k].asset : k \in DOMAIN report} = {p[1], p[2]}
                           /\ \A k \in DOMAIN report :
                                Redeemable(report[k].asset, p) <= report[k].amount
    BY Zenon DEF ReportCoversShares
  <2>1. CASE ShareToken[p] = None
    <3>1. /\ TotalLiquidity[p] = 0
          /\ AssetIds[p] # None => ledger.issuance[AssetIds[p]] = 0
      BY <1>1, <2>1, Zenon DEF SupplyInv, IndInv, SharesMatchLiquidity
    <3>2. GetPoolBalances(p) = <<>>
      BY <1>1, <2>1, Zenon DEF SupplyInv, PoolsKnown, GetPoolBalances, GetPoolAssets
    <3>3. report = <<>>
      BY <3>2 DEF RpcPoolBalances, RuntimeApiPoolBalances
    <3>. QED
      BY <3>1, <3>3, Zenon
  <2>2. CASE ShareToken[p] # None
    <3> DEFINE assets == PoolAssets[p]
    <3>1. assets \in {<<p[1], p[2]>>, <<p[2], p[1]>>}
      BY <1>1, <2>2, Zenon DEF SupplyInv, PoolsKnown
    <3>2. assets # None
      BY <1>1, <3>1, PoolTypes, XykAssumption DEF SupplyInv, IndInv
    <3>3. GetPoolBalances(p) = [k \in 1 .. 2 |-> <<assets[k], Reserve(ledger, assets[k], p)>>]
      BY <3>2, Zenon DEF GetPoolBalances, GetPoolAssets
    <3>4. report = [k \in 1 .. 2 |-> [asset |-> assets[k], amount |-> Reserve(ledger, assets[k], p)]]
      BY <3>3 DEF RpcPoolBalances, RuntimeApiPoolBalances
    <3>5. /\ assets[1] \in {p[1], p[2]} /\ assets[2] \in {p[1], p[2]}
          /\ {assets[1], assets[2]} = {p[1], p[2]}
      BY <3>1
    <3> HIDE DEF assets
    <3>6. /\ DOMAIN report = 1 .. 2
          /\ \A k \in 1 .. 2 :
               report[k].asset = assets[k] /\ report[k].amount = Reserve(ledger, assets[k], p)
      BY <3>4
    <3>7. report # <<>>
      <4>1. 1 \in DOMAIN report
        BY <3>6
      <4>2. 1 \notin DOMAIN << >>
        OBVIOUS
      <4>. QED
        BY <4>1, <4>2, ZenonT(60)
    <3>8. \A k \in 1 .. 2 : assets[k] \in {p[1], p[2]}
      BY <3>5
    <3>9. {report[k].asset : k \in DOMAIN report} = {p[1], p[2]}
      BY <3>5, <3>6
    <3>10. \A k \in DOMAIN report : Redeemable(report[k].asset, p) <= report[k].amount
      BY <1>1, <2>2, <3>6, <3>8, ReserveCovers
    <3>. QED
      BY <3>7, <3>9, <3>10, Zenon
  <2>. QED
    BY <2>1, <2>2, Zenon
<1>. QED
  BY <1>1, SupplyHeld, PTL

-----------------------------------------------------------------------------
(* Fees paid out of the pools                                              *)

\* What buying `fee` of the native asset for `cost` of a currency does to the
\* balances of users, and to the pool of the two in that currency.
Bought(L, M, who, currency, fee, cost) ==
  /\ Exchanged(L, M, who, currency, CORE_ASSET_ID, cost, fee)
  /\ LET pool == OrderedPair(currency, CORE_ASSET_ID)
     IN  pool \in Accounts /\ pool \notin Users
           /\ M.free[currency][pool] = L.free[currency][pool] + cost

\* swap_currency keeps what is issued held, and costs at most twice the fee.
LEMMA SwapFacts ==
  ASSUME TypeOK, NEW who \in Users, NEW currency \in Assets, NEW fee \in Nat,
         CanSwap(who, currency, fee)
  PROVE  LET M == Swap(who, currency, fee)
         IN  /\ M \in Ledger
             /\ SameGap(ledger, M)
             /\ currency = CORE_ASSET_ID => M = ledger
             /\ currency # CORE_ASSET_ID =>
                  \E cost \in Nat : cost <= 2 * fee /\ Bought(ledger, M, who, currency, fee, cost)
<1>1. ledger \in Ledger /\ CORE_ASSET_ID \in Assets
  BY LedgerAssumption, Zenon DEF TypeOK
<1>2. CASE currency = CORE_ASSET_ID
  BY <1>1, <1>2, Zenon DEF Swap, SameGap
<1>3. CASE currency # CORE_ASSET_ID
  <2> DEFINE b     == CORE_ASSET_ID
             p     == GetPairId(currency, b)
             cost  == BuyPriceWithFee(ledger, currency, b, fee, FALSE)
             t     == BuyTransfer(ledger, who, currency, b, fee, FALSE)
             M     == Transfer(Transfer(ledger, b, p, who, fee), currency, who, p, cost)
  <2>1. ValidateBuy(ledger, who, currency, b, fee, SwapLimit(fee), FALSE) /\ CanExecuteBuy(ledger, t)
    BY <1>3, Zenon DEF CanSwap
  <2>2. SwapLimit(fee) \in Nat /\ SwapLimit(fee) = 2 * fee
    BY DEF SwapLimit
  <2>3. cost \in Nat /\ p \in Pools /\ SwapLimit(fee) >= cost
    BY <1>1, <2>1, <2>2, BuyCostIsNat, Zenon DEF ValidateBuy, Exists
  <2>4. /\ t.origin = who /\ t.asset_in = currency /\ t.asset_out = b
        /\ t.amount = fee /\ t.amount_out = cost /\ t.discount = FALSE
    BY Zenon DEF BuyTransfer
  <2> HIDE DEF t, cost
  <2>5. ChargeDiscount(ledger, t) = ledger
    BY <2>4, Zenon DEF ChargeDiscount
  <2>6. /\ CanTransfer(ledger, b, p, who, fee)
        /\ CanTransfer(Transfer(ledger, b, p, who, fee), currency, who, p, cost)
        /\ ExecuteBuy(ledger, t) = M
    BY <2>1, <2>4, <2>5, ZenonT(60) DEF CanExecuteBuy, ExecuteBuy
  <2>7. Swap(who, currency, fee) = M
    BY <1>3, <2>6, ZenonT(60) DEF Swap, t
  <2>8. M \in Ledger /\ SameGap(ledger, M) /\ Reserves(ledger, M, p, currency, b, cost, -fee)
    BY <1>1, <2>3, <2>6, SwapOutFacts, Zenon
  <2>9. Exchanged(ledger, M, who, currency, b, cost, fee)
    BY <1>1, <2>3, <2>6, SwapOutUsers, Zenon
  <2>10. p \in Accounts /\ p \notin Users
    BY <2>3, LedgerAssumption, Zenon DEF Accounts
  <2> HIDE DEF M
  <2>11. M.free[currency][p] = ledger.free[currency][p] + cost
    BY <2>3, <2>8, Zenon DEF Reserves
  <2>12. Bought(ledger, M, who, currency, fee, cost)
    BY <2>9, <2>10, <2>11, Zenon DEF Bought, GetPairId
  <2>13. cost <= 2 * fee
    BY <2>2, <2>3, Zenon
  <2>. QED
    BY <1>3, <2>3, <2>7, <2>8, <2>12, <2>13, Zenon
<1>. QED
  BY <1>2, <1>3, Zenon

\* The withdrawal of a fee holds as much as it takes.
LEMMA TakeFacts ==
  ASSUME NEW L \in Ledger, NEW who \in Users, NEW amount \in Nat, NEW paid \in Int,
         CanWithdraw(L, CORE_ASSET_ID, who, amount)
  PROVE  LET M == Take(L, who, amount)
         IN  /\ M \in Ledger
             /\ M.free = AddTo(L.free, CORE_ASSET_ID, who, -amount)
             /\ Backed(L, paid) => Backed(M, paid + amount)
<1> DEFINE M == Take(L, who, amount)
<1>1. CORE_ASSET_ID \in Assets /\ who \in Accounts /\ FrozenBalance(CORE_ASSET_ID, who) \in Nat
  BY LedgerAssumption, Zenon DEF Accounts, FrozenBalance
<1>2. L.free \in [Assets -> [Accounts -> Nat]] /\ L.issuance \in [Assets -> Int]
  BY Zenon DEF Ledger
<1>3. L.free[CORE_ASSET_ID][who] + (-amount) \in Nat /\ -amount \in Int
  BY <1>1, <1>2 DEF CanWithdraw, FreeBalance
<1>4. AddTo(L.free, CORE_ASSET_ID, who, -amount) \in [Assets -> [Accounts -> Nat]]
  BY <1>1, <1>2, <1>3, AddToFacts, Zenon
<1>5. /\ M \in Ledger
      /\ M.free = AddTo(L.free, CORE_ASSET_ID, who, -amount)
      /\ M.reserved = L.reserved /\ M.issuance = L.issuance
  BY <1>4, ZenonT(60) DEF Take, Ledger
<1> HIDE DEF M
<1>6. \A x \in Assets :
        HeldIn(M, x) = IF x = CORE_ASSET_ID THEN HeldIn(L, x) + (-amount) ELSE HeldIn(L, x)
  BY <1>1, <1>3, <1>5, LedgerSumsHold, AddToHeld
<1>7. \A x \in Assets : HeldIn(L, x) \in Int
  BY LedgerSumsHold, Zenon DEF LedgerSums
<1>8. Backed(L, paid) => Backed(M, paid + amount)
  BY <1>2, <1>5, <1>6, <1>7 DEF Backed
<1>. QED
  BY <1>5, <1>8, Zenon DEF M

\* What is given back is held again, and what is dropped is issued no more.
LEMMA SettleFacts ==
  ASSUME NEW L \in Ledger, NEW who \in Users, NEW paid \in Nat, NEW back \in Nat,
         Backed(L, paid)
  PROVE  LET M == Drop(PutBack(L, who, back), paid - back)
         IN  M \in Ledger /\ Backed(M, 0)
<1> DEFINE N == PutBack(L, who, back)
           M == Drop(N, paid - back)
<1>1. CORE_ASSET_ID \in Assets /\ who \in Accounts
  BY LedgerAssumption, Zenon DEF Accounts
<1>2. L.free \in [Assets -> [Accounts -> Nat]] /\ L.issuance \in [Assets -> Int]
  BY Zenon DEF Ledger
<1>3. L.free[CORE_ASSET_ID][who] + back \in Nat
  BY <1>1, <1>2
<1>4. AddTo(L.free, CORE_ASSET_ID, who, back) \in [Assets -> [Accounts -> Nat]]
  BY <1>1, <1>2, <1>3, AddToFacts
<1>5. /\ M \in Ledger
      /\ M.free = AddTo(L.free, CORE_ASSET_ID, who, back) /\ M.reserved = L.reserved
      /\ M.issuance = [L.issuance EXCEPT ![CORE_ASSET_ID] = @ - (paid - back)]
  <2>1. /\ N = [free |-> AddTo(L.free, CORE_ASSET_ID, who, back),
                reserved |-> L.reserved, issuance |-> L.issuance]
        /\ L.reserved \in [Assets -> [Accounts -> Nat]]
    BY DEF PutBack, Ledger
  <2> HIDE DEF N
  <2>2. M = [free |-> AddTo(L.free, CORE_ASSET_ID, who, back), reserved |-> L.reserved,
             issuance |-> [L.issuance EXCEPT ![CORE_ASSET_ID] = @ - (paid - back)]]
    BY <2>1 DEF Drop
  <2> HIDE DEF M
  <2>. QED
    BY <1>1, <1>2, <1>4, <2>1, <2>2 DEF Ledger
<1> HIDE DEF M
<1>6. \A x \in Assets :
        HeldIn(M, x) = IF x = CORE_ASSET_ID THEN HeldIn(L, x) + back ELSE HeldIn(L, x)
  BY <1>1, <1>3, <1>5, LedgerSumsHold, AddToHeld
<1>7. \A x \in Assets : HeldIn(L, x) \in Int
  BY LedgerSumsHold, Zenon DEF LedgerSums
<1>8. Backed(M, 0)
  BY <1>2, <1>5, <1>6, <1>7 DEF Backed
<1>. QED
  BY <1>5, <1>8, Zenon DEF M

\* The invariant of fee payment: TypeOK alone of the pallet's invariant is
\* kept, for the fee of set_currency burns any accepted currency.
FeeInv ==
  /\ TypeOK
  /\ AccountCurrencyMap \in [Users -> Assets]
  /\ tx \in {None} \union [who : Users, paid : Nat, done : BOOLEAN]
  /\ Backed(ledger, IF tx = None THEN 0 ELSE tx.paid)

\* set_currency: the currency chosen is what the fee is withdrawn in.
LEMMA SetCurrencyKeeps ==
  ASSUME FeeInv, NEW who \in Users, NEW currency \in Assets, NEW pays \in BOOLEAN,
         SetCurrency(who, currency, pays)
  PROVE  FeeInv'
<1>1. /\ tx = None /\ tx' = tx
      /\ pays => CanWithdrawSetFee(who, currency)
      /\ ledger' = IF pays THEN WithdrawSetFee(who, currency) ELSE ledger
      /\ AccountCurrencyMap' = [AccountCurrencyMap EXCEPT ![who] = currency]
      /\ UNCHANGED <<ShareToken, TotalLiquidity, PoolAssets, AssetIds, NextAssetId>>
  BY Zenon DEF SetCurrency
<1>2. /\ TypeOK /\ ledger \in Ledger /\ Backed(ledger, 0)
      /\ SetFee \in Nat /\ who \in Accounts
  BY <1>1, FeeSwapAssumption, Zenon DEF FeeInv, TypeOK, Accounts
<1>3. ledger' \in Ledger /\ SameGap(ledger, ledger')
  <2>1. CASE pays
    <3> DEFINE M == Swap(who, currency, SetFee)
    <3>1. CanSwap(who, currency, SetFee) /\ CanWithdraw(M, currency, who, SetFee)
      BY <1>1, <2>1, Zenon DEF CanWithdrawSetFee
    <3>2. M \in Ledger /\ SameGap(ledger, M)
      BY <1>2, <3>1, SwapFacts, Zenon
    <3>3. ledger' = Withdraw(M, currency, who, SetFee)
      BY <1>1, <2>1, Zenon DEF WithdrawSetFee
    <3> HIDE DEF M
    <3>4. ledger' \in Ledger /\ SameGap(M, ledger')
      BY <1>2, <3>1, <3>2, <3>3, WithdrawFacts, Zenon
    <3>. QED
      BY <3>2, <3>4, GapTwice, ZenonT(60)
  <2>2. CASE ~pays
    BY <1>1, <1>2, <2>2, Zenon DEF SameGap
  <2>. QED
    BY <2>1, <2>2, Zenon
<1>4. TypeOK'
  BY <1>1, <1>2, <1>3, StorageKept, Zenon
<1>5. Backed(ledger', 0)
  <2>1. \A L, M : L \in Ledger /\ M \in Ledger /\ SameGap(L, M) /\ Backed(L, 0) => Backed(M, 0)
    BY GapBacked
  <2>. QED
    BY <1>2, <1>3, <2>1, ZenonT(60)
<1>6. AccountCurrencyMap' \in [Users -> Assets]
  BY <1>1, Zenon DEF FeeInv
<1>7. Backed(ledger', 0) => Backed(ledger, IF tx = None THEN 0 ELSE tx.paid)'
  BY <1>1, Zenon DEF Backed
<1>. QED
  BY <1>1, <1>4, <1>5, <1>6, <1>7, Zenon DEF FeeInv

\* withdraw_fee: what leaves the balance of the payer is in the imbalance.
LEMMA WithdrawFeeKeeps ==
  ASSUME FeeInv, NEW who \in Users, NEW fee \in Nat, WithdrawFee(who, fee)
  PROVE  FeeInv'
<1> DEFINE M == Swap(who, AccountCurrencyMap[who], fee)
<1>1. /\ tx = None /\ tx' = [who |-> who, paid |-> fee, done |-> FALSE]
      /\ \/ fee = 0 /\ ledger' = ledger
         \/ /\ CanSwap(who, AccountCurrencyMap[who], fee)
            /\ CanWithdraw(M, CORE_ASSET_ID, who, fee)
            /\ ledger' = Take(M, who, fee)
      /\ UNCHANGED <<ShareToken, TotalLiquidity, PoolAssets, AssetIds, NextAssetId>>
      /\ AccountCurrencyMap' = AccountCurrencyMap
  BY Zenon DEF WithdrawFee
<1>2. /\ TypeOK /\ ledger \in Ledger /\ Backed(ledger, 0)
      /\ AccountCurrencyMap[who] \in Assets
  BY <1>1, Zenon DEF FeeInv, TypeOK
<1>3. ledger' \in Ledger /\ Backed(ledger', 0 + fee)
  <2>1. CASE fee = 0 /\ ledger' = ledger
    BY <1>2, <2>1
  <2>2. CASE /\ CanSwap(who, AccountCurrencyMap[who], fee)
             /\ CanWithdraw(M, CORE_ASSET_ID, who, fee)
             /\ ledger' = Take(M, who, fee)
    <3>1. M \in Ledger /\ SameGap(ledger, M) /\ 0 \in Int
      BY <1>2, <2>2, SwapFacts
    <3> HIDE DEF M
    <3>2. Backed(M, 0)
      BY <1>2, <3>1, GapBacked
    <3>3. Take(M, who, fee) \in Ledger
      BY <2>2, <3>1, TakeFacts, ZenonT(60)
    <3>4. Backed(Take(M, who, fee), 0 + fee)
      BY <2>2, <3>1, <3>2, TakeFacts, ZenonT(60)
    <3>. QED
      BY <2>2, <3>3, <3>4, ZenonT(60)
  <2>. QED
    BY <1>1, <2>1, <2>2, Zenon
<1>4. tx' \in [who : Users, paid : Nat, done : BOOLEAN] /\ tx' # None /\ tx'.paid = 0 + fee
  <2>1. tx' \in [who : Users, paid : Nat, done : BOOLEAN] /\ tx'.paid = fee
    BY <1>1, Zenon
  <2>2. tx' # None
    BY <2>1, FeeSwapAssumption, ZenonT(60)
  <2>. QED
    BY <2>1, <2>2
<1>5. TypeOK'
  BY <1>1, <1>2, <1>3, StorageKept, Zenon
<1>6. Backed(ledger', 0 + fee) => Backed(ledger, IF tx = None THEN 0 ELSE tx.paid)'
  BY <1>4, Zenon DEF Backed
<1>. QED
  BY <1>1, <1>3, <1>4, <1>5, <1>6, Zenon DEF FeeInv

\* The call of the extrinsic, or its failure.
LEMMA DispatchKeeps ==
  ASSUME FeeInv, Dispatch
  PROVE  FeeInv'
<1>1. /\ tx # None /\ tx' = [tx EXCEPT !.done = TRUE]
      /\ CallOf(tx.who) \/ UNCHANGED xykVars
      /\ AccountCurrencyMap' = AccountCurrencyMap
  BY Zenon DEF Dispatch
<1>2. /\ TypeOK /\ ledger \in Ledger
      /\ tx \in [who : Users, paid : Nat, done : BOOLEAN] /\ tx.who \in Users /\ tx.paid \in Nat
      /\ Backed(ledger, tx.paid)
  BY <1>1, Zenon DEF FeeInv, TypeOK
<1>3. TypeOK' /\ SameGap(ledger, ledger')
  <2>1. CASE CallOf(tx.who)
    BY <1>2, <2>1, CallKeeps, Zenon
  <2>2. CASE UNCHANGED xykVars
    BY <1>2, <2>2, Zenon DEF xykVars, TypeOK, SameGap
  <2>. QED
    BY <1>1, <2>1, <2>2, Zenon
<1>4. ledger' \in Ledger
  BY <1>3, Zenon DEF TypeOK
<1>5. Backed(ledger', tx.paid)
  BY <1>2, <1>3, <1>4, GapBacked
<1>6. tx' \in [who : Users, paid : Nat, done : BOOLEAN] /\ tx' # None /\ tx'.paid = tx.paid
  BY <1>1, <1>2, FeeSwapAssumption, Zenon
<1>7. Backed(ledger', tx.paid) => Backed(ledger, IF tx = None THEN 0 ELSE tx.paid)'
  BY <1>6, Zenon DEF Backed
<1>. QED
  BY <1>1, <1>3, <1>5, <1>6, <1>7, Zenon DEF FeeInv

\* correct_and_deposit_fee: the imbalance is given back or dropped.
LEMMA SettleKeeps ==
  ASSUME FeeInv, NEW fee \in Nat, CorrectAndDepositFee(fee)
  PROVE  FeeInv'
<1> DEFINE back == RefundAmount(fee)
<1>1. /\ tx # None /\ tx' = None
      /\ ledger' = Drop(PutBack(ledger, tx.who, back), tx.paid - back)
      /\ UNCHANGED <<ShareToken, TotalLiquidity, PoolAssets, AssetIds, NextAssetId>>
      /\ AccountCurrencyMap' = AccountCurrencyMap
  BY Zenon DEF CorrectAndDepositFee
<1>2. /\ TypeOK /\ ledger \in Ledger
      /\ tx.who \in Users /\ tx.paid \in Nat
      /\ Backed(ledger, tx.paid)
  BY <1>1, Zenon DEF FeeInv, TypeOK
<1>3. back \in Nat
  BY <1>2 DEF RefundAmount
<1> HIDE DEF back
<1>4. ledger' \in Ledger /\ Backed(ledger', 0)
  BY <1>1, <1>2, <1>3, SettleFacts, Zenon
<1>5. TypeOK'
  BY <1>1, <1>2, <1>4, StorageKept, Zenon
<1>6. Backed(ledger', 0) => Backed(ledger, IF tx = None THEN 0 ELSE tx.paid)'
  BY <1>1, Zenon DEF Backed
<1>. QED
  BY <1>1, <1>4, <1>5, <1>6, Zenon DEF FeeInv

\* The invariant of fee payment holds in every reachable state.
THEOREM FeeInvHolds == FeeSpec => []FeeInv
<1>1. FeeInit => FeeInv
  <2> SUFFICES ASSUME FeeInit PROVE FeeInv
    BY Zenon
  <2>1. TypeOK /\ Backed(ledger, 0)
    BY IndInvInit, GenesisBacked, Zenon DEF FeeInit, IndInv
  <2>2. AccountCurrencyMap \in [Users -> Assets] /\ tx = None
    BY LedgerAssumption, Zenon DEF FeeInit
  <2>. QED
    BY <2>1, <2>2, Zenon DEF FeeInv
<1>2. ASSUME FeeInv, [FeeNext]_feeVars
      PROVE  FeeInv'
  <2>1. CASE UNCHANGED feeVars
    BY <1>2, <2>1, Zenon DEF feeVars, xykVars, FeeInv, TypeOK, Backed
  <2>2. ASSUME NEW who \in Users, NEW c \in Assets, NEW pays \in WithdrawFeeForSetCurrency,
               SetCurrency(who, c, pays)
        PROVE  FeeInv'
    BY <1>2, <2>2, FeeSwapAssumption, SetCurrencyKeeps, Zenon
  <2>3. ASSUME NEW who \in Users, NEW fee \in Fees, WithdrawFee(who, fee)
        PROVE  FeeInv'
    BY <1>2, <2>3, FeeSwapAssumption, WithdrawFeeKeeps, Zenon
  <2>4. CASE Dispatch
    BY <1>2, <2>4, DispatchKeeps, Zenon
  <2>5. ASSUME NEW fee \in Fees, CorrectAndDepositFee(fee)
        PROVE  FeeInv'
    BY <1>2, <2>5, FeeSwapAssumption, SettleKeeps, Zenon
  <2>. QED
    BY <1>2, <2>1, <2>2, <2>3, <2>4, <2>5, Zenon DEF FeeNext
<1>. QED
  BY <1>1, <1>2, PTL DEF FeeSpec

(* Every unit of every asset that was issued is in an account, or in the   *)
(* imbalance of the fee (withdraw_fee) while the call of its extrinsic     *)
(* runs.                                                                   *)
THEOREM FeesHeld == FeeSpec => []IssuanceIsHeld
<1>1. FeeInv => IssuanceIsHeld
  BY Zenon DEF FeeInv, Backed, IssuanceIsHeld, InFlight
<1>. QED
  BY <1>1, FeeInvHolds, PTL, ZenonT(60)

\* What FeeCostsPayerOnly says of the ledgers before and after withdraw_fee.
CostsPayerOnly(L, N, who, c, fee) ==
  LET lost(a, w) == L.free[a][w] - N.free[a][w]
  IN  /\ \A a \in Assets, w \in Users : <<a, w>> # <<c, who>> => lost(a, w) = 0
      /\ IF c = CORE_ASSET_ID \/ fee = 0
         THEN lost(c, who) = fee
         ELSE lost(c, who) <= 2 * fee
              /\ lost(c, who) = -lost(c, OrderedPair(c, CORE_ASSET_ID))

\* Buying the core asset and paying it: the two changes of the payer's balance
\* of the core asset cancel.
LEMMA BuyAndPay ==
  ASSUME NEW L \in Ledger, NEW M \in Ledger, NEW who \in Users, NEW c \in Assets,
         NEW fee \in Nat,
         c = CORE_ASSET_ID => M = L,
         c # CORE_ASSET_ID =>
           \E cost \in Nat : cost <= 2 * fee /\ Bought(L, M, who, c, fee, cost)
  PROVE  \A N : N.free = AddTo(M.free, CORE_ASSET_ID, who, -fee) =>
                  CostsPayerOnly(L, N, who, c, fee)
<1> SUFFICES ASSUME NEW N, N.free = AddTo(M.free, CORE_ASSET_ID, who, -fee)
             PROVE  CostsPayerOnly(L, N, who, c, fee)
  BY Zenon
<1>1. /\ CORE_ASSET_ID \in Assets /\ who \in Accounts
      /\ L.free \in [Assets -> [Accounts -> Nat]] /\ M.free \in [Assets -> [Accounts -> Nat]]
  BY LedgerAssumption, ZenonT(60) DEF Ledger, Accounts
<1>2. \A x \in Assets, w \in Accounts :
        N.free[x][w] = IF x = CORE_ASSET_ID /\ w = who THEN M.free[x][w] - fee ELSE M.free[x][w]
  BY <1>1 DEF AddTo
<1>3. \A w \in Users : w \in Accounts
  BY Zenon DEF Accounts
<1>4. \A x \in Assets, w \in Accounts : L.free[x][w] \in Nat /\ M.free[x][w] \in Nat
  BY <1>1, Zenon
<1>5. CASE c = CORE_ASSET_ID
  <2>1. M = L
    BY <1>5, Zenon
  <2>. QED
    BY <1>1, <1>2, <1>3, <1>4, <1>5, <2>1 DEF CostsPayerOnly
<1>6. CASE c # CORE_ASSET_ID
  <2> DEFINE pool == OrderedPair(c, CORE_ASSET_ID)
  <2>1. PICK cost \in Nat : cost <= 2 * fee /\ Bought(L, M, who, c, fee, cost)
    BY <1>6, Zenon
  <2>2. /\ pool \in Accounts /\ pool \notin Users
        /\ M.free[c][pool] = L.free[c][pool] + cost
        /\ Exchanged(L, M, who, c, CORE_ASSET_ID, cost, fee)
    BY <2>1, Zenon DEF Bought
  <2>3. \A x \in Assets, w \in Users :
          M.free[x][w] = IF w = who /\ x = c THEN L.free[x][w] - cost
                         ELSE IF w = who /\ x = CORE_ASSET_ID THEN L.free[x][w] + fee
                         ELSE L.free[x][w]
    BY <2>2, Zenon DEF Exchanged
  <2> HIDE DEF pool
  <2>4. \A a \in Assets, w \in Users :
          <<a, w>> # <<c, who>> => L.free[a][w] - N.free[a][w] = 0
    BY <1>1, <1>2, <1>3, <1>4, <1>6, <2>3
  <2>5. L.free[c][who] - N.free[c][who] = cost
    BY <1>1, <1>2, <1>4, <1>6, <2>3
  <2>6. L.free[c][pool] - N.free[c][pool] = -cost
    BY <1>1, <1>2, <1>4, <1>6, <2>2
  <2>. QED
    BY <1>6, <2>1, <2>4, <2>5, <2>6 DEF CostsPayerOnly, pool
<1>. QED
  BY <1>5, <1>6, Zenon

\* A fee of nothing is not bought and not paid.
LEMMA CostsNothing ==
  ASSUME ledger \in Ledger, NEW who \in Users, NEW c \in Assets
  PROVE  CostsPayerOnly(ledger, ledger, who, c, 0)
<1>1. \A a \in Assets, w \in Users : ledger.free[a][w] \in Nat
  BY Zenon DEF Ledger, Accounts
<1>. QED
  BY <1>1 DEF CostsPayerOnly

(* withdraw_fee takes from no account but the payer's, and of no currency  *)
(* but the one the payer chose: in the core asset exactly the fee, else at *)
(* most twice the fee in that currency, which the pool of the swap gets.   *)
THEOREM FeeCostsPayer == FeeSpec => FeeCostsPayerOnly
<1> DEFINE Step == tx = None /\ tx' # None =>
                     CostsPayerOnly(ledger, ledger', tx'.who, AccountCurrencyMap[tx'.who],
                                    tx'.paid)
<1>1. ASSUME FeeInv, [FeeNext]_feeVars
      PROVE  Step
  <2> SUFFICES ASSUME tx = None, tx' # None
               PROVE  CostsPayerOnly(ledger, ledger', tx'.who, AccountCurrencyMap[tx'.who],
                                     tx'.paid)
    BY Zenon
  <2>1. PICK who \in Users, fee \in Fees : WithdrawFee(who, fee)
    BY <1>1, Zenon DEF FeeNext, feeVars, SetCurrency, Dispatch, CorrectAndDepositFee
  <2> DEFINE c == AccountCurrencyMap[who]
             M == Swap(who, c, fee)
  <2>2. /\ tx' = [who |-> who, paid |-> fee, done |-> FALSE]
        /\ \/ fee = 0 /\ ledger' = ledger
           \/ /\ CanSwap(who, c, fee) /\ CanWithdraw(M, CORE_ASSET_ID, who, fee)
              /\ ledger' = Take(M, who, fee)
    BY <2>1, Zenon DEF WithdrawFee
  <2>3. TypeOK /\ ledger \in Ledger /\ c \in Assets /\ fee \in Nat /\ 0 \in Int
    BY <1>1, FeeSwapAssumption DEF FeeInv, TypeOK
  <2>4. CostsPayerOnly(ledger, ledger', who, c, fee)
    <3>1. CASE fee = 0 /\ ledger' = ledger
      BY <2>3, <3>1, CostsNothing
    <3>2. CASE /\ CanSwap(who, c, fee) /\ CanWithdraw(M, CORE_ASSET_ID, who, fee)
               /\ ledger' = Take(M, who, fee)
      <4>1. /\ M \in Ledger
            /\ c = CORE_ASSET_ID => M = ledger
            /\ c # CORE_ASSET_ID =>
                 \E cost \in Nat : cost <= 2 * fee /\ Bought(ledger, M, who, c, fee, cost)
        BY <2>3, <3>2, SwapFacts, Zenon
      <4> HIDE DEF M, c
      <4>2. ledger'.free = AddTo(M.free, CORE_ASSET_ID, who, -fee)
        BY <2>3, <3>2, <4>1, TakeFacts, ZenonT(60)
      <4>. QED
        BY <2>3, <4>1, <4>2, BuyAndPay, ZenonT(60)
    <3>. QED
      BY <2>2, <3>1, <3>2, Zenon
  <2>5. tx'.who = who /\ tx'.paid = fee
    BY <2>2, Zenon
  <2>. QED
    BY <2>4, <2>5, ZenonT(60) DEF c
<1>2. Step => (tx = None /\ tx' # None =>
                 LET who == tx'.who
                     c   == AccountCurrencyMap[who]
                     lost(a, w) == ledger.free[a][w] - ledger'.free[a][w]
                 IN  /\ \A a \in Assets, w \in Users :
                          <<a, w>> # <<c, who>> => lost(a, w) = 0
                     /\ IF c = CORE_ASSET_ID \/ tx'.paid = 0
                        THEN lost(c, who) = tx'.paid
                        ELSE lost(c, who) <= 2 * tx'.paid
                             /\ lost(c, who) = -lost(c, OrderedPair(c, CORE_ASSET_ID)))
  BY Zenon DEF CostsPayerOnly
<1>. QED
  BY <1>1, <1>2, FeeInvHolds, PTL, ZenonT(60) DEF FeeSpec, FeeCostsPayerOnly
=============================================================================
