-------------------------------- MODULE Xyk ---------------------------------
(***************************************************************************)
(* The xyk pallet: constant-product pools over the multi-currency ledger.  *)
(*                                                                         *)
(* Every dispatchable is transactional (or validates before it executes),  *)
(* so a call that fails leaves the state as it was: an action is enabled   *)
(* exactly when the call succeeds.  The pair account of a pool holds the   *)
(* reserves; a pool exists while its ShareToken entry does.                *)
(*                                                                         *)
(* An operator that stands directly before the one it resembles, with a    *)
(* suffix to its name, is a faulty variant of it (a dropped guard, swapped *)
(* arguments, a missing update).  It is used by no action: replacing the   *)
(* real one by it must violate the property PROJECT.json pairs it with.    *)
(***************************************************************************)
EXTENDS AssetRegistry

CONSTANTS
  GetExchangeFee,  \* trading fee, a record of numerator and denominator
  InitialBalance,  \* genesis endowment, for each asset and user
  InitialIssuance, \* its total, for each asset
  Amounts,         \* amounts that occur in calls of the pallet
  TransferAmounts, \* amounts that occur in plain currency transfers
  Limits,          \* trade limits that occur in calls
  Prices           \* initial prices <<numerator, denominator>>

\* What each account has at genesis: pair accounts have nothing.
GenesisBalances(asset) ==
  [w \in Accounts |-> IF w \in Users THEN InitialBalance[asset][w] ELSE 0]

ASSUME XykAssumption ==
  /\ GetExchangeFee \in [numerator : Nat, denominator : Nat \ {0}]
  /\ InitialBalance \in [Assets -> [Users -> Nat]]
  /\ InitialIssuance \in [Assets -> Nat]
  /\ \A a \in Assets : InitialIssuance[a] = SumFunction(GenesisBalances(a))
  /\ \A a \in Assets : a >= FirstAssetId => InitialIssuance[a] = 0
  /\ FirstAssetId .. MaxAssetId \subseteq Assets
  /\ None \notin Assets \X Assets
  /\ Amounts \subseteq Nat
  /\ TransferAmounts \subseteq Nat
  /\ Limits \subseteq Nat
  /\ Prices \subseteq (Nat \X (Nat \ {0}))

VARIABLES
  ledger,          \* balances of users and pair accounts
  ShareToken,      \* share asset of each existing pool
  TotalLiquidity,  \* shares issued by each pool
  PoolAssets       \* assets of each existing pool, as given at creation

xykVars == <<ledger, ShareToken, TotalLiquidity, PoolAssets, AssetIds, NextAssetId>>

TransferRecord ==
  [origin : Users, asset_in : Assets, asset_out : Assets, amount : Nat,
   amount_out : Nat, discount : BOOLEAN, discount_amount : Nat]

-----------------------------------------------------------------------------
(* The AMM trait: queries                                                  *)

GetPairId(a, b) == OrderedPair(a, b)

Exists(a, b) == GetPairId(a, b) \in Pools /\ ShareToken[GetPairId(a, b)] # None

Reserve(L, asset, pool) == FreeBalance(L, asset, pool)

\* Zero when the price cannot be computed.
GetSpotPriceUnchecked(L, a, b, amount) ==
  LET pool  == GetPairId(a, b)
      price == CalculateSpotPrice(Reserve(L, a, pool), Reserve(L, b, pool), amount)
  IN  IF Reserve(L, a, pool) > 0 /\ price <= MaxBalance THEN price ELSE 0

FeeRate(discount) == IF discount THEN DiscountedFee ELSE GetExchangeFee

(***************************************************************************)
(* With a discount the trader also burns native tokens: the fee, at the    *)
(* spot price of the pool between `asset` and the native asset.            *)
(***************************************************************************)
DiscountAmount(L, asset, fee) ==
  LET pool == GetPairId(asset, CORE_ASSET_ID)
  IN  CalculateSpotPrice(Reserve(L, asset, pool), Reserve(L, CORE_ASSET_ID, pool), fee)

DiscountOk(L, who, asset, fee) ==
  /\ Exists(asset, CORE_ASSET_ID)
  /\ Reserve(L, asset, GetPairId(asset, CORE_ASSET_ID)) > 0
  /\ DiscountAmount(L, asset, fee) <= MaxBalance
  /\ FreeBalance(L, CORE_ASSET_ID, who) >= DiscountAmount(L, asset, fee)

-----------------------------------------------------------------------------
(* The AMM trait: sell                                                     *)

SalePriceFeeAdded(L, a_in, a_out, amount, discount) ==
  LET pool == GetPairId(a_in, a_out)
  IN  CalculateOutGivenIn(Reserve(L, a_in, pool), Reserve(L, a_out, pool),
                          amount + JustFee(amount, FeeRate(discount)))

SalePrice(L, a_in, a_out, amount, discount) ==
  LET pool == GetPairId(a_in, a_out)
  IN  CalculateOutGivenIn(Reserve(L, a_in, pool), Reserve(L, a_out, pool),
                          amount - JustFee(amount, FeeRate(discount)))

ValidateSell(L, who, a_in, a_out, amount, min_bought, discount) ==
  LET pool       == GetPairId(a_in, a_out)
      fee        == JustFee(amount, FeeRate(discount))
      sale_price == SalePrice(L, a_in, a_out, amount, discount)
  IN  /\ Exists(a_in, a_out)
      /\ FreeBalance(L, a_in, who) >= amount
      /\ amount <= Reserve(L, a_in, pool) \div MAX_IN_RATIO
      /\ FeeOk(amount, FeeRate(discount))
      /\ amount >= fee
      /\ Reserve(L, a_in, pool) > 0
      /\ Reserve(L, a_out, pool) > sale_price
      /\ min_bought <= sale_price
      /\ discount => DiscountOk(L, who, a_in, fee)

\* The AMMTransfer that validate_sell returns.
SellTransfer(L, who, a_in, a_out, amount, discount) ==
  [origin |-> who, asset_in |-> a_in, asset_out |-> a_out, amount |-> amount,
   amount_out |-> SalePrice(L, a_in, a_out, amount, discount),
   discount |-> discount,
   discount_amount |->
     IF discount
     THEN DiscountAmount(L, a_in, JustFee(amount, DiscountedFee))
     ELSE 0]

\* The ledger after the native discount fee has been burnt.
ChargeDiscount(L, t) ==
  IF t.discount THEN Withdraw(L, CORE_ASSET_ID, t.origin, t.discount_amount) ELSE L

CanChargeDiscount(L, t) ==
  t.discount => CanWithdraw(L, CORE_ASSET_ID, t.origin, t.discount_amount)

ExecuteSell(L, t) ==
  LET pool == GetPairId(t.asset_in, t.asset_out)
      L1   == ChargeDiscount(L, t)
      L2   == Transfer(L1, t.asset_in, t.origin, pool, t.amount)
  IN  Transfer(L2, t.asset_out, pool, t.origin, t.amount_out)

CanExecuteSell(L, t) ==
  LET pool == GetPairId(t.asset_in, t.asset_out)
      L1   == ChargeDiscount(L, t)
      L2   == Transfer(L1, t.asset_in, t.origin, pool, t.amount)
  IN  /\ CanChargeDiscount(L, t)
      /\ CanTransfer(L1, t.asset_in, t.origin, pool, t.amount)
      /\ CanTransfer(L2, t.asset_out, pool, t.origin, t.amount_out)

-----------------------------------------------------------------------------
(* The AMM trait: buy                                                      *)

BuyPrice(L, a_in, a_out, amount) ==
  LET pool == GetPairId(a_in, a_out)
  IN  CalculateInGivenOut(Reserve(L, a_out, pool), Reserve(L, a_in, pool), amount)

BuyFee(L, a_in, a_out, amount, discount) ==
  JustFee(BuyPrice(L, a_in, a_out, amount), FeeRate(discount))

BuyPriceWithFee(L, a_in, a_out, amount, discount) ==
  BuyPrice(L, a_in, a_out, amount) + BuyFee(L, a_in, a_out, amount, discount)

ValidateBuy(L, who, a_in, a_out, amount, max_limit, discount) ==
  LET pool == GetPairId(a_in, a_out)
      cost == BuyPriceWithFee(L, a_in, a_out, amount, discount)
  IN  /\ Exists(a_in, a_out)
      /\ Reserve(L, a_out, pool) > amount
      /\ amount <= Reserve(L, a_out, pool) \div MAX_OUT_RATIO
      /\ FeeOk(BuyPrice(L, a_in, a_out, amount), FeeRate(discount))
      /\ cost <= MaxBalance
      /\ max_limit >= cost
      /\ FreeBalance(L, a_in, who) >= cost
      /\ discount => DiscountOk(L, who, a_out, BuyFee(L, a_in, a_out, amount, TRUE))

\* The AMMTransfer that validate_buy returns: here `amount` goes out of the
\* pool and `amount_out` comes in.
BuyTransfer(L, who, a_in, a_out, amount, discount) ==
  [origin |-> who, asset_in |-> a_in, asset_out |-> a_out, amount |-> amount,
   amount_out |-> BuyPriceWithFee(L, a_in, a_out, amount, discount),
   discount |-> discount,
   discount_amount |->
     IF discount
     THEN DiscountAmount(L, a_out, BuyFee(L, a_in, a_out, amount, TRUE))
     ELSE 0]

ExecuteBuy(L, t) ==
  LET pool == GetPairId(t.asset_in, t.asset_out)
      L1   == ChargeDiscount(L, t)
      L2   == Transfer(L1, t.asset_out, pool, t.origin, t.amount)
  IN  Transfer(L2, t.asset_in, t.origin, pool, t.amount_out)

CanExecuteBuy(L, t) ==
  LET pool == GetPairId(t.asset_in, t.asset_out)
      L1   == ChargeDiscount(L, t)
      L2   == Transfer(L1, t.asset_out, pool, t.origin, t.amount)
  IN  /\ CanChargeDiscount(L, t)
      /\ CanTransfer(L1, t.asset_out, pool, t.origin, t.amount)
      /\ CanTransfer(L2, t.asset_in, t.origin, pool, t.amount_out)

-----------------------------------------------------------------------------
(* Dispatchables                                                           *)

Init ==
  /\ ledger = [free     |-> [a \in Assets |-> GenesisBalances(a)],
               reserved |-> [a \in Assets |-> [w \in Accounts |-> 0]],
               issuance |-> InitialIssuance]
  /\ ShareToken     = [p \in Pools |-> None]
  /\ TotalLiquidity = [p \in Pools |-> 0]
  /\ PoolAssets     = [p \in Pools |-> None]
  /\ RegistryInit

\* checked_mul_int of a fixed-point price.
PriceTimes(price, amount) == (price[1] * amount) \div price[2]

CreatePool(who, a, b, amount, price) ==
  LET pool     == GetPairId(a, b)
      amount_b == PriceTimes(price, amount)
      shares   == IF a < b THEN amount ELSE amount_b
      share    == AssetOf(pool)
      L1       == Transfer(ledger, a, who, pool, amount)
      L2       == Transfer(L1, b, who, pool, amount_b)
  IN  /\ amount # 0
      /\ price[1] # 0
      /\ a # b
      /\ pool \in Pools /\ ~Exists(a, b)
      /\ amount_b <= MaxBalance
      /\ FreeBalance(ledger, a, who) >= amount
      /\ FreeBalance(ledger, b, who) >= amount_b
      /\ CanGetOrCreateAsset(pool)
      /\ CanTransfer(ledger, a, who, pool, amount)
      /\ CanTransfer(L1, b, who, pool, amount_b)
      /\ CanDeposit(L2, share, shares)
      /\ GetOrCreateAsset(pool)
      /\ ShareToken' = [ShareToken EXCEPT ![pool] = share]
      /\ PoolAssets' = [PoolAssets EXCEPT ![pool] = <<a, b>>]
      /\ ledger' = Deposit(L2, share, who, shares)
      /\ TotalLiquidity' = [TotalLiquidity EXCEPT ![pool] = shares]

\* The amount of b, and the shares, that an add_liquidity of amount_a implies.
AmountBRequired(a, b, amount_a) ==
  LET pool == GetPairId(a, b)
  IN  CalculateLiquidityIn(Reserve(ledger, a, pool), Reserve(ledger, b, pool), amount_a)

SharesAdded(a, b, amount_a) ==
  IF a < b THEN amount_a ELSE AmountBRequired(a, b, amount_a)

\* The checks of add_liquidity up to the one on the shares to be minted.
AddLiquidityChecks(who, a, b, amount_a, max_limit) ==
  /\ Exists(a, b)
  /\ amount_a # 0
  /\ max_limit # 0
  /\ FreeBalance(ledger, a, who) >= amount_a
  /\ FreeBalance(ledger, b, who) >= max_limit
  /\ Reserve(ledger, a, GetPairId(a, b)) > 0
  /\ AmountBRequired(a, b, amount_a) <= MaxBalance
  /\ AmountBRequired(a, b, amount_a) <= max_limit

AddLiquidity(who, a, b, amount_a, max_limit) ==
  LET pool     == GetPairId(a, b)
      required == AmountBRequired(a, b, amount_a)
      shares   == SharesAdded(a, b, amount_a)
      L1       == Transfer(ledger, a, who, pool, amount_a)
      L2       == Transfer(L1, b, who, pool, required)
  IN  /\ AddLiquidityChecks(who, a, b, amount_a, max_limit)
      /\ shares > 0
      /\ TotalLiquidity[pool] + shares <= MaxBalance
      /\ CanTransfer(ledger, a, who, pool, amount_a)
      /\ CanTransfer(L1, b, who, pool, required)
      /\ CanDeposit(L2, ShareToken[pool], shares)
      /\ ledger' = Deposit(L2, ShareToken[pool], who, shares)
      /\ TotalLiquidity' = [TotalLiquidity EXCEPT ![pool] = @ + shares]
      /\ UNCHANGED <<ShareToken, PoolAssets, AssetIds, NextAssetId>>

RemoveAmountSwapped(asset, pool, liquidity_amount) ==
  CalculateLiquidityOut(Reserve(ledger, asset, pool), TotalLiquidity[pool],
                        liquidity_amount)

RemoveAmountRoundedUp(asset, pool, liquidity_amount) ==
  (liquidity_amount * Reserve(ledger, asset, pool) + TotalLiquidity[pool] - 1)
    \div TotalLiquidity[pool]

RemoveAmountOffByOne(asset, pool, liquidity_amount) ==
  CalculateLiquidityOut(Reserve(ledger, asset, pool), liquidity_amount,
                        TotalLiquidity[pool] + 1)

\* What remove_liquidity pays out of the reserve of `asset`.
RemoveAmount(asset, pool, liquidity_amount) ==
  CalculateLiquidityOut(Reserve(ledger, asset, pool), liquidity_amount,
                        TotalLiquidity[pool])

LiquidityLeftStale(pool, liquidity_amount) == TotalLiquidity[pool]

LiquidityLeft(pool, liquidity_amount) == TotalLiquidity[pool] - liquidity_amount

RemoveLiquidity(who, a, b, liquidity_amount) ==
  LET pool  == GetPairId(a, b)
      share == ShareToken[pool]
      left  == LiquidityLeft(pool, liquidity_amount)
      out_a == RemoveAmount(a, pool, liquidity_amount)
      out_b == RemoveAmount(b, pool, liquidity_amount)
      L1    == Transfer(ledger, a, pool, who, out_a)
      L2    == Transfer(L1, b, pool, who, out_b)
  IN  /\ liquidity_amount # 0
      /\ Exists(a, b)
      /\ TotalLiquidity[pool] >= liquidity_amount
      /\ FreeBalance(ledger, share, who) >= liquidity_amount
      /\ Reserve(ledger, a, pool) >= out_a
      /\ Reserve(ledger, b, pool) >= out_b
      /\ CanTransfer(ledger, a, pool, who, out_a)
      /\ CanTransfer(L1, b, pool, who, out_b)
      /\ CanWithdraw(L2, share, who, liquidity_amount)
      /\ ledger' = Withdraw(L2, share, who, liquidity_amount)
      /\ TotalLiquidity' = [TotalLiquidity EXCEPT ![pool] = left]
      /\ ShareToken' = [ShareToken EXCEPT ![pool] = IF left = 0 THEN None ELSE @]
      /\ PoolAssets' = [PoolAssets EXCEPT ![pool] = IF left = 0 THEN None ELSE @]
      /\ UNCHANGED <<AssetIds, NextAssetId>>

Sell(who, a_in, a_out, amount, min_bought, discount) ==
  LET t == SellTransfer(ledger, who, a_in, a_out, amount, discount)
  IN  /\ ValidateSell(ledger, who, a_in, a_out, amount, min_bought, discount)
      /\ CanExecuteSell(ledger, t)
      /\ ledger' = ExecuteSell(ledger, t)
      /\ UNCHANGED <<ShareToken, TotalLiquidity, PoolAssets, AssetIds, NextAssetId>>

Buy(who, a_in, a_out, amount, max_limit, discount) ==
  LET t == BuyTransfer(ledger, who, a_in, a_out, amount, discount)
  IN  /\ ValidateBuy(ledger, who, a_in, a_out, amount, max_limit, discount)
      /\ CanExecuteBuy(ledger, t)
      /\ ledger' = ExecuteBuy(ledger, t)
      /\ UNCHANGED <<ShareToken, TotalLiquidity, PoolAssets, AssetIds, NextAssetId>>

\* The transfer call of orml_currencies: any holder may move any asset, also
\* share tokens, also to a pair account.
CurrencyTransfer(who, to, asset, amount) ==
  /\ who # to
  /\ amount # 0
  /\ CanTransfer(ledger, asset, who, to, amount)
  /\ ledger' = Transfer(ledger, asset, who, to, amount)
  /\ UNCHANGED <<ShareToken, TotalLiquidity, PoolAssets, AssetIds, NextAssetId>>

\* The calls that an account signs.
CallOf(who) ==
  \/ \E a, b \in Assets, amount \in Amounts :
       \/ \E price \in Prices : CreatePool(who, a, b, amount, price)
       \/ \E limit \in Limits : AddLiquidity(who, a, b, amount, limit)
       \/ RemoveLiquidity(who, a, b, amount)
       \/ \E limit \in Limits, d \in BOOLEAN : Sell(who, a, b, amount, limit, d)
       \/ \E limit \in Limits, d \in BOOLEAN : Buy(who, a, b, amount, limit, d)
  \/ \E to \in Accounts, asset \in Assets, amount \in TransferAmounts :
       CurrencyTransfer(who, to, asset, amount)

Next == \E who \in Users : CallOf(who)

Spec == Init /\ [][Next]_xykVars

-----------------------------------------------------------------------------
(* Invariants                                                              *)

\* Storage and ledger hold values of their types: in particular no balance,
\* and no pool's liquidity, ever becomes negative.
TypeOK ==
  /\ ledger \in Ledger
  /\ ShareToken \in [Pools -> Assets \union {None}]
  /\ TotalLiquidity \in [Pools -> Nat]
  /\ PoolAssets \in [Pools -> (Assets \X Assets) \union {None}]
  /\ AssetIds \in [Pools -> (FirstAssetId .. MaxAssetId) \union {None}]
  /\ NextAssetId \in FirstAssetId .. MaxAssetId

\* The liquidity recorded for a pool is exactly the number of its share
\* tokens in circulation, through creation, destruction and re-creation of
\* the pool: a pool that was destroyed has no shares left that a holder could
\* redeem from a later pool of the same pair, which gets the same share token.
SharesMatchLiquidity ==
  \A p \in Pools :
    /\ AssetIds[p] = None => TotalLiquidity[p] = 0
    /\ AssetIds[p] # None => ledger.issuance[AssetIds[p]] = TotalLiquidity[p]
    /\ ShareToken[p] = None => TotalLiquidity[p] = 0
    /\ ShareToken[p] # None => ShareToken[p] = AssetIds[p]

\* Share tokens of different pools are different assets: the registry never
\* hands out an id twice, and no unit of an asset exists before its id does.
ShareTokensAreFresh ==
  /\ \A p \in Pools : AssetIds[p] # None => AssetIds[p] < NextAssetId
  /\ \A p, q \in Pools : AssetIds[p] # None /\ AssetIds[p] = AssetIds[q] => p = q
  /\ \A a \in Assets : a >= NextAssetId => ledger.issuance[a] = 0

\* Whoever holds shares of an existing pool can take their part out at once:
\* remove_liquidity of the whole holding passes every check, whatever trades,
\* deposits and transfers came before.
HolderCanExit ==
  \A p \in Pools, u \in Users :
    LET share == ShareToken[p]
        held  == FreeBalance(ledger, share, u)
    IN  share # None /\ held > 0 =>
          /\ held <= TotalLiquidity[p]
          /\ \A a \in {p[1], p[2]} :
               RemoveAmount(a, p, held) <= Reserve(ledger, a, p)
          /\ CanWithdraw(ledger, share, u, held)

-----------------------------------------------------------------------------
(* Action properties                                                       *)

\* The pool is destroyed by remove_liquidity only when nothing is left in its
\* pair account: rounding never strands a reserve behind a destroyed pool.
DestroyedPoolIsEmpty ==
  [][\A p \in Pools :
       ShareToken[p] # None /\ ShareToken'[p] = None =>
         \A a \in {p[1], p[2]} : Reserve(ledger', a, p) = 0]_xykVars

\* A withdrawal of liquidity never costs those who stay: the reserve behind
\* each remaining share does not shrink, in either asset.
RemoveKeepsShareValue ==
  [][\A p \in Pools : TotalLiquidity'[p] < TotalLiquidity[p] =>
       \A a \in {p[1], p[2]} :
         Reserve(ledger', a, p) * TotalLiquidity[p]
           >= Reserve(ledger, a, p) * TotalLiquidity'[p]]_xykVars

\* A trade gives away at most one unit of the outgoing asset against the
\* constant-product curve: with that unit back, the product of the reserves
\* would not have fallen.  (One unit is what sell rounds up.)
TradeLosesAtMostOneUnit ==
  [][\A p \in Pools : TotalLiquidity'[p] = TotalLiquidity[p] =>
       \A a, b \in {p[1], p[2]} :
         a # b /\ Reserve(ledger', b, p) < Reserve(ledger, b, p) =>
           Reserve(ledger', a, p) * (Reserve(ledger', b, p) + 1)
             >= Reserve(ledger, a, p) * Reserve(ledger, b, p)]_xykVars

-----------------------------------------------------------------------------
(* What the source says of itself                                          *)

\* lib.rs on add_liquidity: "Shares are issued with current price".  What the
\* new shares redeem is no more than what was paid for them: the reserves
\* behind a share that was there before do not shrink (up to the unit that the
\* paid amount of b is rounded by).
SharesIssuedAtCurrentPrice ==
  [][\A p \in Pools : \A a \in {p[1], p[2]} :
       0 < TotalLiquidity[p] /\ TotalLiquidity[p] < TotalLiquidity'[p] =>
         (Reserve(ledger', a, p) + 1) * TotalLiquidity[p]
           >= Reserve(ledger, a, p) * TotalLiquidity'[p]]_xykVars

\* lib.rs on execute_sell and execute_buy: "the execution should not return
\* error as everything was previously verified and validated".  A trade that
\* passes validation can be executed in the same state.
ValidatedTradesExecute ==
  \A who \in Users, a, b \in Assets, amount \in Amounts, limit \in Limits, d \in BOOLEAN :
    /\ ValidateSell(ledger, who, a, b, amount, limit, d) =>
         CanExecuteSell(ledger, SellTransfer(ledger, who, a, b, amount, d))
    /\ ValidateBuy(ledger, who, a, b, amount, limit, d) =>
         CanExecuteBuy(ledger, BuyTransfer(ledger, who, a, b, amount, d))
=============================================================================
