------------------------------ MODULE FeeSwap -------------------------------
(***************************************************************************)
(* Fees paid out of the pools: the transaction-multi-payment pallet over   *)
(* the xyk pallet.  An extrinsic is three steps: MultiCurrencyAdapter buys *)
(* the fee from the pool of the currency its signer chose and withdraws    *)
(* it, the call runs or fails, and what was charged too much is given      *)
(* back.  Where MultiPayment has an existential deposit and locks and      *)
(* leaves the pools out, this module has the pools and no dust.            *)
(***************************************************************************)
EXTENDS Xyk

CONSTANTS
  AcceptedCurrencies,         \* currencies other than the core asset
  WithdrawFeeForSetCurrency,  \* values of the pallet's parameter, TRUE for Yes
  SetFee,                     \* fee of set_currency, when it is Yes
  Fees                        \* fees of calls, before and after the call

ASSUME FeeSwapAssumption ==
  /\ AcceptedCurrencies \subseteq Assets \ {CORE_ASSET_ID}
  /\ WithdrawFeeForSetCurrency \subseteq BOOLEAN
  /\ SetFee \in Nat
  /\ Fees \subseteq Nat
  /\ None \notin [who : Users, paid : Nat, done : BOOLEAN]

VARIABLES
  AccountCurrencyMap,  \* the currency an account chose, the core asset if none
  tx                   \* the extrinsic that runs: its signer, the fee it paid
                       \* (the held imbalance), and whether its call has run

feeVars == <<xykVars, AccountCurrencyMap, tx>>

FeeInit ==
  /\ Init
  /\ AccountCurrencyMap = [u \in Users |-> CORE_ASSET_ID]
  /\ tx = None

SwapLimitDropped(fee) == MaxBalance

\* The most that a fee may cost in another currency: twice as many units.
SwapLimit(fee) == 2 * fee

\* swap_currency: buy of the AMM trait.
CanSwap(who, currency, fee) ==
  currency # CORE_ASSET_ID =>
    /\ ValidateBuy(ledger, who, currency, CORE_ASSET_ID, fee, SwapLimit(fee), FALSE)
    /\ CanExecuteBuy(ledger, BuyTransfer(ledger, who, currency, CORE_ASSET_ID, fee, FALSE))

Swap(who, currency, fee) ==
  IF currency = CORE_ASSET_ID THEN ledger
  ELSE ExecuteBuy(ledger, BuyTransfer(ledger, who, currency, CORE_ASSET_ID, fee, FALSE))

\* withdraw_set_fee takes `currency`, also after it bought the core asset.
CanWithdrawSetFee(who, currency) ==
  /\ CanSwap(who, currency, SetFee)
  /\ CanWithdraw(Swap(who, currency, SetFee), currency, who, SetFee)

WithdrawSetFee(who, currency) ==
  Withdraw(Swap(who, currency, SetFee), currency, who, SetFee)

\* An extrinsic of its own, without a fee.
SetCurrency(who, currency, pays) ==
  /\ tx = None
  /\ currency = CORE_ASSET_ID \/ currency \in AcceptedCurrencies
  /\ FreeBalance(ledger, currency, who) # 0
  /\ pays => CanWithdrawSetFee(who, currency)
  /\ ledger' = IF pays THEN WithdrawSetFee(who, currency) ELSE ledger
  /\ AccountCurrencyMap' = [AccountCurrencyMap EXCEPT ![who] = currency]
  /\ UNCHANGED <<ShareToken, TotalLiquidity, PoolAssets, AssetIds, NextAssetId, tx>>

TakeWithDrop(L, who, amount) == Withdraw(L, CORE_ASSET_ID, who, amount)

\* Currency::withdraw and deposit_into_existing of the core asset.  Their
\* imbalances are held, so that the issuance stays as it is.
Take(L, who, amount) ==
  [L EXCEPT !.free = AddTo(L.free, CORE_ASSET_ID, who, -amount)]

PutBack(L, who, amount) ==
  [L EXCEPT !.free = AddTo(L.free, CORE_ASSET_ID, who, amount)]

\* The imbalance is dropped.
Drop(L, amount) == [L EXCEPT !.issuance[CORE_ASSET_ID] = @ - amount]

\* withdraw_fee; a transaction that cannot pay is not part of a block.  One
\* without a fee pays nothing and has nothing swapped.
WithdrawFee(who, fee) ==
  LET swapped == Swap(who, AccountCurrencyMap[who], fee)
  IN  /\ tx = None
      /\ fee = 0 \/ (/\ CanSwap(who, AccountCurrencyMap[who], fee)
                     /\ CanWithdraw(swapped, CORE_ASSET_ID, who, fee))
      /\ ledger' = IF fee = 0 THEN ledger ELSE Take(swapped, who, fee)
      /\ tx' = [who |-> who, paid |-> fee, done |-> FALSE]
      /\ UNCHANGED <<ShareToken, TotalLiquidity, PoolAssets, AssetIds, NextAssetId,
                     AccountCurrencyMap>>

\* The call of the extrinsic, or one that fails and changes nothing.
Dispatch ==
  /\ tx # None
  /\ ~tx.done
  /\ CallOf(tx.who) \/ UNCHANGED xykVars
  /\ tx' = [tx EXCEPT !.done = TRUE]
  /\ UNCHANGED AccountCurrencyMap

\* The refund goes back to the payer in the core asset, whatever the fee was
\* bought with; a payer without an entry in the balances pallet gets none.
RefundAmount(corrected_fee) ==
  IF corrected_fee < tx.paid /\ ~IsDead(ledger, tx.who) THEN tx.paid - corrected_fee ELSE 0

\* correct_and_deposit_fee.  Fee and tip are dropped: the handler is ().
CorrectAndDepositFee(corrected_fee) ==
  /\ tx # None
  /\ tx.done
  /\ ledger' = Drop(PutBack(ledger, tx.who, RefundAmount(corrected_fee)),
                    tx.paid - RefundAmount(corrected_fee))
  /\ tx' = None
  /\ UNCHANGED <<ShareToken, TotalLiquidity, PoolAssets, AssetIds, NextAssetId,
                 AccountCurrencyMap>>

FeeNext ==
  \/ \E who \in Users, c \in Assets, pays \in WithdrawFeeForSetCurrency :
       SetCurrency(who, c, pays)
  \/ \E who \in Users, fee \in Fees : WithdrawFee(who, fee)
  \/ Dispatch
  \/ \E fee \in Fees : CorrectAndDepositFee(fee)

FeeSpec == FeeInit /\ [][FeeNext]_feeVars

-----------------------------------------------------------------------------
InFlight(asset) == IF asset = CORE_ASSET_ID /\ tx # None THEN tx.paid ELSE 0

(* Every unit of every asset that was issued is in an account, or in the   *)
(* imbalance of the fee while its call runs, through pools that come and   *)
(* go, burnt discounts, and fees bought, withdrawn and given back.         *)
IssuanceIsHeld == \A a \in Assets : ledger.issuance[a] = HeldIn(ledger, a) + InFlight(a)

(* The withdrawal of a fee (withdraw_fee) costs its payer the fee in the   *)
(* core asset, or at most twice as many units of the chosen currency and   *)
(* none of the core asset; the units go to a pool, and nobody else, payer  *)
(* of another fee or provider of liquidity, loses anything.  A fee of zero *)
(* costs nothing, in whatever currency.                                    *)
FeeCostsPayerOnly ==
  [][tx = None /\ tx' # None =>
       LET who == tx'.who
           c   == AccountCurrencyMap[who]
           lost(a, w) == ledger.free[a][w] - ledger'.free[a][w]
       IN  /\ \A a \in Assets, w \in Users :
                <<a, w>> # <<c, who>> => lost(a, w) = 0
           /\ IF c = CORE_ASSET_ID \/ tx'.paid = 0
              THEN lost(c, who) = tx'.paid
              ELSE lost(c, who) <= 2 * tx'.paid
                   /\ lost(c, who) = -lost(c, OrderedPair(c, CORE_ASSET_ID))]_feeVars
=============================================================================
