---------------------------- MODULE MultiPayment ----------------------------
(***************************************************************************)
(* The transaction-multi-payment pallet: accounts choose the currency of   *)
(* their fees; MultiCurrencyAdapter buys the fee in native tokens from the *)
(* pool of that currency, withdraws it before the call and corrects it     *)
(* after the call.  The other currencies are not in this ledger: a purchase*)
(* is a transfer from the pool's account, which the AMM (see Xyk) may      *)
(* refuse, and Holdings says who has a balance of what.  The runtime sets  *)
(* WithdrawFeeForSetCurrency to No, so set_currency withdraws nothing.     *)
(***************************************************************************)
EXTENDS Balances

CONSTANTS
  FeeCurrencies,         \* currencies other than the core asset
  Core,                  \* CORE_ASSET_ID
  PoolOf,                \* account of the pool of each currency with Core
  Holdings,              \* <<who, currency>> with a balance
  GenesisCurrencies, GenesisAuthorities,
  Fees,                  \* fees before the call
  CorrectedFees,         \* and after it
  NoTransaction          \* between transactions

ASSUME MultiPaymentAssumption ==
  /\ Core \notin FeeCurrencies
  /\ PoolOf \in [FeeCurrencies -> Holders]
  /\ Fees \subseteq Nat /\ CorrectedFees \subseteq Nat
  /\ NoTransaction \notin [who : Holders, paid : Nat]

VARIABLES
  AccountCurrencyMap,    \* chosen currency, Core when none is
  AcceptedCurrencies,
  Authorities,
  tx                     \* who pays for the current transaction, and the fee
                         \* withdrawn (the held negative imbalance)

paymentVars == <<AccountCurrencyMap, AcceptedCurrencies, Authorities, tx>>

PaymentInit ==
  /\ AccountCurrencyMap = [w \in Holders |-> Core]
  /\ AcceptedCurrencies = GenesisCurrencies
  /\ Authorities = GenesisAuthorities
  /\ tx = NoTransaction

SetCurrency(who, currency) ==
  /\ currency = Core \/ currency \in AcceptedCurrencies
  /\ IF currency = Core THEN native.account[who].free # 0 ELSE <<who, currency>> \in Holdings
  /\ AccountCurrencyMap' = [AccountCurrencyMap EXCEPT ![who] = currency]
  /\ UNCHANGED <<AcceptedCurrencies, Authorities, tx, balancesVars>>

AddCurrency(who, currency) ==
  /\ who \in Authorities
  /\ currency \notin AcceptedCurrencies
  /\ AcceptedCurrencies' = AcceptedCurrencies \union {currency}
  /\ UNCHANGED <<AccountCurrencyMap, Authorities, tx, balancesVars>>

RemoveCurrency(who, currency) ==
  /\ who \in Authorities
  /\ currency \in AcceptedCurrencies
  /\ AcceptedCurrencies' = AcceptedCurrencies \ {currency}
  /\ UNCHANGED <<AccountCurrencyMap, Authorities, tx, balancesVars>>

AddMember(member) ==
  /\ member \notin Authorities
  /\ Authorities' = Authorities \union {member}
  /\ UNCHANGED <<AccountCurrencyMap, AcceptedCurrencies, tx, balancesVars>>

RemoveMember(member) ==
  /\ member \in Authorities
  /\ Authorities' = Authorities \ {member}
  /\ UNCHANGED <<AccountCurrencyMap, AcceptedCurrencies, tx, balancesVars>>

CanSwapCurrency(who, fee) ==
  AccountCurrencyMap[who] # Core =>
    /\ <<who, AccountCurrencyMap[who]>> \in Holdings
    /\ CanTransferNative(native, PoolOf[AccountCurrencyMap[who]], who, fee, FALSE)

SwapCurrencyShort(who, fee) ==
  IF AccountCurrencyMap[who] = Core THEN native
  ELSE TransferNative(native, PoolOf[AccountCurrencyMap[who]], who, fee - 1)

SwapCurrency(who, fee) ==
  IF AccountCurrencyMap[who] = Core THEN native
  ELSE TransferNative(native, PoolOf[AccountCurrencyMap[who]], who, fee)

\* A transaction that cannot pay is not part of a block.  A fee of zero is not
\* withdrawn, and not corrected later: nothing changes here.
WithdrawFee(who, fee, reasons) ==
  /\ tx = NoTransaction
  /\ fee > 0
  /\ CanSwapCurrency(who, fee)
  /\ CanWithdrawNative(SwapCurrency(who, fee), who, fee, reasons, TRUE)
  /\ native' = WithdrawNative(SwapCurrency(who, fee), who, fee)
  /\ tx' = [who |-> who, paid |-> fee]
  /\ UNCHANGED <<AccountCurrencyMap, AcceptedCurrencies, Authorities, Locks, consumers, imbalances>>

RefundOfFee(corrected_fee) == Smaller(tx.paid, corrected_fee)

\* The part of the fee that goes back, nothing if the account is gone.
Refund(corrected_fee) ==
  LET refund_amount == Larger(tx.paid - corrected_fee, 0)
  IN  IF CanDepositIntoExisting(native, tx.who, refund_amount) THEN refund_amount ELSE 0

\* Fee and tip are both dropped: the handler of the runtime is ().
CorrectAndDepositFee(corrected_fee) ==
  /\ tx # NoTransaction
  /\ native' = LET refund == Refund(corrected_fee)
                   repaid == IF refund = 0 THEN native ELSE Credit(native, tx.who, refund)
               IN  Burnt(repaid, tx.paid - refund)
  /\ tx' = NoTransaction
  /\ UNCHANGED <<AccountCurrencyMap, AcceptedCurrencies, Authorities, Locks, consumers, imbalances>>

\* The account of a pool signs nothing.
Signers == Holders \ {PoolOf[c] : c \in FeeCurrencies}

PaymentNext ==
  \/ \E w \in Signers, c \in FeeCurrencies \union {Core} : SetCurrency(w, c)
  \/ \E w \in Signers, c \in FeeCurrencies : AddCurrency(w, c) \/ RemoveCurrency(w, c)
  \/ \E w \in Signers : AddMember(w) \/ RemoveMember(w)
  \/ \E w \in Signers, f \in Fees, r \in {"Fee", "All"} : WithdrawFee(w, f, r)
  \/ \E f \in CorrectedFees : CorrectAndDepositFee(f)

(* The fee of an account that chose another currency is bought and         *)
(* withdrawn again before its call runs (withdraw_fee): the native balance *)
(* the account had is what it has afterwards, locked or not, even when the *)
(* currency has been removed from the accepted ones in the meantime.  Only *)
(* the account that gets dust may have more, from a pool that is removed.  *)
SwappedFeeIsNeutral ==
  [][\A w \in Holders \ {DustReceiver} :
       (tx = NoTransaction /\ tx' # NoTransaction /\ tx'.who = w /\ AccountCurrencyMap[w] # Core)
       => native'.account[w] = native.account[w]]_<<native, tx>>
=============================================================================
