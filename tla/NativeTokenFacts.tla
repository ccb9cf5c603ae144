-------------------------- MODULE NativeTokenFacts --------------------------
(***************************************************************************)
(* What the steps of NativeToken keep, for any number of accounts, locks,  *)
(* amounts, fees and claims: the ledger stays in order and the issuance    *)
(* goes with the supply.                                                   *)
(***************************************************************************)
EXTENDS NativeToken, BalancesFacts

-----------------------------------------------------------------------------
(* Fees and claims                                                         *)

\* The inductive invariant.
NativeInv ==
  /\ BalancesInv
  /\ AccountCurrencyMap \in [Holders -> FeeCurrencies \union {Core}]
  /\ tx \in {NoTransaction} \union [who : Holders, paid : Nat]

\* withdraw_fee: the fee is bought if need be, and taken from the payer.
LEMMA WithdrawFeeKeeps ==
  ASSUME FiniteLaws, NativeInv, NEW who \in Holders, NEW fee \in Nat, NEW reasons,
         WithdrawFee(who, fee, reasons)
  PROVE  /\ LedgerOK(native', Locks)
         /\ \E b \in Nat : Gains(native, native', -fee, b)
         /\ FeeInFlight = 0 /\ FeeInFlight' = fee
         /\ tx' \in [who : Holders, paid : Nat]
<1> DEFINE N == SwapCurrency(who, fee)
           currency == AccountCurrencyMap[who]
<1>1. LedgerOK(native, Locks) /\ References /\ currency \in FeeCurrencies \union {Core}
  BY Zenon DEF NativeInv, BalancesInv
<1>2. /\ tx = NoTransaction /\ tx' = [who |-> who, paid |-> fee]
      /\ CanSwapCurrency(who, fee)
      /\ CanWithdrawNative(N, who, fee, reasons, TRUE)
      /\ native' = WithdrawNative(N, who, fee)
  BY Zenon DEF WithdrawFee
<1>3. LedgerOK(N, Locks) /\ \E b \in Nat : Gains(native, N, 0, b)
  <2>1. CASE currency = Core
    <3>1. N = native
      BY <2>1, Zenon DEF SwapCurrency
    <3>2. LedgerOK(native, Locks) /\ Gains(native, native, 0, 0)
      BY <1>1, GainsNothing, Zenon
    <3> HIDE DEF N
    <3>. QED
      BY <3>1, <3>2, Zenon
  <2>2. CASE currency # Core
    <3>1. /\ N = TransferNative(native, PoolOf[currency], who, fee)
          /\ CanTransferNative(native, PoolOf[currency], who, fee, FALSE)
      BY <2>2, <1>2, Zenon DEF SwapCurrency, CanSwapCurrency
    <3>2. PoolOf[currency] \in Holders
      BY <1>1, <2>2, MultiPaymentAssumption, Zenon
    <3> HIDE DEF N, currency
    <3>. QED
      BY <1>1, <3>1, <3>2, TransferKeeps, Zenon
  <2>. QED
    BY <2>1, <2>2, Zenon
<1> HIDE DEF N
<1>4. LedgerOK(native', Locks) /\ \E b \in Nat : Gains(N, native', -fee, b)
  BY <1>1, <1>2, <1>3, WithdrawKeeps, Zenon
<1>5. PICK b \in Nat : Gains(native, N, 0, b)
  BY <1>3, Zenon
<1>6. PICK c \in Nat : Gains(N, native', -fee, c)
  BY <1>4, Zenon
<1>7. -fee \in Int /\ 0 + (-fee) = -fee /\ b + c \in Nat
  OBVIOUS
<1>8. Gains(native, native', 0 + (-fee), b + c)
  BY <1>1, <1>5, <1>6, <1>7, GainsTwice DEF LedgerOK
<1>9. tx' \in [who : Holders, paid : Nat]
  BY <1>2, Zenon
<1>10. FeeInFlight = 0 /\ FeeInFlight' = fee
  BY <1>2, <1>9, MultiPaymentAssumption, Zenon DEF FeeInFlight
<1>. QED
  BY <1>4, <1>7, <1>8, <1>9, <1>10, Zenon

\* correct_and_deposit_fee: part of the fee goes back, the rest is burnt.
LEMMA CorrectFeeKeeps ==
  ASSUME FiniteLaws, NativeInv, NEW corrected_fee \in Nat, CorrectAndDepositFee(corrected_fee)
  PROVE  /\ LedgerOK(native', Locks)
         /\ tx.paid \in Nat /\ FeeInFlight = tx.paid /\ FeeInFlight' = 0
         /\ \E refund \in 0 .. tx.paid :
              /\ refund = Refund(corrected_fee)
              /\ Circulating' = Circulating + refund
              /\ native'.issuance = Larger(native.issuance - (tx.paid - refund), 0)
              /\ native'.account = IF refund = 0 THEN native.account
                   ELSE [native.account EXCEPT ![tx.who] = Moved(native.account[tx.who], refund, 0)]
<1> DEFINE refund == Refund(corrected_fee)
           repaid == IF refund = 0 THEN native ELSE Credit(native, tx.who, refund)
           rest   == tx.paid - refund
<1>1. LedgerOK(native, Locks) /\ References /\ tx \in [who : Holders, paid : Nat]
  BY Zenon DEF NativeInv, BalancesInv, CorrectAndDepositFee
<1>2. tx # NoTransaction /\ tx' = NoTransaction /\ native' = Burnt(repaid, rest)
  BY Zenon DEF CorrectAndDepositFee
<1>3. tx.who \in Holders /\ tx.paid \in Nat
  BY <1>1, Zenon
<1>4. /\ refund \in 0 .. tx.paid
      /\ refund = 0 \/ CanDepositIntoExisting(native, tx.who, refund)
  BY <1>3 DEF Refund, Larger
<1> HIDE DEF refund
<1>5. /\ LedgerOK(repaid, Locks)
      /\ CirculatingIn(repaid) = CirculatingIn(native) + refund
      /\ repaid.issuance = native.issuance
      /\ repaid.account = IF refund = 0 THEN native.account
           ELSE [native.account EXCEPT ![tx.who] = Moved(native.account[tx.who], refund, 0)]
  <2>1. CirculatingIn(native) \in Nat
    BY <1>1, CirculatingBounds, Zenon DEF LedgerOK
  <2>2. CASE refund = 0
    BY <1>1, <2>1, <2>2
  <2>3. CASE refund # 0
    <3>1. ~IsNew(native, tx.who)
      BY <1>4, <2>3, Zenon DEF CanDepositIntoExisting
    <3>2. refund \in Nat /\ repaid = Credit(native, tx.who, refund)
      BY <1>3, <1>4, <2>3
    <3>3. /\ LedgerOK(Credit(native, tx.who, refund), Locks)
          /\ Gains(native, Credit(native, tx.who, refund), refund, 0)
          /\ Credit(native, tx.who, refund).account
               = [native.account EXCEPT ![tx.who] = Moved(native.account[tx.who], refund, 0)]
          /\ Credit(native, tx.who, refund).issuance = native.issuance
      BY <1>1, <1>3, <3>1, <3>2, CreditKeeps
    <3> HIDE DEF repaid
    <3>. QED
      BY <2>1, <2>3, <3>2, <3>3 DEF Gains
  <2>. QED
    BY <2>2, <2>3, Zenon
<1>6. rest \in Nat /\ rest = tx.paid - refund
  BY <1>3, <1>4
<1> HIDE DEF repaid, rest
<1>7. LedgerOK(native', Locks) /\ CirculatingIn(native') = CirculatingIn(repaid)
  BY <1>2, <1>5, <1>6, BurntKeeps, Zenon DEF LedgerOK
<1>8. native'.account = repaid.account /\ native'.issuance = Larger(repaid.issuance - rest, 0)
  BY <1>2, Zenon DEF Burnt
<1>9. FeeInFlight = tx.paid /\ FeeInFlight' = 0
  BY <1>2, Zenon DEF FeeInFlight
<1>10. /\ refund = Refund(corrected_fee)
       /\ Circulating' = Circulating + refund
       /\ native'.issuance = Larger(native.issuance - (tx.paid - refund), 0)
       /\ native'.account = IF refund = 0 THEN native.account
            ELSE [native.account EXCEPT ![tx.who] = Moved(native.account[tx.who], refund, 0)]
  BY <1>5, <1>6, <1>7, <1>8, Zenon DEF Circulating, refund
<1>. QED
  BY <1>3, <1>4, <1>7, <1>9, <1>10, Zenon

\* Claims and payments of an address make up its entry of CLAIMS_DATA.
ClaimsInv ==
  /\ Claims \in [EthereumAddresses -> Nat]
  /\ claimed \in [EthereumAddresses -> Nat]
  /\ ClaimsPaidOnce

\* A claim pays what is due to its sender, out of nothing.
LEMMA ClaimKeeps ==
  ASSUME FiniteLaws, NativeInv, ClaimsInv, NEW w \in Holders, NEW a \in EthereumAddresses,
         Claim(w, Signature(a))
  PROVE  /\ LedgerOK(native', Locks)
         /\ Circulating' = Circulating + Claims[a]
         /\ native'.issuance = native.issuance + Claims[a]
         /\ native'.account = [native.account EXCEPT ![w] = Moved(native.account[w], Claims[a], 0)]
<1> DEFINE due == Claims[a]
           paid == Credit(native, w, due)
<1>1. LedgerOK(native, Locks) /\ References /\ due \in Nat
  BY Zenon DEF NativeInv, BalancesInv, ClaimsInv
<1>2. Signature(a).address = a
  BY Zenon DEF Signature
<1>3. /\ native.issuance + due <= MaxSupply
      /\ CanDepositCreating(native, w, due)
      /\ native' = Issued(paid, due)
  BY <1>2, Zenon DEF Claim, ProcessClaim
<1>4. due >= ExistentialDeposit \/ ~IsNew(native, w)
  BY <1>3, Zenon DEF CanDepositCreating
<1>5. /\ LedgerOK(paid, Locks)
      /\ Gains(native, paid, due, 0)
      /\ paid.account = [native.account EXCEPT ![w] = Moved(native.account[w], due, 0)]
      /\ paid.issuance = native.issuance
  BY <1>1, <1>4, CreditKeeps
<1>6. CirculatingIn(native) \in Nat /\ native.issuance \in Nat
  BY <1>1, CirculatingBounds, Zenon DEF LedgerOK, Ledger
<1> HIDE DEF due, paid
<1>7. /\ LedgerOK(native', Locks)
      /\ CirculatingIn(native') = CirculatingIn(paid)
      /\ native'.issuance = Smaller(paid.issuance + due, MaxSupply)
      /\ native'.account = paid.account
  BY <1>1, <1>3, <1>5, SquaredKeeps, ZenonT(60)
<1>8. CirculatingIn(native') = CirculatingIn(native) + due /\ native'.issuance = native.issuance + due
  <2>1. CirculatingIn(paid) = CirculatingIn(native) + due - 0
    BY <1>5, Zenon DEF Gains
  <2>2. CirculatingIn(native) + due - 0 = CirculatingIn(native) + due
    BY <1>1, <1>6
  <2>3. Smaller(native.issuance + due, MaxSupply) = native.issuance + due
    BY <1>3, Zenon DEF Smaller
  <2>. QED
    BY <1>5, <1>7, <2>1, <2>2, <2>3, Zenon
<1>. QED
  BY <1>5, <1>7, <1>8, Zenon DEF Circulating, due

\* Claims and runtime upgrades.
LEMMA ClaimsKeep ==
  ASSUME FiniteLaws, NativeInv, ClaimsInv, ClaimsNext, UNCHANGED paymentVars
  PROVE  NativeInv' /\ ClaimsInv'
<1>1. ASSUME NEW w \in Holders, NEW a \in EthereumAddresses, Claim(w, Signature(a))
      PROVE  NativeInv' /\ ClaimsInv'
  <2>1. Signature(a).address = a
    BY Zenon DEF Signature
  <2>2. /\ Claims' = [Claims EXCEPT ![a] = 0]
        /\ claimed' = [claimed EXCEPT ![a] = @ + Claims[a]]
        /\ UNCHANGED <<version, Locks, consumers, debt, credit, lost>>
        /\ native.issuance + Claims[a] <= MaxSupply
    BY <1>1, <2>1, Zenon DEF Claim, ProcessClaim, imbalances
  <2>3. ClaimsInv'
    BY <2>2 DEF ClaimsInv, ClaimsPaidOnce
  <2>4. LedgerOK(native', Locks) /\ native'.issuance = native.issuance + Claims[a]
    BY <1>1, ClaimKeeps, Zenon
  <2>5. NativeInv'
    BY <2>2, <2>4, Zenon DEF NativeInv, BalancesInv, References, paymentVars
  <2>. QED
    BY <2>3, <2>5, Zenon
<1>2. ASSUME OnRuntimeUpgrade
      PROVE  NativeInv' /\ ClaimsInv'
  <2>1. /\ Claims' = IF version = "none" THEN CLAIMS_DATA ELSE Claims
        /\ version' = "current"
        /\ UNCHANGED <<claimed, native, Locks, consumers, debt, credit, lost>>
    BY <1>2, Zenon DEF OnRuntimeUpgrade, ImportInitialClaims, balancesVars
  <2>2. ClaimsInv'
    <3>1. Claims' \in [EthereumAddresses -> Nat] /\ claimed' \in [EthereumAddresses -> Nat]
      BY <2>1, ClaimsAssumption, Zenon DEF ClaimsInv
    <3>2. ASSUME NEW a \in EthereumAddresses
          PROVE  claimed'[a] + Claims'[a] = CLAIMS_DATA[a]
      <4>1. claimed[a] \in Nat /\ Claims[a] \in Nat /\ CLAIMS_DATA[a] \in Nat
        BY ClaimsAssumption DEF ClaimsInv
      <4>2. claimed[a] + Claims[a] = IF version = "none" THEN 0 ELSE CLAIMS_DATA[a]
        BY Zenon DEF ClaimsInv, ClaimsPaidOnce
      <4>. QED
        BY <2>1, <4>1, <4>2
    <3>. QED
      BY <2>1, <3>1, <3>2, Zenon DEF ClaimsInv, ClaimsPaidOnce
  <2>3. NativeInv'
    BY <2>1, Zenon DEF NativeInv, BalancesInv, References, paymentVars
  <2>. QED
    BY <2>2, <2>3, Zenon
<1>. QED
  BY <1>1, <1>2, Zenon DEF ClaimsNext

\* Choosing, listing and paying in a currency.
LEMMA PaymentKeeps ==
  ASSUME FiniteLaws, NativeInv, PaymentNext
  PROVE  NativeInv'
<1>1. ASSUME NEW w \in Signers, NEW c \in FeeCurrencies \union {Core}, SetCurrency(w, c)
      PROVE  NativeInv'
  BY <1>1, Zenon DEF SetCurrency, NativeInv, BalancesInv, References, balancesVars, Signers
<1>2. ASSUME NEW w \in Signers, NEW c \in FeeCurrencies, AddCurrency(w, c) \/ RemoveCurrency(w, c)
      PROVE  NativeInv'
  BY <1>2, Zenon DEF AddCurrency, RemoveCurrency, NativeInv, BalancesInv, References, balancesVars
<1>3. ASSUME NEW w \in Signers, AddMember(w) \/ RemoveMember(w)
      PROVE  NativeInv'
  BY <1>3, Zenon DEF AddMember, RemoveMember, NativeInv, BalancesInv, References, balancesVars
<1>4. ASSUME NEW w \in Signers, NEW f \in Fees, NEW r \in {"Fee", "All"}, WithdrawFee(w, f, r)
      PROVE  NativeInv'
  <2>1. w \in Holders /\ f \in Nat
    BY MultiPaymentAssumption, Zenon DEF Signers
  <2>2. /\ LedgerOK(native', Locks) /\ tx' \in [who : Holders, paid : Nat]
        /\ \E b \in Nat : Gains(native, native', -f, b)
    BY <1>4, <2>1, WithdrawFeeKeeps, Zenon
  <2>3. UNCHANGED <<AccountCurrencyMap, Locks, consumers, debt, credit, lost>>
    BY <1>4, Zenon DEF WithdrawFee, imbalances
  <2>4. native.issuance \in Nat /\ native.issuance <= MaxSupply /\ MaxSupply \in Nat
    BY BalancesAssumption, Zenon DEF NativeInv, BalancesInv, LedgerOK, Ledger
  <2>5. native'.issuance <= MaxSupply
    <3>1. PICK b \in Nat : Gains(native, native', -f, b)
      BY <2>2, Zenon
    <3>. QED
      BY <2>4, <3>1 DEF Gains, Larger
  <2>. QED
    BY <2>2, <2>3, <2>5, Zenon DEF NativeInv, BalancesInv, References
<1>5. ASSUME NEW f \in CorrectedFees, CorrectAndDepositFee(f)
      PROVE  NativeInv'
  <2>1. f \in Nat
    BY MultiPaymentAssumption, Zenon
  <2>2. LedgerOK(native', Locks) /\ tx.paid \in Nat
    BY <1>5, <2>1, CorrectFeeKeeps, Zenon
  <2>3. PICK refund \in 0 .. tx.paid : native'.issuance = Larger(native.issuance - (tx.paid - refund), 0)
    BY <1>5, <2>1, CorrectFeeKeeps, Zenon
  <2>4. UNCHANGED <<AccountCurrencyMap, Locks, consumers, debt, credit, lost>> /\ tx' = NoTransaction
    BY <1>5, Zenon DEF CorrectAndDepositFee, imbalances
  <2>5. native.issuance \in Nat /\ native.issuance <= MaxSupply /\ MaxSupply \in Nat
    BY BalancesAssumption, Zenon DEF NativeInv, BalancesInv, LedgerOK, Ledger
  <2>6. native'.issuance <= MaxSupply
    BY <2>2, <2>3, <2>5 DEF Larger
  <2>. QED
    BY <2>2, <2>4, <2>6, Zenon DEF NativeInv, BalancesInv, References
<1>. QED
  BY <1>1, <1>2, <1>3, <1>4, <1>5, Zenon DEF PaymentNext

\* Every step of the native token keeps the invariant.
LEMMA NativeKeeps ==
  ASSUME FiniteLaws, NativeInv, ClaimsInv, [NativeNext]_nativeVars
  PROVE  NativeInv' /\ ClaimsInv'
<1>1. CASE BalancesNext /\ UNCHANGED <<claimsVars, paymentVars>>
  <2>1. BalancesInv'
    BY <1>1, BalancesStep, Zenon DEF NativeInv
  <2>2. UNCHANGED <<Claims, version, claimed, AccountCurrencyMap, tx>>
    BY <1>1, Zenon DEF claimsVars, paymentVars
  <2>. QED
    BY <2>1, <2>2, Zenon DEF NativeInv, ClaimsInv, ClaimsPaidOnce
<1>2. CASE ClaimsNext /\ UNCHANGED paymentVars
  BY <1>2, ClaimsKeep, Zenon
<1>3. CASE PaymentNext /\ UNCHANGED claimsVars
  <2>1. NativeInv'
    BY <1>3, PaymentKeeps, Zenon
  <2>. QED
    BY <1>3, <2>1, Zenon DEF ClaimsInv, ClaimsPaidOnce, claimsVars
<1>4. CASE UNCHANGED nativeVars
  BY <1>4, Zenon DEF nativeVars, balancesVars, claimsVars, paymentVars, NativeInv, BalancesInv, ClaimsInv,
              ClaimsPaidOnce, References
<1>. QED
  BY <1>1, <1>2, <1>3, <1>4, Zenon DEF NativeNext

-----------------------------------------------------------------------------
(* The supply, with fees and claims                                        *)

\* What the issuance does not count is a number.
LEMMA UncountedIs ==
  ASSUME BalancesInv
  PROVE  Uncounted \in Nat
<1>1. credit \in Nat /\ lost \in Nat
  BY Zenon DEF BalancesInv
<1>. QED
  BY <1>1, NatSum, Zenon DEF Uncounted

\* withdraw_fee: the fee in flight is owed, like an imbalance held.
LEMMA WithdrawFeeBacked ==
  ASSUME FiniteLaws, NativeInv, NEW who \in Holders, NEW fee \in Nat, NEW reasons,
         WithdrawFee(who, fee, reasons), NativeInv', Backed(FeeInFlight), Limits(FeeInFlight)'
  PROVE  Backed(FeeInFlight)'
<1>1. FeeInFlight = 0 /\ FeeInFlight' = fee /\ debt' = debt /\ Uncounted' = Uncounted
  BY WithdrawFeeKeeps, Zenon DEF WithdrawFee, imbalances, Uncounted
<1>2. PICK b \in Nat : Gains(native, native', -fee, b)
  BY WithdrawFeeKeeps, Zenon
<1>10. /\ native.issuance \in Nat /\ debt \in Nat /\ Uncounted \in Nat /\ Circulating \in Nat
  BY CirculatingBounds, UncountedIs, Zenon DEF NativeInv, BalancesInv, LedgerOK, Ledger, Circulating
<1>3. /\ native.issuance \in Nat /\ debt \in Nat /\ Uncounted \in Nat /\ Circulating \in Nat
      /\ -fee \in Int /\ debt + fee \in Nat /\ 0 \in Nat
      /\ -fee + ((debt + fee) - debt) = Uncounted - Uncounted
  BY <1>10
<1>4. Circulating' \in Nat
  BY CirculatingBounds, Zenon DEF NativeInv, BalancesInv, LedgerOK, Circulating
<1>5. Circulating' = Circulating + (-fee) - b /\ native'.issuance = Larger(native.issuance - b, 0)
  BY <1>2, Zenon DEF Gains, Circulating
<1>6. native.issuance + Uncounted = Circulating + debt + 0 /\ Uncounted <= Circulating'
  BY <1>1, Zenon DEF Backed, Limits
<1>7. MovesNumbers(native.issuance, Uncounted, Circulating, debt, 0, -fee, b,
                   Uncounted, Circulating', debt + fee)
  BY <1>3, <1>4, <1>5, <1>6, ZenonT(60) DEF MovesNumbers
<1>8. Larger(native.issuance - b, 0) + Uncounted = Circulating' + (debt + fee) + 0
  BY <1>7, MovesBack
<1>9. \A x \in Nat : x + (debt + fee) + 0 = x + debt + fee
  BY <1>3
<1>. QED
  BY <1>1, <1>4, <1>5, <1>8, <1>9, ZenonT(60) DEF Backed

\* correct_and_deposit_fee: what is not given back is taken from the issuance.
LEMMA CorrectFeeBacked ==
  ASSUME FiniteLaws, NativeInv, NEW corrected_fee \in Nat, CorrectAndDepositFee(corrected_fee),
         NativeInv', Backed(FeeInFlight), Limits(FeeInFlight)'
  PROVE  Backed(FeeInFlight)'
<1> DEFINE paid == tx.paid
<1>1. /\ FeeInFlight = paid /\ FeeInFlight' = 0 /\ debt' = debt /\ Uncounted' = Uncounted /\ paid \in Nat
  BY CorrectFeeKeeps, ZenonT(60) DEF CorrectAndDepositFee, imbalances, Uncounted
<1>2. PICK refund \in 0 .. paid :
        /\ Circulating' = Circulating + refund
        /\ native'.issuance = Larger(native.issuance - (paid - refund), 0)
  BY CorrectFeeKeeps, Zenon
<1> HIDE DEF paid
<1>3. /\ native.issuance \in Nat /\ debt \in Nat /\ Uncounted \in Nat /\ Circulating \in Nat
  BY CirculatingBounds, UncountedIs, Zenon DEF NativeInv, BalancesInv, LedgerOK, Ledger, Circulating
<1>4. /\ paid \in Int /\ debt + paid \in Nat /\ 0 \in Nat /\ paid - refund \in Nat
      /\ paid + (debt - (debt + paid)) = Uncounted - Uncounted
      /\ Circulating + refund = Circulating + paid - (paid - refund)
      /\ Circulating + debt + paid = Circulating + (debt + paid) + 0
  BY <1>1, <1>3
<1>5. Circulating' \in Nat
  BY CirculatingBounds, Zenon DEF NativeInv, BalancesInv, LedgerOK, Circulating
<1>6. /\ native.issuance + Uncounted = Circulating + (debt + paid) + 0 /\ Uncounted <= Circulating'
      /\ Circulating' = Circulating + paid - (paid - refund)
  BY <1>1, <1>2, <1>4, Zenon DEF Backed, Limits
<1>7. MovesNumbers(native.issuance, Uncounted, Circulating, debt + paid, 0, paid, paid - refund,
                   Uncounted, Circulating', debt)
  BY <1>3, <1>4, <1>5, <1>6, ZenonT(60) DEF MovesNumbers
<1>8. Larger(native.issuance - (paid - refund), 0) + Uncounted = Circulating' + debt + 0
  BY <1>7, MovesBack
<1>. QED
  BY <1>1, <1>2, <1>8, ZenonT(60) DEF Backed

\* A claim adds to what accounts hold what it adds to the issuance.
LEMMA ClaimBacked ==
  ASSUME FiniteLaws, NativeInv, ClaimsInv, NEW w \in Holders, NEW a \in EthereumAddresses,
         Claim(w, Signature(a)), UNCHANGED paymentVars, Backed(FeeInFlight)
  PROVE  Backed(FeeInFlight)'
<1>1. Circulating' = Circulating + Claims[a] /\ native'.issuance = native.issuance + Claims[a]
  BY ClaimKeeps, Zenon
<1>2. debt' = debt /\ Uncounted' = Uncounted /\ FeeInFlight' = FeeInFlight
  BY Zenon DEF Claim, ProcessClaim, imbalances, paymentVars, FeeInFlight, Uncounted
<1>3. /\ native.issuance \in Nat /\ debt \in Nat /\ Uncounted \in Nat /\ Circulating \in Nat
      /\ Claims[a] \in Nat /\ FeeInFlight \in Nat
  BY CirculatingBounds, UncountedIs, Zenon
     DEF NativeInv, BalancesInv, ClaimsInv, LedgerOK, Ledger, Circulating, FeeInFlight
<1>4. native.issuance + Uncounted = Circulating + debt + FeeInFlight
  BY Zenon DEF Backed
<1>5. native.issuance + Claims[a] + Uncounted = Circulating + Claims[a] + debt + FeeInFlight
  BY <1>3, <1>4
<1>. QED
  BY <1>1, <1>2, <1>5, ZenonT(60) DEF Backed

\* Every step keeps the issuance backed.
LEMMA NativeBacked ==
  ASSUME FiniteLaws, NativeInv, ClaimsInv, NativeInv', NativeNext,
         Backed(FeeInFlight), Limits(FeeInFlight), Limits(FeeInFlight)'
  PROVE  Backed(FeeInFlight)'
<1>1. CASE BalancesNext /\ UNCHANGED <<claimsVars, paymentVars>>
  <2>1. FeeInFlight \in Nat /\ BalancesInv
    BY Zenon DEF NativeInv, FeeInFlight
  <2>2. PICK k \in Nat : k = FeeInFlight
    BY <2>1, Zenon
  <2>3. k = FeeInFlight'
    BY <1>1, <2>2, Zenon DEF FeeInFlight, paymentVars
  <2>4. Backed(k) /\ Limits(k) /\ Limits(k)'
    BY <2>2, <2>3, Zenon DEF Backed, Limits
  <2>5. Backed(k)'
    BY <1>1, <2>1, <2>4, BalancesBacked, Zenon
  <2>. QED
    BY <2>3, <2>5, Zenon DEF Backed
<1>2. CASE ClaimsNext /\ UNCHANGED paymentVars
  <2>1. ASSUME NEW w \in Holders, NEW a \in EthereumAddresses, Claim(w, Signature(a))
        PROVE  Backed(FeeInFlight)'
    BY <1>2, <2>1, ClaimBacked, Zenon
  <2>2. ASSUME OnRuntimeUpgrade
        PROVE  Backed(FeeInFlight)'
    BY <1>2, <2>2, Zenon DEF OnRuntimeUpgrade, balancesVars, imbalances, paymentVars, FeeInFlight, Backed,
                      Circulating, Uncounted
  <2>. QED
    BY <1>2, <2>1, <2>2, Zenon DEF ClaimsNext
<1>3. CASE PaymentNext
  <2>1. ASSUME NEW w \in Signers, NEW f \in Fees, NEW r \in {"Fee", "All"}, WithdrawFee(w, f, r)
        PROVE  Backed(FeeInFlight)'
    BY <2>1, WithdrawFeeBacked, MultiPaymentAssumption, Zenon DEF Signers
  <2>2. ASSUME NEW f \in CorrectedFees, CorrectAndDepositFee(f)
        PROVE  Backed(FeeInFlight)'
    BY <2>2, CorrectFeeBacked, MultiPaymentAssumption, Zenon
  <2>3. ASSUME UNCHANGED <<balancesVars, tx>>
        PROVE  Backed(FeeInFlight)'
    BY <2>3, Zenon DEF balancesVars, imbalances, FeeInFlight, Backed, Circulating, Uncounted
  <2>. QED
    BY <1>3, <2>1, <2>2, <2>3, Zenon
       DEF PaymentNext, SetCurrency, AddCurrency, RemoveCurrency, AddMember, RemoveMember
<1>. QED
  BY <1>1, <1>2, <1>3, Zenon DEF NativeNext

-----------------------------------------------------------------------------
(* What a step does to accounts                                            *)

\* correct_and_deposit_fee charges the corrected fee, and the payer gets the
\* rest back: the balance type can count it, and the issuance has it.
LEMMA FeeCorrected ==
  ASSUME FiniteLaws, NativeInv, NEW f \in Nat, CorrectAndDepositFee(f),
         ~IsNew(native, tx.who), Backed(FeeInFlight), Limits(FeeInFlight)
  PROVE  /\ native.issuance - native'.issuance = Smaller(f, tx.paid)
         /\ native'.account[tx.who].free
              = native.account[tx.who].free + tx.paid - Smaller(f, tx.paid)
<1> DEFINE d == native.account[tx.who]
           over == Larger(tx.paid - f, 0)
<1>1. /\ tx \in [who : Holders, paid : Nat] /\ native \in Ledger
      /\ debt \in Nat /\ Uncounted \in Nat /\ native.issuance \in Nat /\ MaxSupply \in Nat
  BY BalancesAssumption, UncountedIs, Zenon DEF NativeInv, BalancesInv, LedgerOK, Ledger, CorrectAndDepositFee
<1>2. /\ tx.who \in Holders /\ tx.paid \in Nat /\ FeeInFlight = tx.paid
      /\ d \in AccountData /\ d.free \in Nat
  BY <1>1, CorrectFeeKeeps, Zenon DEF Ledger, AccountData
<1>3. Circulating \in Nat /\ d.free <= Circulating
  <2>1. Circulating \in Nat /\ Total(d) <= Circulating
    BY <1>1, <1>2, CirculatingBounds, Zenon DEF Circulating
  <2>. QED
    BY <1>2, <2>1 DEF Total, AccountData
<1>4. /\ native.issuance + Uncounted = Circulating + debt + tx.paid
      /\ 2 * (Circulating + debt + tx.paid) <= MaxSupply /\ Uncounted <= Circulating
  BY <1>2, Zenon DEF Backed, Limits
<1> HIDE DEF d
<1>5. over \in Nat /\ over <= tx.paid /\ tx.paid - over = Smaller(f, tx.paid)
  BY <1>2 DEF Larger, Smaller
<1>6. d.free + over <= MaxSupply /\ native.issuance >= tx.paid
  BY <1>1, <1>2, <1>3, <1>4, <1>5
<1>7. Refund(f) = over
  BY <1>6, Zenon DEF Refund, CanDepositIntoExisting, d
<1>8. /\ native'.issuance = Larger(native.issuance - (tx.paid - over), 0)
      /\ native'.account = IF over = 0 THEN native.account
           ELSE [native.account EXCEPT ![tx.who] = Moved(d, over, 0)]
  BY <1>7, CorrectFeeKeeps, ZenonT(60) DEF d
<1>9. native'.account[tx.who].free = d.free + over
  <2>1. CASE over = 0
    BY <1>2, <1>8, <2>1 DEF d
  <2>2. CASE over # 0
    BY <1>1, <1>2, <1>8, <2>2 DEF Moved, Ledger
  <2>. QED
    BY <2>1, <2>2, Zenon
<1>10. native'.issuance = native.issuance - (tx.paid - over)
  BY <1>1, <1>2, <1>5, <1>6, <1>8 DEF Larger
<1>. QED
  BY <1>1, <1>2, <1>5, <1>9, <1>10 DEF d

\* The elements of a sequence make it up.
LEMMA SeqElements ==
  ASSUME NEW S, NEW s \in Seq(S), NEW t \in Seq(S)
  PROVE  /\ \A k \in 1 .. Len(s) : s[k] \in S
         /\ Len(s) = Len(t) /\ (\A k \in 1 .. Len(s) : s[k] = t[k]) => s = t
OBVIOUS

\* Different bytes have different digits,
LEMMA HexDigits ==
  ASSUME NEW a \in 0 .. 255, NEW b \in 0 .. 255, a \div 16 = b \div 16, a % 16 = b % 16
  PROVE  a = b
OBVIOUS

\* so that different data have different texts (to_ascii_hex).
LEMMA HexInjective ==
  ASSUME NEW s \in Seq(0 .. 255), NEW t \in Seq(0 .. 255), to_ascii_hex(s) = to_ascii_hex(t)
  PROVE  s = t
<1>1. Len(s) \in Nat /\ Len(t) \in Nat
  OBVIOUS
<1>2. 1 .. 2 * Len(s) = 1 .. 2 * Len(t)
  <2>1. DOMAIN to_ascii_hex(s) = 1 .. 2 * Len(s) /\ DOMAIN to_ascii_hex(t) = 1 .. 2 * Len(t)
    BY Zenon DEF to_ascii_hex
  <2>. QED
    BY <2>1, Zenon
<1>3. Len(s) = Len(t)
  <2>1. \A m, n \in Nat : 1 .. 2 * m = 1 .. 2 * n => m <= n
    <3> SUFFICES ASSUME NEW m \in Nat, NEW n \in Nat, 1 .. 2 * m = 1 .. 2 * n, m > 0
                 PROVE  m <= n
      OBVIOUS
    <3>1. 2 * m \in 1 .. 2 * m
      OBVIOUS
    <3>. QED
      BY <3>1
  <2>. QED
    BY <1>1, <1>2, <2>1
<1>4. ASSUME NEW k \in 1 .. Len(s)
      PROVE  s[k] = t[k]
  <2>1. s[k] \in 0 .. 255 /\ t[k] \in 0 .. 255
    BY <1>3, SeqElements, Zenon
  <2>2. /\ 2 * k - 1 \in 1 .. 2 * Len(s) /\ 2 * k \in 1 .. 2 * Len(s)
        /\ ((2 * k - 1) + 1) \div 2 = k /\ (2 * k - 1) % 2 = 1
        /\ (2 * k + 1) \div 2 = k /\ (2 * k) % 2 # 1
    BY <1>1
  <2>3. /\ to_ascii_hex(s)[2 * k - 1] = s[k] \div 16 /\ to_ascii_hex(t)[2 * k - 1] = t[k] \div 16
        /\ to_ascii_hex(s)[2 * k] = s[k] % 16 /\ to_ascii_hex(t)[2 * k] = t[k] % 16
    BY <1>3, <2>2, Zenon DEF to_ascii_hex
  <2>. QED
    BY <2>1, <2>3, HexDigits, ZenonT(60)
<1>. QED
  <2> DEFINE Byte == 0 .. 255
  <2>1. s \in Seq(Byte) /\ t \in Seq(Byte)
    BY Zenon
  <2> HIDE DEF Byte
  <2>. QED
    BY <1>3, <1>4, <2>1, SeqElements, Zenon

\* A signature is valid for the account it was made for and for no other
\* sender.
LEMMA SignedForOne ==
  ASSUME NEW w \in Holders, NEW a \in EthereumAddresses, ValidateClaim(w, Signature(a))
  PROVE  w = SignedFor[a]
<1> DEFINE hex(v) == to_ascii_hex(Encoded[v])
           u == SignedFor[a]
<1>1. u \in Holders /\ Encoded[u] \in Seq(0 .. 255) /\ Encoded[w] \in Seq(0 .. 255)
  BY ClaimsAssumption
<1>2. ethereum_signable_message(hex(u), Prefix) = ethereum_signable_message(hex(w), Prefix)
  BY Zenon DEF ValidateClaim, Recover, Signature
<1>3. Prefix \o hex(u) = Prefix \o hex(w)
  BY <1>2, Zenon DEF ethereum_signable_message
<1>4. hex(u) \in Seq(Int) /\ hex(w) \in Seq(Int) /\ Prefix \in Seq(Int)
  <2>1. ASSUME NEW s \in Seq(0 .. 255)
        PROVE  to_ascii_hex(s) \in Seq(Int)
    <3>1. Len(s) \in Nat
      OBVIOUS
    <3>2. ASSUME NEW k \in 1 .. 2 * Len(s)
          PROVE  to_ascii_hex(s)[k] \in Int
      <4>1. (k + 1) \div 2 \in 1 .. Len(s)
        BY <3>1
      <4>2. s[(k + 1) \div 2] \in 0 .. 255
        BY <4>1, SeqElements, Zenon
      <4>3. \A b \in 0 .. 255 : b \div 16 \in Int /\ b % 16 \in Int
        OBVIOUS
      <4>4. to_ascii_hex(s)[k] = LET byte == s[(k + 1) \div 2]
                                 IN  IF k % 2 = 1 THEN byte \div 16 ELSE byte % 16
        BY Zenon DEF to_ascii_hex
      <4>. QED
        BY <4>2, <4>3, <4>4, Zenon
    <3>. QED
      BY <3>1, <3>2 DEF to_ascii_hex
  <2>2. Prefix \in Seq(Int)
    <3>1. \A S, T : S \subseteq T => Seq(S) \subseteq Seq(T)
      OBVIOUS
    <3>2. 0 .. 255 \subseteq Int
      OBVIOUS
    <3>3. Seq(0 .. 255) \subseteq Seq(Int)
      BY <3>1, <3>2, Zenon
    <3>4. Prefix \in Seq(0 .. 255)
      BY ClaimsAssumption, Zenon
    <3>. QED
      BY <3>3, <3>4, Zenon
  <2>. QED
    BY <1>1, <2>1, <2>2, Zenon
<1>5. \A s, t, p \in Seq(Int) : p \o s = p \o t => s = t
  <2> SUFFICES ASSUME NEW s \in Seq(Int), NEW t \in Seq(Int), NEW p \in Seq(Int), p \o s = p \o t
               PROVE  s = t
    BY Zenon
  <2>1. Len(s) = Len(t)
    <3>1. Len(p \o s) = Len(p) + Len(s) /\ Len(p \o t) = Len(p) + Len(t)
      OBVIOUS
    <3>. QED
      BY <3>1
  <2>2. ASSUME NEW k \in 1 .. Len(s)
        PROVE  s[k] = t[k]
    <3>1. (p \o s)[Len(p) + k] = s[k] /\ (p \o t)[Len(p) + k] = t[k]
      BY <2>1
    <3>. QED
      BY <3>1, Zenon
  <2>. QED
    BY <2>1, <2>2, SeqElements, Zenon
<1>6. hex(u) = hex(w)
  <2> HIDE DEF hex
  <2>. QED
    BY <1>3, <1>4, <1>5, Zenon
<1>7. Encoded[u] = Encoded[w]
  BY <1>1, <1>6, HexInjective, Zenon
<1>. QED
  BY <1>1, <1>7, ClaimsAssumption, Zenon

\* A claim pays its sender what is due, and no other account anything.
LEMMA ClaimPaysSigner ==
  ASSUME FiniteLaws, NativeInv, ClaimsInv, NEW v \in Holders, NEW b \in EthereumAddresses,
         Claim(v, Signature(b))
  PROVE  \A a \in EthereumAddresses :
           claimed'[a] # claimed[a] =>
             \A w \in Holders :
               native'.account[w].free - native.account[w].free
                 = IF w = SignedFor[a] THEN claimed'[a] - claimed[a] ELSE 0
<1>1. v = SignedFor[b]
  BY SignedForOne, Zenon DEF Claim, ValidateExtension
<1>2. Signature(b).address = b
  BY DEF Signature
<1>3. claimed' = [claimed EXCEPT ![b] = @ + Claims[b]]
  BY <1>2, Zenon DEF Claim, ProcessClaim
<1>4. native'.account = [native.account EXCEPT ![v] = Moved(native.account[v], Claims[b], 0)]
  BY ClaimKeeps, Zenon
<1>5. /\ native.account \in [Holders -> AccountData]
      /\ claimed \in [EthereumAddresses -> Nat] /\ Claims[b] \in Nat
  BY Zenon DEF NativeInv, BalancesInv, LedgerOK, Ledger, ClaimsInv
<1> SUFFICES ASSUME NEW a \in EthereumAddresses, claimed'[a] # claimed[a], NEW w \in Holders
             PROVE  native'.account[w].free - native.account[w].free
                      = IF w = SignedFor[a] THEN claimed'[a] - claimed[a] ELSE 0
  BY Zenon
<1>6. a = b
  BY <1>3, <1>5, Zenon
<1>7. native.account[w].free \in Nat /\ claimed[a] \in Nat
  BY <1>5, Zenon DEF AccountData
<1>8. claimed'[a] - claimed[a] = Claims[b]
  BY <1>3, <1>5, <1>6, <1>7
<1>9. native'.account[w].free = native.account[w].free + IF w = v THEN Claims[b] ELSE 0
  BY <1>4, <1>5, <1>7 DEF Moved
<1>. QED
  BY <1>1, <1>5, <1>6, <1>7, <1>8, <1>9

\* A ledger whose accounts have their deposit or are removed.
Existing(N) == \A u \in Holders : IsNew(N, u) \/ ~Dies(N.account[u])

\* The handler's account has the dust, if there is one and it exists.
LEMMA DustPaid ==
  ASSUME NEW M \in Ledger, NEW dust \in Nat, Existing(M), NEW u \in Holders
  PROVE  /\ u # DustReceiver \/ IsNew(M, u) \/ dust = 0 =>
              CleanDust(M, dust).account[u] = M.account[u]
         /\ M.account[u].free + dust <= MaxSupply =>
              CleanDust(M, dust).account[u].free
                = M.account[u].free + IF u = DustReceiver /\ ~IsNew(M, u) THEN dust ELSE 0
<1> DEFINE r == DustReceiver
           pays == dust > 0 /\ r # NoReceiver /\ CanDepositIntoExisting(M, r, dust)
           d == Moved(M.account[r], dust, 0)
<1>1. M.account \in [Holders -> AccountData] /\ M.account[u].free \in Nat
  BY Zenon DEF Ledger, AccountData
<1>2. CASE pays
  <2>1. r \in Holders /\ dust # 0 /\ ~IsNew(M, r)
    BY <1>2, BalancesAssumption DEF CanDepositIntoExisting
  <2>2. ~Dies(d)
    <3>1. M.account[r] \in AccountData /\ ~Dies(M.account[r])
      BY <1>1, <2>1, Zenon DEF Existing
    <3>. QED
      BY <3>1, BalancesAssumption DEF Dies, Total, Moved, AccountData
  <2>3. CleanDust(M, dust).account = [M.account EXCEPT ![r] = d]
    <3>1. CleanDust(M, dust) = Store(M, r, d)
      BY <1>2, Zenon DEF CleanDust
    <3>. QED
      BY <2>2, <3>1 DEF Store
  <2>4. d.free = M.account[r].free + dust
    BY Zenon DEF Moved
  <2> HIDE DEF d
  <2>. QED
    BY <1>1, <2>1, <2>3, <2>4
<1>3. CASE ~pays
  <2>1. CleanDust(M, dust).account = M.account
    BY <1>3, Zenon DEF CleanDust, Burnt
  <2>2. u = r /\ ~IsNew(M, u) /\ M.account[u].free + dust <= MaxSupply => dust = 0
    BY <1>3, BalancesAssumption DEF CanDepositIntoExisting
  <2>. QED
    BY <1>1, <2>1, <2>2
<1>. QED
  BY <1>2, <1>3, Zenon

\* Nested mutations of which at most one leaves dust.
LEMMA BothPaid ==
  ASSUME NEW N \in Ledger, NEW v \in Holders, NEW w \in Holders, v # w,
         NEW d \in AccountData, NEW e \in AccountData, Dust(d) = 0 \/ Dust(e) = 0,
         NEW S, S = Store(Store(N, v, d), w, e)
  PROVE  /\ S \in Ledger
         /\ S.account = [N.account EXCEPT ![v] = Becomes(d), ![w] = Becomes(e)]
         /\ MutateBoth(N, v, d, w, e).account
              = CleanDust(S, IF Dust(d) = 0 THEN Dust(e) ELSE Dust(d)).account
<1>1. Becomes(d) \in AccountData /\ Becomes(e) \in AccountData
  BY Zenon DEF Becomes, Default, AccountData
<1>2. S = [account  |-> [N.account EXCEPT ![v] = Becomes(d), ![w] = Becomes(e)],
           issuance |-> N.issuance]
  BY DEF Store, Becomes
<1>3. S.account = [N.account EXCEPT ![v] = Becomes(d), ![w] = Becomes(e)] /\ S \in Ledger
  BY <1>1, <1>2 DEF Ledger
<1>4. MutateBoth(N, v, d, w, e) = CleanDust(CleanDust(S, Dust(d)), Dust(e))
  BY Zenon DEF MutateBoth
<1>5. CleanDust(S, 0) = S
  BY <1>3 DEF CleanDust, Burnt, Ledger, Larger
<1>6. ASSUME NEW M
      PROVE  CleanDust(M, 0).account = M.account
  BY DEF CleanDust, Burnt
<1>7. CASE Dust(d) = 0
  BY <1>3, <1>4, <1>5, <1>7, Zenon
<1>8. CASE Dust(d) # 0 /\ Dust(e) = 0
  <2>1. MutateBoth(N, v, d, w, e).account = CleanDust(S, Dust(d)).account
    BY <1>4, <1>6, <1>8, Zenon
  <2>. QED
    BY <1>3, <1>8, <2>1, Zenon
<1>. QED
  BY <1>7, <1>8, Zenon

\* The balance type can count what an account has with some dust.
DustFits(d, dust) == d.free + dust <= MaxSupply

\* What an account has when `to` has become `got` and the handler has the dust.
FreeWithDust(N, to, got, dust, u) ==
  (IF u = to THEN got.free ELSE N.account[u].free)
    + IF u = DustReceiver /\ (u = to \/ ~IsNew(N, u)) THEN dust ELSE 0

\* `from` is removed with `paid` left of it, and `to` becomes `got`.
Removes(N, from, paid, to, got, S) ==
  /\ N \in Ledger /\ Existing(N) /\ from # to
  /\ paid \in AccountData /\ got \in AccountData /\ ~Dies(got) /\ got # Default
  /\ S \in Ledger /\ S.account = [N.account EXCEPT ![from] = Becomes(paid), ![to] = got]
  /\ CleanDust(S, Dust(paid)).account[from] = Default

\* The handler's account has what is left of an account that is removed.
LEMMA RemovalPays ==
  ASSUME NEW from \in Holders, NEW to \in Holders, NEW u \in Holders, u # from,
         NEW N, NEW S, NEW paid, NEW got, Removes(N, from, paid, to, got, S),
         DustFits(S.account[u], Total(paid))
  PROVE  CleanDust(S, Dust(paid)).account[u].free = FreeWithDust(N, to, got, Total(paid), u)
<1> USE DEF Removes
<1>1. /\ N.account \in [Holders -> AccountData] /\ Becomes(paid) \in AccountData
      /\ Total(paid) \in Nat
  BY DEF Ledger, Becomes, Default, AccountData, Total
<1>2. /\ S.account[from] = Becomes(paid) /\ S.account[to] = got
      /\ \A w \in Holders \ {from, to} : S.account[w] = N.account[w]
  BY <1>1, Zenon
<1>3. Existing(S)
  <2> SUFFICES ASSUME NEW w \in Holders PROVE IsNew(S, w) \/ ~Dies(S.account[w])
    BY Zenon DEF Existing
  <2>1. CASE w = from
    BY <1>2, <2>1, Zenon DEF Becomes, IsNew
  <2>2. CASE w # from
    BY <1>2, <2>2, Zenon DEF Existing, IsNew
  <2>. QED
    BY <2>1, <2>2, Zenon
<1>4. Dust(paid) = Total(paid)
  <2>1. CASE Dies(paid)
    BY <2>1, Zenon DEF Dust
  <2>2. CASE ~Dies(paid)
    <3>1. Dust(paid) = 0 /\ S.account[from] = paid
      BY <1>2, <2>2, Zenon DEF Dust, Becomes
    <3>2. CleanDust(S, 0).account = S.account
      BY DEF CleanDust, Burnt
    <3>3. CleanDust(S, Dust(paid)).account[from] = paid
      BY <3>1, <3>2, Zenon
    <3>. QED
      BY <3>1, <3>3 DEF IsNew, Default, Total
  <2>. QED
    BY <2>1, <2>2, Zenon
<1>5. IsNew(S, u) <=> ~(u = to \/ ~IsNew(N, u))
  BY <1>2 DEF IsNew
<1>6. CleanDust(S, Dust(paid)).account[u].free
        = S.account[u].free + IF u = DustReceiver /\ ~IsNew(S, u) THEN Total(paid) ELSE 0
  BY <1>1, <1>3, <1>4, DustPaid DEF DustFits
<1>. QED
  BY <1>2, <1>5, <1>6, Zenon DEF FreeWithDust

\* Within the limits, the balance type can count what any two accounts hold.
LEMMA CirculatingLimits ==
  ASSUME FiniteLaws, NativeInv, NEW k \in Nat, Limits(k)
  PROVE  /\ Circulating \in Nat /\ 2 * Circulating <= MaxSupply
         /\ \A w \in Holders : /\ Total(native.account[w]) <= Circulating
                               /\ native.account[w].free <= Circulating
<1>1. native \in Ledger /\ debt \in Nat /\ MaxSupply \in Nat
  BY BalancesAssumption, Zenon DEF NativeInv, BalancesInv, LedgerOK
<1>2. Circulating \in Nat /\ \A w \in Holders : Total(native.account[w]) <= Circulating
  BY <1>1, CirculatingBounds, Zenon DEF Circulating
<1>3. 2 * (Circulating + debt + k) <= MaxSupply
  BY Zenon DEF Limits
<1>4. ASSUME NEW w \in Holders
      PROVE  native.account[w].free <= Circulating
  <2>1. native.account[w].free \in Nat /\ native.account[w].reserved \in Nat
    BY <1>1, Zenon DEF Ledger, AccountData
  <2>. QED
    BY <1>2, <2>1 DEF Total
<1>. QED
  BY <1>1, <1>2, <1>3, <1>4

\* An account whose balances move.
LEMMA MovedIs ==
  ASSUME NEW c \in AccountData, NEW x \in Int, NEW y \in Int,
         c.free + x >= 0, c.reserved + y >= 0
  PROVE  /\ Moved(c, x, y) \in AccountData
         /\ Moved(c, x, y).free = c.free + x
         /\ Total(Moved(c, x, y)) = Total(c) + (x + y)
BY DEF Moved, AccountData, Total

\* An account that gets something goes on living.
LEMMA GrownLives ==
  ASSUME NEW c \in AccountData, NEW f \in AccountData, NEW x \in Nat,
         ~Dies(c), Total(f) = Total(c) + (x + 0)
  PROVE  ~Dies(f)
BY BalancesAssumption DEF Dies, Total, AccountData

\* A transfer that removes the sender.
LEMMA TransferPays ==
  ASSUME FiniteLaws, NativeInv, NEW k \in Nat, Limits(k), NEW from \in Holders, NEW to \in Holders,
         NEW value \in Nat, IsNew(native, from)'
  PROVE  TransferWithDust(from, to, value)
<1> DEFINE d    == native.account[from]
           e    == native.account[to]
           paid == Moved(d, -value, 0)
           got  == Moved(e, value, 0)
           S    == Store(Store(native, from, paid), to, got)
           dust == Total(d) - value
<1> SUFFICES ASSUME TransferBetween(from, to, value, FALSE), value > 0, from # to,
                    NEW u \in Holders \ {from}
             PROVE  native'.account[u].free = native.account[u].free + Received(u, to, value, dust)
  BY Zenon DEF TransferWithDust
<1>1. /\ native \in Ledger /\ Existing(native) /\ d \in AccountData /\ e \in AccountData
      /\ native.account[u] \in AccountData
  BY Zenon DEF NativeInv, BalancesInv, LedgerOK, GoodAccount, Existing, IsNew, Ledger
<1>2. /\ paid.free >= 0 /\ Total(got) >= ExistentialDeposit
      /\ native' = MutateBoth(native, from, paid, to, got)
  BY DEF TransferBetween, CanTransferNative, TransferNative
<1>3. /\ paid \in AccountData /\ got \in AccountData /\ Total(paid) = dust
      /\ ~Dies(got) /\ got # Default /\ got.free = e.free + value
  <2>1. d.free \in Nat /\ d.reserved \in Nat /\ e.free \in Nat /\ e.reserved \in Nat
    BY <1>1, Zenon DEF AccountData
  <2>2. d.free + -value >= 0
    BY <1>2 DEF Moved
  <2>3. /\ e.free + value >= 0 /\ d.reserved + 0 >= 0 /\ e.reserved + 0 >= 0
        /\ value \in Int /\ -value \in Int /\ 0 \in Int
    BY <2>1
  <2>4. /\ paid \in AccountData /\ Total(paid) = Total(d) + (-value + 0)
        /\ got \in AccountData /\ got.free = e.free + value
    BY <1>1, <2>2, <2>3, MovedIs, Zenon
  <2> HIDE DEF paid, got
  <2>5. Total(paid) = dust
    BY <2>1, <2>4 DEF Total
  <2>6. ~Dies(got)
    BY <1>2, <2>4, BalancesAssumption DEF Dies, Total, AccountData
  <2>7. got.free # 0
    BY <2>1, <2>4
  <2>8. got # Default
    BY <2>7 DEF Default
  <2>. QED
    BY <2>4, <2>5, <2>6, <2>8, Zenon
<1>4. Dust(got) = 0 /\ Becomes(got) = got
  BY <1>3 DEF Dust, Becomes
<1>5. d.free \in Nat /\ d.reserved \in Nat /\ e.free \in Nat /\ native.account[u].free \in Nat
  BY <1>1, Zenon DEF AccountData
<1>6. /\ Circulating \in Nat /\ Total(d) <= Circulating
      /\ e.free <= Circulating /\ native.account[u].free <= Circulating
      /\ 2 * Circulating <= MaxSupply
  BY <1>1, CirculatingLimits, Zenon
<1> HIDE DEF paid, got
<1>7. /\ S \in Ledger
      /\ S.account = [native.account EXCEPT ![from] = Becomes(paid), ![to] = got]
      /\ native'.account = CleanDust(S, Dust(paid)).account
  <2>1. /\ S \in Ledger
        /\ S.account = [native.account EXCEPT ![from] = Becomes(paid), ![to] = Becomes(got)]
        /\ MutateBoth(native, from, paid, to, got).account
             = CleanDust(S, IF Dust(paid) = 0 THEN Dust(got) ELSE Dust(paid)).account
    <3>1. S = Store(Store(native, from, paid), to, got)
      BY Zenon
    <3> HIDE DEF S
    <3>. QED
      BY <1>1, <1>3, <1>4, <3>1, BothPaid
  <2>2. (IF Dust(paid) = 0 THEN Dust(got) ELSE Dust(paid)) = Dust(paid)
    BY <1>4, Zenon
  <2>. QED
    BY <1>2, <1>4, <2>1, <2>2, Zenon
<1> HIDE DEF S, d, e
<1>8. S.account[u].free = (IF u = to THEN got.free ELSE native.account[u].free)
  BY <1>1, <1>7, Zenon DEF Ledger
<1>9. DustFits(S.account[u], Total(paid))
  BY <1>3, <1>5, <1>6, <1>8, BalancesAssumption DEF DustFits, Total
<1>10. native'.account[u].free = FreeWithDust(native, to, got, Total(paid), u)
  <2>1. CleanDust(S, Dust(paid)).account[from] = Default
    BY <1>7, Zenon DEF IsNew
  <2>2. Removes(native, from, paid, to, got, S)
    BY <1>1, <1>3, <1>7, <2>1, Zenon DEF Removes
  <2>3. CleanDust(S, Dust(paid)).account[u].free = FreeWithDust(native, to, got, Total(paid), u)
    <3>1. u \in Holders /\ u # from
      BY Zenon
    <3>2. \A X, T : Removes(native, from, paid, to, got, X) /\ T = Total(paid)
                      /\ DustFits(X.account[u], T) =>
            CleanDust(X, Dust(paid)).account[u].free = FreeWithDust(native, to, got, T, u)
      BY <3>1, RemovalPays, SMTT(60)
    <3>. QED
      BY <1>9, <2>2, <3>2, Zenon
  <2>. QED
    BY <1>7, <2>3, Zenon
<1>11. native.account[u].free + Received(u, to, value, dust)
         = FreeWithDust(native, to, got, Total(paid), u)
  BY <1>3, <1>5, <1>6 DEF Received, FreeWithDust, e, Total
<1>. QED
  BY <1>10, <1>11, Zenon

\* A repatriation that removes the account it takes from.
LEMMA RepatriationPays ==
  ASSUME FiniteLaws, NativeInv, NEW k \in Nat, Limits(k), NEW from \in Holders, NEW to \in Holders,
         NEW value \in Nat, IsNew(native, from)'
  PROVE  RepatriationWithDust(from, to, value)
<1> DEFINE d      == native.account[from]
           e      == native.account[to]
           actual == Smaller(d.reserved, value)
           paid   == Moved(d, 0, -actual)
           got    == Moved(e, actual, 0)
           S      == Store(Store(native, to, got), from, paid)
           dust   == Total(d) - actual
<1> SUFFICES ASSUME Repatriate(from, to, value, "Free", TRUE), value > 0, from # to,
                    NEW u \in Holders \ {from}
             PROVE  native'.account[u].free = native.account[u].free + Received(u, to, actual, dust)
  BY DEF RepatriationWithDust
<1>1. /\ native \in Ledger /\ Existing(native) /\ d \in AccountData /\ e \in AccountData
      /\ native.account[u] \in AccountData
  BY Zenon DEF NativeInv, BalancesInv, LedgerOK, GoodAccount, Existing, IsNew, Ledger
<1>2. d.free \in Nat /\ d.reserved \in Nat /\ e.free \in Nat /\ native.account[u].free \in Nat
  BY <1>1 DEF AccountData
<1>3. actual \in Nat /\ actual <= d.reserved
  BY <1>2, SMTT(60) DEF Smaller
<1>4. ~IsNew(native, to) /\ ~Dies(e)
  BY <1>1 DEF Repatriate, CanRepatriateNative, Existing
<1>5. native' = MutateBoth(native, to, got, from, paid)
  <2>1. actual - actual = 0
    BY <1>3
  <2>2. native' = RepatriateNative(native, from, to, value, "Free")
    <3>1. CASE CanMutate(native, from, paid)
      BY <3>1, Zenon DEF Repatriate
    <3>2. CASE ~CanMutate(native, from, paid)
      <4>1. ~IsNew(native, from)
        BY <3>2, Zenon DEF CanMutate
      <4>2. ~(value = 0 \/ from = to)
        BY <1>2
      <4>3. native' = Burnt(native, Total(paid))
        BY <3>2, <4>2, Zenon DEF Repatriate, Refused
      <4>4. native'.account = native.account
        BY <4>3, Zenon DEF Burnt
      <4>. QED
        BY <4>1, <4>4, Zenon DEF IsNew
    <3>. QED
      BY <3>1, <3>2, Zenon
  <2>. QED
    BY <2>1, <2>2 DEF RepatriateNative
<1> HIDE DEF actual
<1>6. /\ paid \in AccountData /\ got \in AccountData /\ Total(paid) = dust
      /\ ~Dies(got) /\ got # Default /\ got.free = e.free + actual
  <2>1. e.reserved \in Nat /\ d.free + 0 >= 0 /\ e.free + actual >= 0 /\ e.reserved + 0 >= 0
    BY <1>1, <1>2, <1>3 DEF AccountData
  <2>2. d.reserved + -actual >= 0 /\ actual \in Int /\ -actual \in Int /\ 0 \in Int
    BY <1>2, <1>3
  <2>3. got # Default
    BY <1>1, <1>3, <1>4 DEF Moved, AccountData, Default, IsNew
  <2>4. /\ paid \in AccountData /\ Total(paid) = Total(d) + (0 + -actual)
        /\ got \in AccountData /\ got.free = e.free + actual
        /\ Total(got) = Total(e) + (actual + 0)
    BY <1>1, <2>1, <2>2, MovedIs, Zenon
  <2> HIDE DEF paid, got
  <2>5. Total(paid) = dust
    BY <1>2, <1>3, <2>4 DEF Total
  <2>6. ~Dies(got)
    BY <1>1, <1>3, <1>4, <2>4, GrownLives, Zenon
  <2>. QED
    BY <2>3, <2>4, <2>5, <2>6, Zenon
<1>7. Dust(got) = 0 /\ Becomes(got) = got
  BY <1>6 DEF Dust, Becomes
<1>8. /\ Circulating \in Nat /\ Total(d) <= Circulating
      /\ e.free <= Circulating /\ native.account[u].free <= Circulating
      /\ 2 * Circulating <= MaxSupply
  BY <1>1, CirculatingLimits, Zenon
<1> HIDE DEF paid, got
<1>9. /\ S \in Ledger
      /\ S.account = [native.account EXCEPT ![from] = Becomes(paid), ![to] = got]
      /\ native'.account = CleanDust(S, Dust(paid)).account
  <2>1. /\ S \in Ledger
        /\ S.account = [native.account EXCEPT ![to] = Becomes(got), ![from] = Becomes(paid)]
        /\ MutateBoth(native, to, got, from, paid).account
             = CleanDust(S, IF Dust(got) = 0 THEN Dust(paid) ELSE Dust(got)).account
    <3>1. S = Store(Store(native, to, got), from, paid)
      BY Zenon
    <3> HIDE DEF S
    <3>. QED
      BY <1>1, <1>6, <1>7, <3>1, BothPaid
  <2>2. [native.account EXCEPT ![to] = got, ![from] = Becomes(paid)]
          = [native.account EXCEPT ![from] = Becomes(paid), ![to] = got]
    BY <1>1, Zenon DEF Ledger
  <2>. QED
    BY <1>5, <1>7, <2>1, <2>2, Zenon
<1> HIDE DEF S, d, e
<1>10. S.account[u].free = (IF u = to THEN got.free ELSE native.account[u].free)
  <2>1. native.account \in [Holders -> AccountData] /\ u \in Holders /\ u # from
    BY <1>1, Zenon DEF Ledger
  <2>2. S.account[u] = IF u = to THEN got ELSE native.account[u]
    BY <1>9, <2>1, Zenon
  <2>. QED
    BY <2>2, Zenon
<1>11. DustFits(S.account[u], Total(paid))
  BY <1>2, <1>3, <1>6, <1>8, <1>10, BalancesAssumption, SMTT(60) DEF DustFits, Total
<1>12. native'.account[u].free = FreeWithDust(native, to, got, Total(paid), u)
  <2>1. CleanDust(S, Dust(paid)).account[from] = Default
    BY <1>9, Zenon DEF IsNew
  <2>2. Removes(native, from, paid, to, got, S)
    BY <1>1, <1>6, <1>9, <2>1, Zenon DEF Removes
  <2>3. CleanDust(S, Dust(paid)).account[u].free = FreeWithDust(native, to, got, Total(paid), u)
    <3>1. u \in Holders /\ u # from
      BY Zenon
    <3>2. \A X, T : Removes(native, from, paid, to, got, X) /\ T = Total(paid)
                      /\ DustFits(X.account[u], T) =>
            CleanDust(X, Dust(paid)).account[u].free = FreeWithDust(native, to, got, T, u)
      BY <3>1, RemovalPays, SMTT(60)
    <3>. QED
      BY <1>11, <2>2, <3>2, Zenon
  <2>. QED
    BY <1>9, <2>3, Zenon
<1>13. native.account[u].free + Received(u, to, actual, dust)
         = FreeWithDust(native, to, got, Total(paid), u)
  BY <1>2, <1>3, <1>6, <1>8 DEF Received, FreeWithDust, e, Total
<1>. QED
  BY <1>12, <1>13, Zenon
=============================================================================
