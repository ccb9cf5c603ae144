---------------------------- MODULE NativeToken -----------------------------
(***************************************************************************)
(* The native token with the pallets that create and burn it: balances,    *)
(* claims and fee payment act on one ledger, and the fee of a transaction  *)
(* is in nobody's account while its call runs.                             *)
(***************************************************************************)
EXTENDS Claims, MultiPayment

nativeVars == <<balancesVars, claimsVars, paymentVars>>

NativeInit == BalancesInit /\ ClaimsInit /\ PaymentInit

NativeNext ==
  \/ BalancesNext /\ UNCHANGED <<claimsVars, paymentVars>>
  \/ ClaimsNext /\ UNCHANGED paymentVars
  \/ PaymentNext /\ UNCHANGED claimsVars

NativeSpec == NativeInit /\ [][NativeNext]_nativeVars

-----------------------------------------------------------------------------
(* The supply                                                              *)

FeeInFlight == IF tx = NoTransaction THEN 0 ELSE tx.paid

\* What accounts hold and what was taken from them and is not settled.
Supply == Circulating + debt + FeeInFlight

\* The arithmetic of imbalances saturates.  The supply is far from the
\* 2^128 - 1 that the balance type can count; what is missing from the issuance
\* (positive imbalances, which are to be taken from accounts, and what refused
\* removals took) is no more than accounts have; and what refused removals took
\* leaves the issuance with as much as any one account has.
WithinLimits ==
  /\ 2 * Supply <= MaxSupply
  /\ credit + lost <= Circulating
  /\ \A w \in Holders : Total(native.account[w]) + lost <= Supply

LimitedSpec == NativeInit /\ WithinLimits /\ [][NativeNext /\ WithinLimits']_nativeVars

-----------------------------------------------------------------------------
(* Accounts have their four balances and existence is all or nothing: no   *)
(* mutation leaves an account with less than the existential deposit.      *)
NativeTypeOK ==
  /\ native \in [account : [Holders -> AccountData], issuance : Nat]
  /\ \A w \in Holders : IsNew(native, w) \/ ~Dies(native.account[w])
  /\ Locks \in [Holders -> [LockIds -> BalanceLock \union {NoLock}]]
  /\ consumers \in [Holders -> Nat]
  /\ debt \in Nat /\ credit \in Nat /\ lost \in Nat
  /\ AccountCurrencyMap \in [Holders -> FeeCurrencies \union {Core}]
  /\ tx \in {NoTransaction} \union [who : Holders, paid : Nat]

(* TotalIssuance, the positive imbalances still held and what removals     *)
(* that frame_system refused have burnt are the supply: over removed       *)
(* accounts and the dust that a handler pays into another account of the   *)
(* same transfer, slashes that had to stop at the existential deposit,     *)
(* claims, imbalances dropped, settled or offset in any order, and fees    *)
(* whose payer was removed before the refund.                              *)
IssuanceBacked == native.issuance + (credit + lost) = Supply

(* The frozen amounts that withdrawals are checked against are those of    *)
(* the account's locks.  They are stored apart (update_locks), and the     *)
(* account's are lost when it is removed; the consumer reference of the    *)
(* locks must keep every slash, repatriation and withdrawal from that.     *)
FrozenAsLocked ==
  \A w \in Holders :
    /\ native.account[w].misc_frozen = Frozen(Locks[w], "Misc")
    /\ native.account[w].fee_frozen = Frozen(Locks[w], "Fee")

(* What the pallet answers about an account, its operations then do, in    *)
(* any state of locks, reserves and references.  The balance it calls      *)
(* reducible can be transferred away under the same existence requirement; *)
(* what can be held can be reserved, and all that is reserved be slashed   *)
(* then without removing the account or cutting into its locks; and a      *)
(* slash it calls possible takes its whole value, unless a reference keeps *)
(* the account in existence.                                               *)
QueriesKept ==
  \A w \in Holders :
    /\ \A k \in BOOLEAN, to \in Holders :
         ~IsNew(native, to) => CanTransferNative(native, w, to, ReducibleBalance(w, k), k)
    /\ \A v \in Amounts :
         /\ CanHold(w, v) =>
              LET held    == ReserveNative(native, w, v)
                  slashed == SlashReservedTo(held, w, held.account[w].reserved)
              IN  /\ CanReserveNative(native, w, v)
                  /\ slashed.reserved = 0
                  /\ ~Dies(slashed)
                  /\ slashed.free >= FrozenFor(slashed, "All")
         /\ CanSlash(w, v) /\ consumers[w] = 0 =>
              Total(SlashTo(native, w, v)) = Total(native.account[w]) - v

(* correct_and_deposit_fee burns the fee as it is corrected, or what was   *)
(* withdrawn if that is less, and gives its payer all the rest, whatever   *)
(* the call did to the account in between, unless the call removed it.     *)
FeeChargedAsCorrected ==
  [][\A f \in CorrectedFees :
       CorrectAndDepositFee(f) /\ ~IsNew(native, tx.who) =>
         /\ native.issuance - native'.issuance = Smaller(f, tx.paid)
         /\ native'.account[tx.who].free
              = native.account[tx.who].free + tx.paid - Smaller(f, tx.paid)]_<<native, tx>>

-----------------------------------------------------------------------------
(* The handler of dust is called while the transfer that left the dust is  *)
(* still under way (tests_reentrancy.rs).                                  *)

\* What the transfer and the handler's own deposit add to an account: the
\* handler pays into an existing account, or the dust is lost.
Received(u, to, value, dust) ==
  (IF u = to THEN value ELSE 0)
    + (IF u = DustReceiver /\ (u = to \/ ~IsNew(native, u)) THEN dust ELSE 0)

\* transfer_dust_removal_tst1 and tst2: the sender is removed, the beneficiary
\* has the value and the handler's account the dust, or one account has both.
TransferWithDust(from, to, value) ==
  LET dust == Total(native.account[from]) - value
  IN  TransferBetween(from, to, value, FALSE) /\ value > 0 /\ from # to =>
        \A u \in Holders \ {from} :
          native'.account[u].free = native.account[u].free + Received(u, to, value, dust)

\* repatriating_reserved_balance_dust_removal: the same of reserved funds.
RepatriationWithDust(from, to, value) ==
  LET actual == Smaller(native.account[from].reserved, value)
      dust   == Total(native.account[from]) - actual
  IN  Repatriate(from, to, value, "Free", TRUE) /\ value > 0 /\ from # to =>
        \A u \in Holders \ {from} :
          native'.account[u].free = native.account[u].free + Received(u, to, actual, dust)

(* Whenever a transfer or a repatriation removes the account it takes      *)
(* from, every unit reaches the account it is meant for, the value the     *)
(* beneficiary and the dust the handler's account: the deposit the handler *)
(* makes in the middle of it is not overwritten, even on the beneficiary.  *)
DustReachesHandler ==
  [][\A from \in Holders :
       ~IsNew(native, from) /\ IsNew(native', from) =>
         \A to \in Holders, value \in Amounts :
           TransferWithDust(from, to, value) /\ RepatriationWithDust(from, to, value)]_nativeVars
=============================================================================
