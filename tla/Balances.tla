------------------------------ MODULE Balances ------------------------------
(***************************************************************************)
(* The balances pallet: the native currency.  As in Currencies, the state  *)
(* of the ledger is a value and each operation Op comes with CanOp, the    *)
(* condition under which it returns Ok; an operation whose failure is no   *)
(* error to its caller leaves the ledger as it is.                         *)
(*                                                                         *)
(* Accounts are stored in frame_system (external), which refuses to remove *)
(* an account that others refer to (its consumers).  Funds taken from or   *)
(* paid to an account without the other side leave an imbalance with the   *)
(* caller, which corrects the issuance when it is dropped: debt and credit *)
(* are the negative and the positive imbalances that pallets hold.         *)
(*                                                                         *)
(* frame_system refuses after the pallet has done its part: the imbalance  *)
(* and the dust the pallet made are dropped with the refused result, and   *)
(* the issuance falls although the account keeps its funds.  No guard      *)
(* reads lost, which adds up what the issuance has lost that way.          *)
(*                                                                         *)
(* An operator directly before the one it resembles, with a suffix to its  *)
(* name, is a faulty variant that no action uses.                          *)
(***************************************************************************)
EXTENDS Integers, FiniteSets, Functions

CONSTANTS
  Holders,             \* accounts
  LockIds,             \* identifiers of locks
  MaxSupply,           \* Balance::max_value()
  ExistentialDeposit,  \* least total of an account
  DustReceiver,        \* DustRemoval: the account that gets dust, or NoReceiver
  NoReceiver,          \* DustRemoval = (): dust is dropped
  Endowed,             \* genesis configuration: free balance of each account
  NoLock,              \* absent lock
  RootBalances,        \* <<free, reserved>> pairs root gives to set_balance
  Amounts              \* amounts of the other calls

ASSUME BalancesAssumption ==
  /\ IsFiniteSet(Holders) /\ IsFiniteSet(LockIds)
  /\ MaxSupply \in Nat
  /\ ExistentialDeposit \in Nat
  /\ NoReceiver \notin Holders /\ DustReceiver \in Holders \union {NoReceiver}
  /\ Endowed \in [Holders -> Nat] /\ SumFunction(Endowed) <= MaxSupply
  /\ \A w \in Holders : Endowed[w] = 0 \/ Endowed[w] >= ExistentialDeposit
  /\ RootBalances \subseteq Nat \X Nat
  /\ Amounts \subseteq Nat

VARIABLES
  native,     \* account data and total issuance
  Locks,      \* locks of each account
  consumers,  \* references that keep an account from being removed
  debt,       \* negative imbalances that pallets hold
  credit,     \* positive imbalances that pallets hold
  lost        \* history: what refused removals have taken from the issuance

imbalances == <<debt, credit, lost>>
balancesVars == <<native, Locks, consumers, debt, credit, lost>>

AccountData == [free : Nat, reserved : Nat, misc_frozen : Nat, fee_frozen : Nat]

Reasons == {"Fee", "Misc", "All"}

BalanceLock == [amount : Nat, reasons : Reasons]

ASSUME NoLockAssumption == NoLock \notin BalanceLock

Default == [free |-> 0, reserved |-> 0, misc_frozen |-> 0, fee_frozen |-> 0]

BalancesInit ==
  /\ native = [account  |-> [w \in Holders |-> [Default EXCEPT !.free = Endowed[w]]],
               issuance |-> SumFunction(Endowed)]
  /\ Locks = [w \in Holders |-> [id \in LockIds |-> NoLock]]
  /\ consumers = [w \in Holders |-> 0]
  /\ debt = 0
  /\ credit = 0
  /\ lost = 0

Smaller(x, y) == IF x <= y THEN x ELSE y
Larger(x, y)  == IF x >= y THEN x ELSE y

-----------------------------------------------------------------------------
(* Account data                                                            *)

Total(d) == d.free + d.reserved

\* What accounts hold together.
CirculatingIn(N) == SumFunction([w \in Holders |-> Total(N.account[w])])

Circulating == CirculatingIn(native)

FrozenFor(d, reasons) ==
  CASE reasons = "All"  -> Larger(d.misc_frozen, d.fee_frozen)
    [] reasons = "Misc" -> d.misc_frozen
    [] reasons = "Fee"  -> d.fee_frozen

IsNew(N, w) == N.account[w] = Default

Moved(d, free, reserved) ==
  [free |-> d.free + free, reserved |-> d.reserved + reserved,
   misc_frozen |-> d.misc_frozen, fee_frozen |-> d.fee_frozen]

-----------------------------------------------------------------------------
(* try_mutate_account_with_dust and post_mutation                          *)

Dies(d) == Total(d) < ExistentialDeposit

CanMutateUnreferenced(N, w, d) == TRUE

\* frame_system does not let go of an account with consumers.
CanMutate(N, w, d) == Dies(d) /\ ~IsNew(N, w) => consumers[w] = 0

\* A positive and a negative imbalance is dropped.
Issued(N, amount) ==
  [account |-> N.account, issuance |-> Smaller(N.issuance + amount, MaxSupply)]

Burnt(N, amount) ==
  [account |-> N.account, issuance |-> Larger(N.issuance - amount, 0)]

\* The unchecked subtraction of the release build, in the width of a balance.
Wrapped(x) == IF x >= 0 THEN x ELSE x % (MaxSupply + 1)

\* An account below the existential deposit is removed, and the rest of its
\* balance is dust.
Store(N, w, d) ==
  [account  |-> [N.account EXCEPT ![w] = IF Dies(d) THEN Default ELSE d],
   issuance |-> N.issuance]

Dust(d) == IF Dies(d) THEN Total(d) ELSE 0

CanDepositIntoExisting(N, w, value) ==
  value = 0 \/ (~IsNew(N, w) /\ N.account[w].free + value <= MaxSupply)

CleanDustDropped(N, dust) == Burnt(N, dust)

\* The DustCleaner is dropped: the handler pays the dust into its account, or
\* drops it.
CleanDust(N, dust) ==
  IF dust > 0 /\ DustReceiver # NoReceiver /\ CanDepositIntoExisting(N, DustReceiver, dust)
  THEN Store(N, DustReceiver, Moved(N.account[DustReceiver], dust, 0))
  ELSE Burnt(N, dust)

Mutate(N, w, d) == CleanDust(Store(N, w, d), Dust(d))

MutateBothCleaningFirst(N, v, d, w, e) == Mutate(Mutate(N, v, d), w, e)

\* Nested mutations: what was read of both accounts is written before any dust
\* is cleaned up.
MutateBoth(N, v, d, w, e) ==
  CleanDust(CleanDust(Store(Store(N, v, d), w, e), Dust(d)), Dust(e))

-----------------------------------------------------------------------------
(* Currency                                                                *)

EnsureCanWithdraw(N, w, amount, reasons, new_balance) ==
  amount = 0 \/ new_balance >= FrozenFor(N.account[w], reasons)

CanTransferNative(N, from, to, value, keep_alive) ==
  LET paid == Moved(N.account[from], -value, 0)
      got  == Moved(N.account[to], value, 0)
  IN  \/ value = 0 \/ from = to
      \/ /\ paid.free >= 0
         /\ got.free <= MaxSupply
         /\ Total(got) >= ExistentialDeposit
         /\ EnsureCanWithdraw(N, from, value, "Misc", paid.free)
         /\ (~keep_alive /\ consumers[from] = 0) \/ Total(paid) >= ExistentialDeposit

TransferNative(N, from, to, value) ==
  IF value = 0 \/ from = to
  THEN N
  ELSE MutateBoth(N, from, Moved(N.account[from], -value, 0),
                  to, Moved(N.account[to], value, 0))

CanWithdrawNative(N, w, value, reasons, keep_alive) ==
  LET left == Moved(N.account[w], -value, 0)
  IN  \/ value = 0
      \/ /\ left.free >= 0
         /\ keep_alive => ~Dies(left) \/ Dies(N.account[w])
         /\ EnsureCanWithdraw(N, w, value, reasons, left.free)
         /\ CanMutate(N, w, left)

\* The caller holds the negative imbalance of `value`.
WithdrawNative(N, w, value) ==
  IF value = 0 THEN N ELSE Mutate(N, w, Moved(N.account[w], -value, 0))

CanDepositCreating(N, w, value) ==
  /\ value # 0
  /\ value >= ExistentialDeposit \/ ~IsNew(N, w)
  /\ N.account[w].free + value <= MaxSupply

\* A deposit, before its positive imbalance is dropped or offset.
Credit(N, w, value) == Mutate(N, w, Moved(N.account[w], value, 0))

\* A slash that would remove an account with consumers is tried again with
\* the most that leaves the existential deposit.
BestSlash(d, value) == Smaller(value, Larger(Total(d) - ExistentialDeposit, 0))

SlashedData(d, value) ==
  LET free_slash == Smaller(d.free, value)
  IN  Moved(d, -free_slash, -Smaller(d.reserved, value - free_slash))

ReserveSlashedData(d, value) == Moved(d, 0, -Smaller(d.reserved, value))

SlashTo(N, w, value) ==
  LET d == N.account[w]
  IN  IF CanMutate(N, w, SlashedData(d, value))
      THEN SlashedData(d, value)
      ELSE SlashedData(d, BestSlash(d, value))

SlashReservedTo(N, w, value) ==
  LET d == N.account[w]
  IN  IF CanMutate(N, w, ReserveSlashedData(d, value))
      THEN ReserveSlashedData(d, value)
      ELSE ReserveSlashedData(d, BestSlash(d, value))

-----------------------------------------------------------------------------
(* ReservableCurrency                                                      *)

CanReserveNativeOfTotal(N, w, value) ==
  LET left == Total(N.account[w]) - value
  IN  value = 0 \/ (left >= 0 /\ EnsureCanWithdraw(N, w, value, "Misc", left))

CanReserveNative(N, w, value) ==
  LET left == N.account[w].free - value
  IN  value = 0 \/ (left >= 0 /\ EnsureCanWithdraw(N, w, value, "Misc", left))

ReserveNative(N, w, value) == Mutate(N, w, Moved(N.account[w], -value, value))

UnreserveNative(N, w, value) ==
  LET actual == Smaller(N.account[w].reserved, value)
  IN  Mutate(N, w, Moved(N.account[w], actual, -actual))

\* do_transfer_reserved, up to what frame_system says of the account it takes
\* from.
CanRepatriateNative(N, from, to, value, best_effort) ==
  \/ value = 0 \/ from = to
  \/ /\ ~IsNew(N, to)
     /\ best_effort \/ N.account[from].reserved >= value

RepatriateNative(N, from, to, value, status) ==
  LET actual == Smaller(N.account[from].reserved, value)
      free   == IF status = "Free" THEN actual ELSE 0
  IN  IF value = 0 THEN N
      ELSE IF from = to
      THEN IF status = "Free" THEN UnreserveNative(N, from, value) ELSE N
      ELSE MutateBoth(N, to, Moved(N.account[to], free, actual - free),
                      from, Moved(N.account[from], 0, -actual))

-----------------------------------------------------------------------------
(* LockableCurrency                                                        *)

LockReasons(r, s) == IF r = s THEN r ELSE "All"

\* What update_locks recomputes from all locks of the account.
Frozen(locks, reason) ==
  LET amounts == {0} \union {locks[id].amount : id \in
                   {i \in LockIds : locks[i] # NoLock /\ locks[i].reasons \in {reason, "All"}}}
  IN  CHOOSE m \in amounts : \A n \in amounts : m >= n

HasLocks(locks) == \E id \in LockIds : locks[id] # NoLock

UpdateLocks(w, locks) ==
  /\ native' = Mutate(native, w,
                 [free |-> native.account[w].free, reserved |-> native.account[w].reserved,
                  misc_frozen |-> Frozen(locks, "Misc"), fee_frozen |-> Frozen(locks, "Fee")])
  /\ Locks' = [Locks EXCEPT ![w] = locks]
  /\ consumers' = [consumers EXCEPT ![w] =
       @ + (IF HasLocks(locks) THEN 1 ELSE 0) - (IF HasLocks(Locks[w]) THEN 1 ELSE 0)]
  /\ UNCHANGED imbalances

-----------------------------------------------------------------------------
(* Calls and what other pallets ask for                                    *)

\* frame_system refuses a mutation: what it would have taken from accounts is
\* dropped, and they have it still.
Refused(amount) ==
  /\ native' = Burnt(native, amount)
  /\ lost' = lost + amount

\* The imbalance of a balance that root changes is dropped.
Squared(N, old, new) == IF new >= old THEN Issued(N, new - old) ELSE Burnt(N, old - new)

\* Root.  The imbalances are dropped before frame_system may refuse to remove
\* the account, and a refusal does not take them back.  A call: imbalances
\* that pallets hold are values of theirs, and none outlives a call.
SetBalance(w, new_free, new_reserved) ==
  LET d       == native.account[w]
      wipeout == new_free + new_reserved < ExistentialDeposit
      new     == IF wipeout THEN Moved(d, -d.free, -d.reserved)
                 ELSE Moved(d, new_free - d.free, new_reserved - d.reserved)
      squared == Squared(Squared(native, d.free, new.free), d.reserved, new.reserved)
  IN  /\ debt = 0 /\ credit = 0
      /\ IF CanMutate(native, w, new)
         THEN native' = Mutate(squared, w, new) /\ lost' = lost
         ELSE native' = squared /\ lost' = lost + Total(d)
      /\ UNCHANGED <<Locks, consumers, debt, credit>>

\* Root, with keep_alive = FALSE (force_transfer), or another pallet.
TransferBetween(from, to, value, keep_alive) ==
  /\ CanTransferNative(native, from, to, value, keep_alive)
  /\ native' = TransferNative(native, from, to, value)
  /\ UNCHANGED <<Locks, consumers, imbalances>>

\* withdraw with AllowDeath: a caller that does not care if the account dies.
WithdrawFrom(w, value) ==
  LET left == Moved(native.account[w], -value, 0)
  IN  /\ value > 0 /\ left.free >= 0
      /\ EnsureCanWithdraw(native, w, value, "Misc", left.free)
      /\ IF CanMutate(native, w, left)
         THEN native' = Mutate(native, w, left) /\ debt' = debt + value /\ lost' = lost
         ELSE Refused(Total(native.account[w])) /\ debt' = debt
      /\ UNCHANGED <<Locks, consumers, credit>>

\* The first attempt of a slash that is tried again has dropped its imbalance
\* and its dust, all that the account has.
Slashed(w, first, new) ==
  LET d       == native.account[w]
      dropped == IF CanMutate(native, w, first) THEN 0 ELSE Total(d)
  IN  /\ Total(d) > 0
      /\ native' = Mutate(Burnt(native, dropped), w, new)
      /\ debt' = debt + Total(d) - Total(new)
      /\ lost' = lost + dropped
      /\ UNCHANGED <<Locks, consumers, credit>>

SlashAccount(w, value) ==
  Slashed(w, SlashedData(native.account[w], value), SlashTo(native, w, value))

SlashReserve(w, value) ==
  Slashed(w, ReserveSlashedData(native.account[w], value), SlashReservedTo(native, w, value))

\* reserve, and hold.
ReserveFor(w, value) ==
  /\ CanReserveNative(native, w, value)
  /\ native' = ReserveNative(native, w, value)
  /\ UNCHANGED <<Locks, consumers, imbalances>>

UnreserveFor(w, value) ==
  /\ Total(native.account[w]) > 0
  /\ native' = UnreserveNative(native, w, value)
  /\ UNCHANGED <<Locks, consumers, imbalances>>

\* repatriate_reserved (best_effort) and transfer_held.  A refusal to remove the
\* account it takes from drops the dust alone: no imbalance is made.
Repatriate(from, to, value, status, best_effort) ==
  LET d    == native.account[from]
      left == Moved(d, 0, -Smaller(d.reserved, value))
  IN  /\ CanRepatriateNative(native, from, to, value, best_effort)
      /\ IF value = 0 \/ from = to \/ CanMutate(native, from, left)
         THEN native' = RepatriateNative(native, from, to, value, status) /\ lost' = lost
         ELSE Refused(Total(left))
      /\ UNCHANGED <<Locks, consumers, debt, credit>>

\* Pallets lock what an account has (external: they check its free balance).
SetLock(id, w, amount, reasons) ==
  /\ amount > 0
  /\ amount <= native.account[w].free
  /\ UpdateLocks(w, [Locks[w] EXCEPT ![id] = [amount |-> amount, reasons |-> reasons]])

ExtendLock(id, w, amount, reasons) ==
  LET old == Locks[w][id]
  IN  /\ amount > 0
      /\ amount <= native.account[w].free
      /\ UpdateLocks(w, [Locks[w] EXCEPT ![id] =
           IF old = NoLock
           THEN [amount |-> amount, reasons |-> reasons]
           ELSE [amount  |-> Larger(old.amount, amount),
                 reasons |-> LockReasons(old.reasons, reasons)]])

RemoveLock(id, w) == UpdateLocks(w, [Locks[w] EXCEPT ![id] = NoLock])

-----------------------------------------------------------------------------
(* Imbalances                                                              *)

\* issue: new funds without an owner, at most what the balance type can count.
Issue(amount) ==
  LET issued == Smaller(amount, MaxSupply - native.issuance)
  IN  /\ native' = Issued(native, issued)
      /\ debt' = debt + issued
      /\ UNCHANGED <<Locks, consumers, credit, lost>>

\* burn: the issuance is taken before the funds are, at most all of it.
Burn(amount) ==
  LET burnt == Smaller(amount, native.issuance)
  IN  /\ native' = Burnt(native, burnt)
      /\ credit' = credit + burnt
      /\ UNCHANGED <<Locks, consumers, debt, lost>>

\* deposit_creating: a reward, whose positive imbalance the payer adds up.
Reward(w, value) ==
  /\ CanDepositCreating(native, w, value)
  /\ native' = Credit(native, w, value)
  /\ credit' = credit + value
  /\ UNCHANGED <<Locks, consumers, debt, lost>>

\* Force the free balance; the caller drops the signed imbalance it gets.
MakeFreeBalanceBe(w, value) ==
  LET d   == native.account[w]
      new == Moved(d, value - d.free, 0)
  IN  /\ ~Dies(new) \/ ~IsNew(native, w)
      /\ IF CanMutate(native, w, new)
         THEN native' = Squared(Mutate(native, w, new), d.free, value) /\ lost' = lost
         ELSE Refused(Total(d))
      /\ UNCHANGED <<Locks, consumers, debt, credit>>

\* The holder of negative imbalances drops them,
DropNegative ==
  /\ debt > 0
  /\ native' = Burnt(native, debt)
  /\ debt' = 0
  /\ UNCHANGED <<Locks, consumers, credit, lost>>

\* or pays them into an account (resolve_creating).
ResolveCreating(w) ==
  /\ CanDepositCreating(native, w, debt)
  /\ native' = Credit(native, w, debt)
  /\ debt' = 0
  /\ UNCHANGED <<Locks, consumers, credit, lost>>

\* The holder of positive imbalances drops them,
DropPositive ==
  /\ credit > 0
  /\ native' = Issued(native, credit)
  /\ credit' = 0
  /\ UNCHANGED <<Locks, consumers, debt, lost>>

\* or takes the funds from an account (settle),
Settle(w) ==
  /\ credit > 0
  /\ CanWithdrawNative(native, w, credit, "Misc", TRUE)
  /\ native' = WithdrawNative(native, w, credit)
  /\ credit' = 0
  /\ UNCHANGED <<Locks, consumers, debt, lost>>

\* or offsets one kind with the other.
Offset ==
  /\ credit > 0 /\ debt > 0
  /\ credit' = Larger(credit - debt, 0)
  /\ debt' = Larger(debt - credit, 0)
  /\ UNCHANGED <<native, Locks, consumers, lost>>

-----------------------------------------------------------------------------
(* fungible::Mutate and fungible::MutateHold                               *)

\* deposit_consequence
CanDeposit(N, w, amount) ==
  /\ N.issuance + amount <= MaxSupply
  /\ Total(N.account[w]) + amount \in ExistentialDeposit..MaxSupply

MintInto(w, amount) ==
  /\ CanDeposit(native, w, amount)
  /\ native' = Issued(Mutate(native, w, Moved(native.account[w], amount, 0)), amount)
  /\ UNCHANGED <<Locks, consumers, imbalances>>

\* withdraw_consequence
CanWithdraw(N, w, amount) ==
  LET left == Moved(N.account[w], -amount, 0)
  IN  /\ amount <= N.issuance
      /\ left.free >= FrozenFor(N.account[w], "All")
      /\ Dies(left) => consumers[w] = 0

\* What would be left below the existential deposit is burnt, too.  All of it is
\* taken from the free balance, also what is reserved, and neither subtraction
\* is checked.  With the runtime's deposit of 0 nothing is ever left below it.
BurnFrom(w, amount) ==
  LET d      == native.account[w]
      actual == amount + Dust(Moved(d, -amount, 0))
      set    == Mutate(native, w, Moved(d, Wrapped(d.free - actual) - d.free, 0))
  IN  /\ CanWithdraw(native, w, amount)
      /\ native' = [account |-> set.account, issuance |-> Wrapped(set.issuance - actual)]
      /\ UNCHANGED <<Locks, consumers, imbalances>>

\* release without best effort; with it, it is unreserve.
Release(w, amount) ==
  /\ native.account[w].reserved >= amount
  /\ native' = Mutate(native, w, Moved(native.account[w], amount, -amount))
  /\ UNCHANGED <<Locks, consumers, imbalances>>

-----------------------------------------------------------------------------
(* fungible::Inspect, fungible::InspectHold and can_slash                  *)

\* What an account can spend: what is neither reserved nor frozen, except for
\* what must remain for it to exist.
ReducibleBalance(w, keep_alive) ==
  LET d      == native.account[w]
      liquid == Larger(d.free - FrozenFor(d, "All"), 0)
      must_remain == Larger(ExistentialDeposit - (Total(d) - liquid), 0)
  IN  IF consumers[w] = 0 /\ ~keep_alive THEN liquid ELSE Larger(liquid - must_remain, 0)

CanHoldUnlocked(w, amount) ==
  LET d == native.account[w]
  IN  /\ d.reserved + amount <= MaxSupply
      /\ d.free >= amount + Larger(ExistentialDeposit, FrozenFor(d, "Misc"))

CanHold(w, amount) ==
  LET d == native.account[w]
  IN  /\ d.reserved + amount <= MaxSupply
      /\ d.free >= amount + Larger(ExistentialDeposit, FrozenFor(d, "All"))

CanSlash(w, value) == native.account[w].free >= value

BalancesNext ==
  \/ \E w \in Holders, b \in RootBalances : SetBalance(w, b[1], b[2])
  \/ \E from, to \in Holders, v \in Amounts, k \in BOOLEAN : TransferBetween(from, to, v, k)
  \/ \E w \in Holders, v \in Amounts :
       \/ WithdrawFrom(w, v) \/ SlashAccount(w, v) \/ SlashReserve(w, v)
       \/ ReserveFor(w, v) \/ UnreserveFor(w, v)
       \/ Reward(w, v) \/ MakeFreeBalanceBe(w, v)
       \/ MintInto(w, v) \/ BurnFrom(w, v) \/ Release(w, v)
  \/ \E from, to \in Holders, v \in Amounts, s \in {"Free", "Reserved"}, e \in BOOLEAN :
       Repatriate(from, to, v, s, e)
  \/ \E id \in LockIds, w \in Holders, v \in Amounts, r \in Reasons :
       SetLock(id, w, v, r) \/ ExtendLock(id, w, v, r)
  \/ \E id \in LockIds, w \in Holders : RemoveLock(id, w)
  \/ \E v \in Amounts : Issue(v) \/ Burn(v)
  \/ \E w \in Holders : ResolveCreating(w) \/ Settle(w)
  \/ DropNegative \/ DropPositive \/ Offset
=============================================================================
