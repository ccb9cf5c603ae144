------------------------- MODULE NativeTokenProofs --------------------------
(***************************************************************************)
(* What NativeToken promises, for any number of accounts, locks, amounts,  *)
(* fees and claims.                                                        *)
(***************************************************************************)
EXTENDS NativeTokenFacts, SumFacts

-----------------------------------------------------------------------------
(* A fee that is bought                                                    *)

\* What an account got is taken from it again.
LEMMA MovedBack ==
  ASSUME NEW c \in AccountData, NEW x \in Nat
  PROVE  Moved(Moved(c, x, 0), -x, 0) = c
BY DEF Moved, AccountData

\* An account that is as large as the deposit lives, and leaves no dust.
LEMMA LargeLives ==
  ASSUME NEW c \in AccountData, Total(c) >= ExistentialDeposit
  PROVE  ~Dies(c) /\ Dust(c) = 0
BY BalancesAssumption DEF AccountData, Total, Dies, Dust

\* Dust is a number.
LEMMA DustIsNat ==
  ASSUME NEW c \in AccountData
  PROVE  Dust(c) \in Nat
BY DEF AccountData, Total, Dust

\* withdraw_fee with another currency: the transfer from the pool makes the
\* payer's account what it was and the fee, and dust of the pool goes to
\* another account.
LEMMA SwapIsNeutral ==
  ASSUME NativeInv, NEW who \in Holders, who # DustReceiver, NEW fee \in Nat, NEW reasons,
         WithdrawFee(who, fee, reasons),
         NEW pool \in Holders, pool # who, AccountCurrencyMap[who] # Core,
         pool = PoolOf[AccountCurrencyMap[who]]
  PROVE  native'.account[who] = native.account[who]
<1> DEFINE d    == native.account[who]
           p    == native.account[pool]
           paid == Moved(p, -fee, 0)
           got  == Moved(d, fee, 0)
           S    == Store(Store(native, pool, paid), who, got)
           N    == SwapCurrency(who, fee)
<1>1. native \in Ledger /\ Existing(native) /\ d \in AccountData /\ p \in AccountData
  BY Zenon DEF NativeInv, BalancesInv, LedgerOK, GoodAccount, Existing, IsNew, Ledger
<1>2. fee > 0 /\ CanTransferNative(native, pool, who, fee, FALSE)
  BY Zenon DEF WithdrawFee, CanSwapCurrency
<1>3. paid.free >= 0 /\ Total(got) >= ExistentialDeposit
  BY <1>2 DEF CanTransferNative
<1>4. N = MutateBoth(native, pool, paid, who, got)
  <2>1. fee # 0
    BY <1>2
  <2>. QED
    BY <2>1, Zenon DEF SwapCurrency, TransferNative
<1>5. paid \in AccountData /\ got \in AccountData /\ ~Dies(got) /\ Moved(got, -fee, 0) = d
  <2>1. /\ d.free \in Nat /\ d.reserved \in Nat /\ p.free \in Nat /\ p.reserved \in Nat
        /\ paid.free = p.free + -fee
    BY <1>1, Zenon DEF AccountData, Moved
  <2> HIDE DEF paid, got, d, p
  <2>2. /\ p.free + -fee >= 0 /\ p.reserved + 0 >= 0 /\ -fee \in Int
        /\ d.free + fee >= 0 /\ d.reserved + 0 >= 0 /\ fee \in Int /\ 0 \in Int
    BY <1>3, <2>1
  <2>3. paid \in AccountData /\ got \in AccountData
    BY <1>1, <2>2, MovedIs, Zenon DEF paid, got
  <2>4. Moved(got, -fee, 0) = d
    BY <1>1, MovedBack, Zenon DEF got
  <2>. QED
    BY <1>3, <2>3, <2>4, LargeLives, Zenon
<1>6. Dust(got) = 0 /\ Becomes(got) = got /\ Dust(paid) \in Nat
  BY <1>3, <1>5, LargeLives, DustIsNat, Zenon DEF Becomes
<1> HIDE DEF paid, got, N
<1>7. /\ S \in Ledger
      /\ S.account = [native.account EXCEPT ![pool] = Becomes(paid), ![who] = got]
      /\ N.account = CleanDust(S, Dust(paid)).account
  <2>1. /\ S \in Ledger
        /\ S.account = [native.account EXCEPT ![pool] = Becomes(paid), ![who] = Becomes(got)]
        /\ MutateBoth(native, pool, paid, who, got).account
             = CleanDust(S, IF Dust(paid) = 0 THEN Dust(got) ELSE Dust(paid)).account
    <3>1. S = Store(Store(native, pool, paid), who, got)
      BY Zenon
    <3> HIDE DEF S
    <3>. QED
      BY <1>1, <1>5, <1>6, <3>1, BothPaid
  <2>2. (IF Dust(paid) = 0 THEN Dust(got) ELSE Dust(paid)) = Dust(paid)
    BY <1>6, Zenon
  <2>. QED
    BY <1>4, <1>6, <2>1, <2>2, Zenon
<1> HIDE DEF S
<1>8. native.account \in [Holders -> AccountData] /\ Becomes(paid) \in AccountData
  BY <1>1, <1>5, Zenon DEF Ledger, Becomes, Default, AccountData
<1>9. /\ S.account[who] = got /\ S.account[pool] = Becomes(paid)
      /\ \A v \in Holders \ {who, pool} : S.account[v] = native.account[v]
  BY <1>7, <1>8, Zenon
<1>10. Existing(S)
  <2> SUFFICES ASSUME NEW v \in Holders PROVE IsNew(S, v) \/ ~Dies(S.account[v])
    BY Zenon DEF Existing
  <2>1. CASE v = pool
    BY <1>9, <2>1, Zenon DEF Becomes, IsNew
  <2>2. CASE v # pool
    BY <1>1, <1>5, <1>9, <2>2, Zenon DEF Existing, IsNew
  <2>. QED
    BY <2>1, <2>2, Zenon
<1>11. CleanDust(S, Dust(paid)).account[who] = S.account[who]
  BY <1>6, <1>7, <1>10, DustPaid
<1>12. N.account[who] = got
  BY <1>7, <1>9, <1>11, Zenon
<1>13. native' = Mutate(N, who, d) /\ ~Dies(d)
  <2>1. native' = WithdrawNative(N, who, fee) /\ CanWithdrawNative(N, who, fee, reasons, TRUE)
    BY Zenon DEF WithdrawFee, N
  <2>2. fee # 0
    BY <1>2
  <2>3. native' = Mutate(N, who, Moved(N.account[who], -fee, 0))
    BY <2>1, <2>2, Zenon DEF WithdrawNative
  <2>4. ~Dies(Moved(N.account[who], -fee, 0)) \/ Dies(N.account[who])
    BY <2>1, <2>2, Zenon DEF CanWithdrawNative
  <2>. QED
    BY <1>5, <1>12, <2>3, <2>4, Zenon
<1>14. who \in DOMAIN N.account
  <2>1. ASSUME NEW M, NEW x
        PROVE  DOMAIN CleanDust(M, x).account = DOMAIN M.account
    BY Zenon DEF CleanDust, Burnt, Store
  <2>2. DOMAIN S.account = Holders
    BY <1>7, Zenon DEF Ledger
  <2>3. N.account = CleanDust(S, Dust(paid)).account
    BY <1>7, Zenon
  <2>4. DOMAIN CleanDust(S, Dust(paid)).account = DOMAIN S.account
    BY <2>1, Zenon
  <2>. QED
    BY <2>2, <2>3, <2>4, Zenon
<1>15. native'.account = [N.account EXCEPT ![who] = d]
  BY <1>13 DEF Mutate, Dust, CleanDust, Burnt, Store
<1>. QED
  BY <1>14, <1>15, Zenon

-----------------------------------------------------------------------------
(* What the pallet answers about an account                                *)

\* reducible_balance leaves what is frozen and what must remain.
LEMMA ReducibleTransfers ==
  ASSUME FiniteLaws, NativeInv, NEW k \in Nat, Limits(k), NEW w \in Holders, NEW to \in Holders,
         NEW keep_alive \in BOOLEAN, ~IsNew(native, to)
  PROVE  CanTransferNative(native, w, to, ReducibleBalance(w, keep_alive), keep_alive)
<1> DEFINE d == native.account[w]
           e == native.account[to]
           frozen == FrozenFor(d, "All")
           liquid == Larger(d.free - frozen, 0)
           must_remain == Larger(ExistentialDeposit - (Total(d) - liquid), 0)
           amount == ReducibleBalance(w, keep_alive)
           spends_all == consumers[w] = 0 /\ ~keep_alive
<1>1. native \in Ledger /\ Existing(native) /\ d \in AccountData /\ e \in AccountData
  BY Zenon DEF NativeInv, BalancesInv, LedgerOK, GoodAccount, Existing, IsNew, Ledger
<1>2. /\ d.free \in Nat /\ d.reserved \in Nat /\ e.free \in Nat /\ e.reserved \in Nat
      /\ d.misc_frozen \in Nat /\ d.fee_frozen \in Nat
      /\ MaxSupply \in Nat /\ ExistentialDeposit \in Nat
  BY <1>1, BalancesAssumption, Zenon DEF AccountData
<1>3. frozen \in Nat /\ frozen >= d.misc_frozen
  BY <1>2 DEF FrozenFor, Larger
<1>4. /\ Circulating \in Nat /\ e.free <= Circulating /\ d.free <= Circulating
      /\ 2 * Circulating <= MaxSupply
  BY CirculatingLimits, Zenon
<1>5. e.free + e.reserved >= ExistentialDeposit
  <2>1. ~Dies(e)
    BY <1>1, Zenon DEF Existing
  <2>. QED
    BY <1>2, <2>1 DEF Dies, Total
<1>6. amount = IF spends_all THEN liquid ELSE Larger(liquid - must_remain, 0)
  BY Zenon DEF ReducibleBalance
<1>7. Total(d) = d.free + d.reserved
  BY Zenon DEF Total
<1> HIDE DEF d, e, frozen, amount, spends_all
<1>8. liquid \in Nat /\ must_remain \in Nat
  BY <1>2, <1>3, <1>7 DEF Larger
<1>9. amount \in Nat /\ amount <= liquid
  BY <1>6, <1>8 DEF Larger
<1>10. amount > 0 => amount <= d.free - frozen
  BY <1>2, <1>3, <1>9 DEF Larger
<1>11. amount > 0 /\ ~spends_all => d.free + d.reserved - amount >= ExistentialDeposit
  BY <1>2, <1>3, <1>6, <1>7, <1>8, <1>9, SMTT(60) DEF Larger
<1>12. CASE amount = 0
  BY <1>12, Zenon DEF CanTransferNative, amount
<1>13. CASE amount > 0
  <2>1. d.free - amount >= 0 /\ d.free - amount >= d.misc_frozen
    BY <1>2, <1>3, <1>9, <1>10, <1>13, SMTT(60)
  <2>2. e.free + amount <= MaxSupply /\ e.free + amount + e.reserved >= ExistentialDeposit
    BY <1>2, <1>3, <1>4, <1>5, <1>9, <1>10, <1>13, SMTT(60)
  <2>3. spends_all \/ d.free - amount + d.reserved >= ExistentialDeposit
    BY <1>2, <1>9, <1>11, <1>13
  <2>4. /\ Moved(d, -amount, 0).free = d.free - amount
        /\ Total(Moved(d, -amount, 0)) = d.free - amount + d.reserved
        /\ Moved(e, amount, 0).free = e.free + amount
        /\ Total(Moved(e, amount, 0)) = e.free + amount + e.reserved
    BY <1>2, <1>9 DEF Moved, Total
  <2>5. FrozenFor(d, "Misc") = d.misc_frozen
    BY Zenon DEF FrozenFor
  <2>. QED
    BY <2>1, <2>2, <2>3, <2>4, <2>5, Zenon
       DEF CanTransferNative, EnsureCanWithdraw, amount, d, e, spends_all
<1>. QED
  BY <1>9, <1>12, <1>13

\* What can be held can be reserved, and slashed from there.
LEMMA HoldKeeps ==
  ASSUME NativeInv, NEW w \in Holders, NEW v \in Nat, CanHold(w, v)
  PROVE  LET held    == ReserveNative(native, w, v)
             slashed == SlashReservedTo(held, w, held.account[w].reserved)
         IN  /\ CanReserveNative(native, w, v)
             /\ slashed.reserved = 0
             /\ ~Dies(slashed)
             /\ slashed.free >= FrozenFor(slashed, "All")
<1> DEFINE d    == native.account[w]
           new  == Moved(d, -v, v)
           held == ReserveNative(native, w, v)
           rest == Moved(new, 0, -new.reserved)
<1>1. native.account \in [Holders -> AccountData] /\ d \in AccountData
  BY Zenon DEF NativeInv, BalancesInv, LedgerOK, Ledger
<1>2. /\ d.free \in Nat /\ d.reserved \in Nat /\ d.misc_frozen \in Nat /\ d.fee_frozen \in Nat
      /\ ExistentialDeposit \in Nat
  BY <1>1, BalancesAssumption, Zenon DEF AccountData
<1>3. d.free >= v + Larger(ExistentialDeposit, FrozenFor(d, "All"))
  BY Zenon DEF CanHold
<1>4. FrozenFor(d, "All") = Larger(d.misc_frozen, d.fee_frozen) /\ FrozenFor(d, "Misc") = d.misc_frozen
  BY Zenon DEF FrozenFor
<1> HIDE DEF d
<1>5. /\ d.free - v >= ExistentialDeposit /\ d.free - v >= 0
      /\ d.free - v >= Larger(d.misc_frozen, d.fee_frozen) /\ d.free - v >= d.misc_frozen
  BY <1>2, <1>3, <1>4 DEF Larger
<1>6. CanReserveNative(native, w, v)
  BY <1>4, <1>5, Zenon DEF CanReserveNative, EnsureCanWithdraw, d
<1>7. /\ new.free = d.free - v /\ new.reserved = d.reserved + v
      /\ new.misc_frozen = d.misc_frozen /\ new.fee_frozen = d.fee_frozen
  BY <1>2, Zenon DEF Moved
<1>8. ~Dies(new)
  BY <1>2, <1>5, <1>7, SMTT(60) DEF Dies, Total
<1>9. held.account[w] = new
  BY <1>1, <1>8 DEF ReserveNative, Mutate, Dust, CleanDust, Burnt, Store, d
<1>10. /\ rest.free = d.free - v /\ rest.reserved = 0
       /\ rest.misc_frozen = d.misc_frozen /\ rest.fee_frozen = d.fee_frozen
  BY <1>2, <1>7 DEF Moved
<1>11. ReserveSlashedData(new, new.reserved) = rest
  BY <1>2, <1>7, Zenon DEF ReserveSlashedData, Smaller
<1> HIDE DEF new, held, rest
<1>12. ~Dies(rest)
  BY <1>2, <1>5, <1>10 DEF Dies, Total
<1>13. rest.free >= FrozenFor(rest, "All")
  BY <1>5, <1>10, Zenon DEF FrozenFor
<1>14. SlashReservedTo(held, w, held.account[w].reserved) = rest
  BY <1>9, <1>11, <1>12, Zenon DEF SlashReservedTo, CanMutate
<1>. QED
  BY <1>6, <1>10, <1>12, <1>13, <1>14, Zenon DEF held

\* A slash that can_slash calls possible takes free funds only.
LEMMA SlashTakesAll ==
  ASSUME NativeInv, NEW w \in Holders, NEW v \in Nat, CanSlash(w, v), consumers[w] = 0
  PROVE  Total(SlashTo(native, w, v)) = Total(native.account[w]) - v
<1> DEFINE d == native.account[w]
<1>1. d.free \in Nat /\ d.reserved \in Nat /\ d.free >= v
  BY Zenon DEF NativeInv, BalancesInv, LedgerOK, Ledger, AccountData, CanSlash
<1>2. SlashTo(native, w, v) = SlashedData(d, v)
  BY Zenon DEF SlashTo, CanMutate
<1> HIDE DEF d
<1>3. Total(SlashedData(d, v)) = Total(d) - v
  BY <1>1 DEF SlashedData, Smaller, Moved, Total
<1>. QED
  BY <1>2, <1>3, Zenon DEF d

-----------------------------------------------------------------------------
(* The laws of finite sets that the facts about the ledger rest on         *)

\* Frozen (update_locks) is an upper bound that some lock attains, or 0.
LEMMA LargestFrozen ==
  ASSUME NEW locks \in LocksOfAccount, NEW reason
  PROVE  /\ Frozen(locks, reason) \in Nat
         /\ Frozen(locks, reason) \in LockedAmounts(locks, reason)
         /\ \A n \in LockedAmounts(locks, reason) : Frozen(locks, reason) >= n
<1> DEFINE ids == {i \in LockIds : locks[i] # NoLock /\ locks[i].reasons \in {reason, "All"}}
           amounts == LockedAmounts(locks, reason)
<1>1. amounts \in SUBSET Nat
  BY DEF LockedAmounts, LocksOfAccount, BalanceLock
<1>2. IsFiniteSet(amounts)
  <2>1. IsFiniteSet(ids)
    BY BalancesAssumption, FiniteSubset, Zenon
  <2> DEFINE f == [id \in ids |-> locks[id].amount]
  <2>2. IsFiniteSet({f[id] : id \in ids})
    <3> HIDE DEF f, ids
    <3>. QED
      BY <2>1, FiniteImage, Zenon
  <2>3. IsFiniteSet({0})
    <3>1. Lists([i \in 1 .. 1 |-> 0], 1, {0})
      BY DEF Lists
    <3>. QED
      BY <3>1, FiniteIsListed, Zenon
  <2>4. amounts = {f[id] : id \in ids} \union {0}
    BY Zenon DEF LockedAmounts
  <2>. QED
    BY <2>2, <2>3, <2>4, FiniteUnion
<1>3. \E m \in amounts : \A n \in amounts : m >= n
  <2>1. 0 \in amounts
    BY Zenon DEF LockedAmounts
  <2> HIDE DEF amounts
  <2>. QED
    BY <1>1, <1>2, <2>1, LargestExists, ZenonT(60)
<1>4. Frozen(locks, reason) = CHOOSE m \in amounts : \A n \in amounts : m >= n
  BY Zenon DEF Frozen, LockedAmounts
<1> HIDE DEF amounts
<1>5. Frozen(locks, reason) \in amounts /\ \A n \in amounts : Frozen(locks, reason) >= n
  BY <1>3, <1>4, Zenon
<1>. QED
  BY <1>1, <1>5, Zenon DEF amounts

\* Accounts hold a natural number of tokens, each no more than all.
LEMMA SumBounds ==
  ASSUME NEW N \in Ledger
  PROVE  /\ CirculatingIn(N) \in Nat
         /\ \A w \in Holders : Total(N.account[w]) <= CirculatingIn(N)
<1> DEFINE f == [w \in Holders |-> Total(N.account[w])]
<1>1. f \in [Holders -> Nat] /\ IsFiniteSet(Holders)
  BY BalancesAssumption DEF Ledger, AccountData, Total
<1>2. CirculatingIn(N) = SumFunctionOnSet(f, Holders)
  BY DEF CirculatingIn, SumFunction, SumFunctionOnSet, FoldFunction
<1>3. \A w \in Holders : f[w] = Total(N.account[w])
  BY Zenon
<1> HIDE DEF f
<1>4. SumFunctionOnSet(f, Holders) \in Nat
  BY <1>1, SumNat, Zenon
<1>5. \A w \in Holders : f[w] <= SumFunctionOnSet(f, Holders)
  BY <1>1, SumAtLeast, Zenon
<1>. QED
  BY <1>2, <1>3, <1>4, <1>5, Zenon

\* What one account gains or loses, accounts together do.
LEMMA SumChange ==
  ASSUME NEW N \in Ledger, NEW M \in Ledger, NEW w \in Holders,
         \A v \in Holders \ {w} : M.account[v] = N.account[v]
  PROVE  CirculatingIn(M) = CirculatingIn(N) + Total(M.account[w]) - Total(N.account[w])
<1> DEFINE f == [v \in Holders |-> Total(N.account[v])]
           g == [v \in Holders |-> Total(M.account[v])]
<1>1. f \in [Holders -> Int] /\ g \in [Holders -> Int] /\ IsFiniteSet(Holders)
  BY BalancesAssumption DEF Ledger, AccountData, Total
<1>2. /\ CirculatingIn(N) = SumFunctionOnSet(f, Holders)
      /\ CirculatingIn(M) = SumFunctionOnSet(g, Holders)
  BY DEF CirculatingIn, SumFunction, SumFunctionOnSet, FoldFunction
<1>3. f[w] = Total(N.account[w]) /\ g[w] = Total(M.account[w])
  BY Zenon
<1>4. \A v \in Holders \ {w} : g[v] = f[v]
  BY Zenon
<1> HIDE DEF f, g
<1>5. SumFunctionOnSet(g, Holders) = SumFunctionOnSet(f, Holders) + g[w] - f[w]
  BY <1>1, <1>4, SumUpdate
<1>. QED
  BY <1>2, <1>3, <1>5, Zenon

\* The laws BalancesFacts supposes.
LEMMA FiniteLawsHold == FiniteLaws
<1>1. \A N \in Ledger :
        /\ CirculatingIn(N) \in Nat
        /\ \A w \in Holders : Total(N.account[w]) <= CirculatingIn(N)
  BY SumBounds, Zenon
<1>2. ASSUME NEW N \in Ledger, NEW M \in Ledger, NEW w \in Holders,
             \A v \in Holders \ {w} : M.account[v] = N.account[v]
      PROVE  CirculatingIn(M) = CirculatingIn(N) + Total(M.account[w]) - Total(N.account[w])
  BY <1>2, SumChange, Zenon
<1>3. ASSUME NEW locks \in LocksOfAccount, NEW reason \in {"Misc", "Fee"}
      PROVE  /\ Frozen(locks, reason) \in Nat
             /\ Frozen(locks, reason) \in LockedAmounts(locks, reason)
             /\ \A n \in LockedAmounts(locks, reason) : Frozen(locks, reason) >= n
  BY LargestFrozen, Zenon
<1>. QED
  BY <1>1, <1>2, <1>3, Zenon DEF FiniteLaws

\* At genesis the issuance is the sum of what is endowed.
LEMMA GenesisLedger ==
  ASSUME FiniteLaws, NativeInit
  PROVE  NativeInv /\ ClaimsInv /\ IssuanceBacked
<1>1. /\ native = [account  |-> [w \in Holders |-> [Default EXCEPT !.free = Endowed[w]]],
                   issuance |-> SumFunction(Endowed)]
      /\ Locks = [w \in Holders |-> [id \in LockIds |-> NoLock]]
      /\ consumers = [w \in Holders |-> 0]
      /\ debt = 0 /\ credit = 0 /\ lost = 0
  BY Zenon DEF NativeInit, BalancesInit
<1>2. Endowed \in [Holders -> Nat] /\ IsFiniteSet(Holders) /\ SumFunction(Endowed) <= MaxSupply
  BY BalancesAssumption, Zenon
<1>3. SumFunction(Endowed) \in Nat
  <2>1. SumFunction(Endowed) = SumFunctionOnSet(Endowed, Holders)
    BY <1>2 DEF SumFunction, SumFunctionOnSet, FoldFunction
  <2>. QED
    BY <1>2, <2>1, SumNat, Zenon
<1>4. References
  BY <1>1, Zenon DEF References, LocksOfAccount, HasLocks
<1>5. ASSUME NEW w \in Holders
      PROVE  /\ native.account[w] \in AccountData
             /\ Total(native.account[w]) = Endowed[w]
             /\ GoodAccount(native.account[w], Locks[w])
  <2>1. native.account[w] = [free |-> Endowed[w], reserved |-> 0, misc_frozen |-> 0, fee_frozen |-> 0]
    BY <1>1, Zenon DEF Default
  <2>2. Endowed[w] \in Nat /\ (Endowed[w] = 0 \/ Endowed[w] >= ExistentialDeposit)
    BY BalancesAssumption, Zenon
  <2>3. native.account[w] \in AccountData /\ Total(native.account[w]) = Endowed[w]
    BY <2>1, <2>2 DEF AccountData, Total
  <2>4. native.account[w] = Default \/ ~Dies(native.account[w])
    BY <2>1, <2>2, <2>3, BalancesAssumption DEF Default, Dies
  <2>5. Locks[w] \in LocksOfAccount /\ ~HasLocks(Locks[w])
    BY <1>1, Zenon DEF LocksOfAccount, HasLocks
  <2>6. Frozen(Locks[w], "Misc") = 0 /\ Frozen(Locks[w], "Fee") = 0
    BY <2>5, FrozenWithoutLocks, Zenon
  <2>. QED
    BY <2>1, <2>3, <2>4, <2>6 DEF GoodAccount
<1>6. native \in Ledger
  <2>1. native.account \in [Holders -> AccountData]
    BY <1>1, <1>5, Zenon
  <2>. QED
    BY <1>1, <1>3, <2>1, Zenon DEF Ledger
<1>7. Circulating = SumFunction(Endowed)
  <2>1. [w \in Holders |-> Total(native.account[w])] = Endowed
    BY <1>2, <1>5, Zenon
  <2>. QED
    BY <2>1, Zenon DEF Circulating, CirculatingIn
<1>8. AccountCurrencyMap \in [Holders -> FeeCurrencies \union {Core}] /\ tx = NoTransaction
  BY Zenon DEF NativeInit, PaymentInit
<1>9. ClaimsInv
  BY ClaimsAssumption DEF NativeInit, ClaimsInit, ClaimsInv, ClaimsPaidOnce
<1>10. NativeInv
  BY <1>1, <1>2, <1>4, <1>5, <1>6, <1>8, Zenon DEF NativeInv, BalancesInv, LedgerOK
<1>11. IssuanceBacked
  BY <1>1, <1>3, <1>7, <1>8 DEF IssuanceBacked, Supply, FeeInFlight
<1>. QED
  BY <1>9, <1>10, <1>11, Zenon

-----------------------------------------------------------------------------
(* Theorems                                                                *)

(* The ledger is in order in every state, whatever accounts, claims and    *)
(* fees do.                                                                *)
THEOREM NativeInvariant == NativeSpec => [](NativeInv /\ ClaimsInv)
<1>1. NativeInit => NativeInv /\ ClaimsInv
  BY FiniteLawsHold, GenesisLedger, Zenon
<1>2. (NativeInv /\ ClaimsInv) /\ [NativeNext]_nativeVars => (NativeInv /\ ClaimsInv)'
  BY FiniteLawsHold, NativeKeeps, Zenon
<1>. QED
  BY <1>1, <1>2, PTL DEF NativeSpec

(* Accounts, locks, references, imbalances and the transaction in flight   *)
(* have their types, and an account exists with its deposit or not at all. *)
THEOREM NativeTypes == NativeSpec => []NativeTypeOK
<1>1. NativeInv => NativeTypeOK
  BY DEF NativeInv, BalancesInv, NativeTypeOK, LedgerOK, Ledger, GoodAccount, IsNew, References, LocksOfAccount
<1>. QED
  BY <1>1, NativeInvariant, PTL

(* What an account has frozen is what its locks say (update_locks): the    *)
(* consumer reference keeps every account with a lock from being removed.  *)
THEOREM NativeFrozen == NativeSpec => []FrozenAsLocked
<1>1. NativeInv => FrozenAsLocked
  BY Zenon DEF NativeInv, BalancesInv, FrozenAsLocked, LedgerOK, GoodAccount
<1>. QED
  BY <1>1, NativeInvariant, PTL

(* No address is paid more than its entry of CLAIMS_DATA (process_claim    *)
(* and the migration).                                                     *)
THEOREM NativeClaims == NativeSpec => []ClaimsPaidOnce
<1>1. ClaimsInv => ClaimsPaidOnce
  BY Zenon DEF ClaimsInv
<1>. QED
  BY <1>1, NativeInvariant, PTL

\* A transaction starts and ends with the two steps of the fee.
LEMMA FeeSteps ==
  ASSUME NativeNext, tx' # tx
  PROVE  \/ \E w \in Signers, f \in Fees, r \in {"Fee", "All"} : WithdrawFee(w, f, r)
         \/ \E f \in CorrectedFees : CorrectAndDepositFee(f)
<1>1. PaymentNext
  BY Zenon DEF NativeNext, paymentVars
<1>. QED
  BY <1>1, Zenon DEF PaymentNext, SetCurrency, AddCurrency, RemoveCurrency, AddMember, RemoveMember

(* A claim pays the account its signature was made for, whoever sends it,  *)
(* and no other account (process_claim, to_ascii_hex).                     *)
THEOREM NativeClaimsSigned == NativeSpec => ClaimPaidWhereSigned
<1> DEFINE A == \A a \in EthereumAddresses :
                  claimed'[a] # claimed[a] =>
                    \A w \in Holders :
                      native'.account[w].free - native.account[w].free
                        = IF w = SignedFor[a] THEN claimed'[a] - claimed[a] ELSE 0
<1>1. ASSUME NativeInv, ClaimsInv, [NativeNext]_nativeVars
      PROVE  [A]_<<native, claimed>>
  <2>1. CASE \E w \in Holders, a \in EthereumAddresses : Claim(w, Signature(a))
    BY <1>1, <2>1, FiniteLawsHold, ClaimPaysSigner, Zenon
  <2>2. CASE claimed' = claimed
    BY <2>2, Zenon
  <2>. QED
    BY <1>1, <2>1, <2>2, Zenon DEF NativeNext, ClaimsNext, OnRuntimeUpgrade, nativeVars, claimsVars
<1>. QED
  BY <1>1, NativeInvariant, PTL DEF NativeSpec, ClaimPaidWhereSigned

(* Buying the fee from a pool leaves the payer's native account as it was  *)
(* (withdraw_fee, swap_currency).                                          *)
THEOREM NativeSwapNeutral == NativeSpec => SwappedFeeIsNeutral
<1> DEFINE A == \A w \in Holders \ {DustReceiver} :
                  (tx = NoTransaction /\ tx' # NoTransaction /\ tx'.who = w
                     /\ AccountCurrencyMap[w] # Core)
                  => native'.account[w] = native.account[w]
<1>1. ASSUME NativeInv, [NativeNext]_nativeVars
      PROVE  [A]_<<native, tx>>
  <2> SUFFICES ASSUME NEW w \in Holders, w # DustReceiver, tx = NoTransaction, tx' # NoTransaction,
                      tx'.who = w, AccountCurrencyMap[w] # Core
               PROVE  native'.account[w] = native.account[w]
    BY Zenon
  <2>1. NativeNext
    BY <1>1, Zenon DEF nativeVars, paymentVars
  <2>2. PICK v \in Signers, f \in Fees, r \in {"Fee", "All"} : WithdrawFee(v, f, r)
    BY <2>1, FeeSteps, Zenon DEF CorrectAndDepositFee
  <2>3. v = w /\ f \in Nat
    BY <2>2, MultiPaymentAssumption, Zenon DEF WithdrawFee
  <2>4. AccountCurrencyMap[w] \in FeeCurrencies
    BY <1>1, Zenon DEF NativeInv
  <2>5. PoolOf[AccountCurrencyMap[w]] \in Holders /\ PoolOf[AccountCurrencyMap[w]] # w
    BY <2>3, <2>4, MultiPaymentAssumption, Zenon DEF Signers
  <2>. QED
    BY <1>1, <2>2, <2>3, <2>5, SwapIsNeutral, Zenon
<1>. QED
  BY <1>1, NativeInvariant, PTL DEF NativeSpec, SwappedFeeIsNeutral

-----------------------------------------------------------------------------
(* Theorems about a supply within its limits                               *)

\* The sums that the operations make are then far from overflow.
LEMMA SupplyLimits ==
  ASSUME NativeInv, WithinLimits
  PROVE  FeeInFlight \in Nat /\ Limits(FeeInFlight)
<1>1. FeeInFlight \in Nat
  BY Zenon DEF NativeInv, FeeInFlight
<1>2. Limits(FeeInFlight)
  BY Zenon DEF WithinLimits, Supply, Limits, Uncounted
<1>. QED
  BY <1>1, <1>2, Zenon

(* The limits hold in every state of LimitedSpec, which behaves as         *)
(* NativeSpec does.                                                        *)
THEOREM LimitedSupply == LimitedSpec => [](NativeInv /\ ClaimsInv /\ WithinLimits)
<1>1. NativeInit => NativeInv /\ ClaimsInv
  BY FiniteLawsHold, GenesisLedger
<1>2. NativeInv /\ ClaimsInv /\ [NativeNext /\ WithinLimits']_nativeVars => NativeInv' /\ ClaimsInv'
  BY FiniteLawsHold, NativeKeeps, Zenon
<1>3. WithinLimits /\ [NativeNext /\ WithinLimits']_nativeVars => WithinLimits'
  BY Zenon DEF WithinLimits, Supply, Circulating, FeeInFlight, nativeVars, balancesVars, paymentVars
<1>. QED
  BY <1>1, <1>2, <1>3, PTL DEF LimitedSpec

(* reducible_balance, can_hold and can_slash promise what transfer,        *)
(* reserve and slash then do.                                              *)
THEOREM LimitedQueries == LimitedSpec => []QueriesKept
<1>1. ASSUME NativeInv, WithinLimits
      PROVE  QueriesKept
  <2>1. FeeInFlight \in Nat /\ Limits(FeeInFlight)
    BY <1>1, SupplyLimits, Zenon
  <2>2. ASSUME NEW w \in Holders, NEW k \in BOOLEAN, NEW to \in Holders, ~IsNew(native, to)
        PROVE  CanTransferNative(native, w, to, ReducibleBalance(w, k), k)
    BY <1>1, <2>1, <2>2, FiniteLawsHold, ReducibleTransfers, Zenon
  <2>3. \A v \in Amounts : v \in Nat
    BY BalancesAssumption, Zenon
  <2>4. ASSUME NEW w \in Holders, NEW v \in Amounts, CanHold(w, v)
        PROVE  LET held    == ReserveNative(native, w, v)
                   slashed == SlashReservedTo(held, w, held.account[w].reserved)
               IN  /\ CanReserveNative(native, w, v)
                   /\ slashed.reserved = 0
                   /\ ~Dies(slashed)
                   /\ slashed.free >= FrozenFor(slashed, "All")
    BY <1>1, <2>3, <2>4, HoldKeeps, Zenon
  <2>5. ASSUME NEW w \in Holders, NEW v \in Amounts, CanSlash(w, v), consumers[w] = 0
        PROVE  Total(SlashTo(native, w, v)) = Total(native.account[w]) - v
    BY <1>1, <2>3, <2>5, SlashTakesAll, Zenon
  <2>. QED
    BY <2>2, <2>4, <2>5 DEF QueriesKept
<1>. QED
  BY <1>1, LimitedSupply, PTL

(* No dust is lost that the handler's account can take, even when it is    *)
(* paid in the middle of a transfer to the same account.                   *)
THEOREM LimitedDust == LimitedSpec => DustReachesHandler
<1> DEFINE A == \A from \in Holders :
                  ~IsNew(native, from) /\ IsNew(native', from) =>
                    \A to \in Holders, value \in Amounts :
                      TransferWithDust(from, to, value) /\ RepatriationWithDust(from, to, value)
<1>1. ASSUME NativeInv, WithinLimits
      PROVE  A
  <2>1. FeeInFlight \in Nat /\ Limits(FeeInFlight)
    BY <1>1, SupplyLimits
  <2> SUFFICES ASSUME NEW from \in Holders, IsNew(native', from),
                      NEW to \in Holders, NEW value \in Amounts
               PROVE  TransferWithDust(from, to, value) /\ RepatriationWithDust(from, to, value)
    BY Zenon
  <2>2. IsNew(native, from)' /\ value \in Nat
    BY BalancesAssumption, Zenon DEF IsNew
  <2>. QED
    BY <1>1, <2>1, <2>2, FiniteLawsHold, TransferPays, RepatriationPays, Zenon
<1>. QED
  BY <1>1, LimitedSupply, PTL DEF DustReachesHandler

(* TotalIssuance, the positive imbalances held and what refused removals   *)
(* took are what accounts hold and what was taken from them and is not     *)
(* settled, whatever calls, claims, pallets and fees do.                   *)
THEOREM LimitedIssuance == LimitedSpec => []IssuanceBacked
<1>1. NativeInit => IssuanceBacked
  BY FiniteLawsHold, GenesisLedger, Zenon
<1>2. ASSUME NativeInv, ClaimsInv, WithinLimits, IssuanceBacked,
             [NativeNext /\ WithinLimits']_nativeVars
      PROVE  IssuanceBacked'
  <2>1. CASE NativeNext /\ WithinLimits'
    <3>1. NativeInv' /\ ClaimsInv'
      BY <1>2, <2>1, FiniteLawsHold, NativeKeeps, Zenon
    <3>2. Backed(FeeInFlight) /\ Limits(FeeInFlight) /\ Limits(FeeInFlight)'
      BY <1>2, <2>1, Zenon DEF IssuanceBacked, WithinLimits, Supply, Backed, Limits, Uncounted
    <3>3. Backed(FeeInFlight)'
      BY <1>2, <2>1, <3>1, <3>2, FiniteLawsHold, NativeBacked, Zenon
    <3>. QED
      BY <3>3, Zenon DEF IssuanceBacked, Supply, Backed, Uncounted
  <2>2. CASE UNCHANGED nativeVars
    BY <1>2, <2>2, Zenon DEF IssuanceBacked, Supply, Circulating, FeeInFlight,
                      nativeVars, balancesVars, imbalances, paymentVars
  <2>. QED
    BY <1>2, <2>1, <2>2, Zenon
<1>. QED
  BY <1>1, <1>2, LimitedSupply, PTL DEF LimitedSpec

\* Without a deposit no account is below it: no mutation removes one, and none
\* is refused.
LEMMA NoneRefused ==
  ASSUME BalancesInv, ExistentialDeposit = 0, BalancesNext, lost = 0
  PROVE  lost' = 0
<1>1. native \in Ledger /\ Amounts \subseteq Nat /\ RootBalances \subseteq Nat \X Nat
  BY BalancesAssumption, Zenon DEF BalancesInv, LedgerOK
<1>2. ASSUME NEW w \in Holders
      PROVE  native.account[w].free \in Nat /\ native.account[w].reserved \in Nat
  BY <1>1, <1>2, Zenon DEF Ledger, AccountData
<1>3. ASSUME NEW w \in Holders, NEW new, new.free \in Nat, new.reserved \in Nat
      PROVE  CanMutate(native, w, new)
  <2>1. ~Dies(new)
    BY <1>3 DEF Dies, Total
  <2>. QED
    BY <2>1, Zenon DEF CanMutate
<1>4. ASSUME NEW w \in Holders, NEW b \in RootBalances, SetBalance(w, b[1], b[2])
      PROVE  lost' = 0
  <2> DEFINE d   == native.account[w]
             new == Moved(d, b[1] - d.free, b[2] - d.reserved)
  <2>1. b[1] \in Nat /\ b[2] \in Nat
    BY <1>1, Zenon
  <2>2. ~(b[1] + b[2] < ExistentialDeposit)
    BY <2>1, SMTT(60)
  <2>3. new.free \in Nat /\ new.reserved \in Nat
    BY <1>2, <2>1 DEF Moved
  <2>4. CanMutate(native, w, new)
    BY <1>3, <2>3, Zenon
  <2>. QED
    BY <1>4, <2>2, <2>4, Zenon DEF SetBalance
<1>5. ASSUME NEW w \in Holders, NEW v \in Amounts, WithdrawFrom(w, v)
      PROVE  lost' = 0
  <2> DEFINE left == Moved(native.account[w], -v, 0)
  <2>1. left.free \in Nat /\ left.reserved \in Nat
    BY <1>1, <1>2, <1>5 DEF Moved, WithdrawFrom
  <2>2. CanMutate(native, w, left)
    BY <1>3, <2>1, Zenon
  <2>. QED
    BY <1>5, <2>2, Zenon DEF WithdrawFrom
<1>6. ASSUME NEW w \in Holders, NEW v \in Amounts, SlashAccount(w, v) \/ SlashReserve(w, v)
      PROVE  lost' = 0
  <2> DEFINE d == native.account[w]
  <2>1. /\ SlashedData(d, v).free \in Nat /\ SlashedData(d, v).reserved \in Nat
        /\ ReserveSlashedData(d, v).free \in Nat /\ ReserveSlashedData(d, v).reserved \in Nat
    BY <1>1, <1>2 DEF SlashedData, ReserveSlashedData, Moved, Smaller
  <2>2. CanMutate(native, w, SlashedData(d, v)) /\ CanMutate(native, w, ReserveSlashedData(d, v))
    BY <1>3, <2>1, Zenon
  <2>3. lost' = lost + 0
    BY <1>6, <2>2, Zenon DEF SlashAccount, SlashReserve, Slashed
  <2>. QED
    BY <2>3
<1>7. ASSUME NEW w \in Holders, NEW v \in Amounts, MakeFreeBalanceBe(w, v)
      PROVE  lost' = 0
  <2> DEFINE d   == native.account[w]
             new == Moved(d, v - d.free, 0)
  <2>1. new.free \in Nat /\ new.reserved \in Nat
    BY <1>1, <1>2 DEF Moved
  <2>2. CanMutate(native, w, new)
    BY <1>3, <2>1, Zenon
  <2>. QED
    BY <1>7, <2>2, Zenon DEF MakeFreeBalanceBe
<1>8. ASSUME NEW from \in Holders, NEW to \in Holders, NEW v \in Amounts,
             NEW s \in {"Free", "Reserved"}, NEW e \in BOOLEAN, Repatriate(from, to, v, s, e)
      PROVE  lost' = 0
  <2> DEFINE d    == native.account[from]
             left == Moved(d, 0, -Smaller(d.reserved, v))
  <2>1. left.free \in Nat /\ left.reserved \in Nat
    BY <1>1, <1>2 DEF Moved, Smaller
  <2>2. CanMutate(native, from, left)
    BY <1>3, <2>1, Zenon
  <2>. QED
    BY <1>8, <2>2, Zenon DEF Repatriate
<1>9. ASSUME lost' = lost
      PROVE  lost' = 0
  BY <1>9, Zenon
<1>10. ASSUME NEW w \in Holders, NEW v \in Amounts,
              \/ ReserveFor(w, v) \/ UnreserveFor(w, v) \/ Reward(w, v)
              \/ MintInto(w, v) \/ BurnFrom(w, v) \/ Release(w, v)
       PROVE  lost' = 0
  BY <1>9, <1>10, Zenon
     DEF ReserveFor, UnreserveFor, Reward, MintInto, BurnFrom, Release, imbalances
<1>11. ASSUME NEW from \in Holders, NEW to \in Holders, NEW v \in Amounts, NEW k \in BOOLEAN,
              TransferBetween(from, to, v, k)
       PROVE  lost' = 0
  BY <1>9, <1>11, Zenon DEF TransferBetween, imbalances
<1>12. ASSUME NEW w, NEW id, NEW v, NEW r,
              SetLock(id, w, v, r) \/ ExtendLock(id, w, v, r) \/ RemoveLock(id, w)
       PROVE  lost' = 0
  BY <1>9, <1>12, Zenon DEF SetLock, ExtendLock, RemoveLock, UpdateLocks, imbalances
<1>13. ASSUME NEW w, NEW v,
              \/ Issue(v) \/ Burn(v) \/ ResolveCreating(w) \/ Settle(w)
              \/ DropNegative \/ DropPositive \/ Offset
       PROVE  lost' = 0
  BY <1>9, <1>13, Zenon
     DEF Issue, Burn, ResolveCreating, Settle, DropNegative, DropPositive, Offset
<1>. QED
  BY <1>4, <1>5, <1>6, <1>7, <1>8, <1>10, <1>11, <1>12, <1>13, ZenonT(60) DEF BalancesNext

\* What frame_system refuses is nothing, and what the issuance and the positive
\* imbalances held then come to.
NothingLost == lost = 0

IssuanceComplete == native.issuance + credit = Supply

(* With the runtime's ExistentialDeposit of 0 no removal is refused and    *)
(* nothing is lost: TotalIssuance and the positive imbalances held are the *)
(* supply.                                                                 *)
THEOREM RuntimeIssuance ==
  ASSUME ExistentialDeposit = 0
  PROVE  LimitedSpec => []IssuanceComplete
<1>1. NativeInit => NothingLost
  BY Zenon DEF NativeInit, BalancesInit, NothingLost
<1>2. ASSUME NativeInv, NothingLost, [NativeNext /\ WithinLimits']_nativeVars
      PROVE  NothingLost'
  <2>1. CASE BalancesNext
    BY <1>2, <2>1, NoneRefused, Zenon DEF NativeInv, NothingLost
  <2>2. CASE lost' = lost
    BY <1>2, <2>2, Zenon DEF NothingLost
  <2>. QED
    BY <1>2, <2>1, <2>2, ZenonT(60)
       DEF NativeNext, ClaimsNext, Claim, ProcessClaim, OnRuntimeUpgrade, PaymentNext, SetCurrency,
           AddCurrency, RemoveCurrency, AddMember, RemoveMember, WithdrawFee, CorrectAndDepositFee,
           nativeVars, balancesVars, imbalances
<1>3. ASSUME NativeInv, NothingLost, IssuanceBacked
      PROVE  IssuanceComplete
  <2>1. credit \in Nat /\ credit + lost = credit
    BY <1>3 DEF NativeInv, BalancesInv, NothingLost
  <2>. QED
    BY <1>3, <2>1, Zenon DEF IssuanceBacked, IssuanceComplete
<1>. QED
  BY <1>1, <1>2, <1>3, LimitedSupply, LimitedIssuance, PTL DEF LimitedSpec

(* A transaction burns the fee as it is corrected, and the payer gets the  *)
(* rest back unless the call removed its account                           *)
(* (correct_and_deposit_fee).                                              *)
THEOREM LimitedFees == LimitedSpec => FeeChargedAsCorrected
<1> DEFINE A == \A f \in CorrectedFees :
                  CorrectAndDepositFee(f) /\ ~IsNew(native, tx.who) =>
                    /\ native.issuance - native'.issuance = Smaller(f, tx.paid)
                    /\ native'.account[tx.who].free
                         = native.account[tx.who].free + tx.paid - Smaller(f, tx.paid)
<1>1. ASSUME NativeInv, WithinLimits, IssuanceBacked
      PROVE  A
  <2>1. Backed(FeeInFlight) /\ Limits(FeeInFlight)
    BY <1>1, Zenon DEF IssuanceBacked, WithinLimits, Supply, Backed, Limits, Uncounted
  <2>2. \A f \in CorrectedFees : f \in Nat
    BY MultiPaymentAssumption, Zenon
  <2>. QED
    BY <1>1, <2>1, <2>2, FiniteLawsHold, FeeCorrected, Zenon
<1>. QED
  BY <1>1, LimitedSupply, LimitedIssuance, PTL DEF FeeChargedAsCorrected
=============================================================================
