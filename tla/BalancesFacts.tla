--------------------------- MODULE BalancesFacts ----------------------------
(***************************************************************************)
(* What the balances pallet keeps, for any number of accounts, locks and   *)
(* amounts.  Every operation on the ledger is made of two steps: Store     *)
(* writes what an account becomes, and CleanDust pays or drops what a      *)
(* removed account had left.  The lemmas say of each operation what it     *)
(* keeps and how it changes the sum of the accounts and the issuance; then *)
(* of each call that the ledger stays in order, and that the issuance goes *)
(* with the supply.                                                        *)
(***************************************************************************)
EXTENDS Balances, TLAPS

-----------------------------------------------------------------------------
(* Locks                                                                   *)

LocksOfAccount == [LockIds -> BalanceLock \union {NoLock}]

\* The amounts Frozen takes the largest of.
LockedAmounts(locks, reason) ==
  {0} \union {locks[id].amount : id \in
                {i \in LockIds : locks[i] # NoLock /\ locks[i].reasons \in {reason, "All"}}}

-----------------------------------------------------------------------------
(* The ledger                                                              *)

Ledger == [account : [Holders -> AccountData], issuance : Nat]

\* An account that is removed or has its deposit, with what its locks freeze.
GoodAccount(d, locks) ==
  /\ d = Default \/ ~Dies(d)
  /\ d.misc_frozen = Frozen(locks, "Misc")
  /\ d.fee_frozen = Frozen(locks, "Fee")

LedgerOK(N, L) == N \in Ledger /\ \A w \in Holders : GoodAccount(N.account[w], L[w])

\* What an account is once `d` is stored for it.
Becomes(d) == IF Dies(d) THEN Default ELSE d

\* Accounts gain `amount`, but for `dropped`, the dust that is taken from the
\* issuance.
Gains(N, M, amount, dropped) ==
  /\ CirculatingIn(M) = CirculatingIn(N) + amount - dropped
  /\ M.issuance = Larger(N.issuance - dropped, 0)

-----------------------------------------------------------------------------
(* What the lemmas below take from the theory of finite sets               *)

\* A finite sum changes by what one summand changes by and is at least each
\* summand; the amounts frozen are the largest of finitely many.  The lemmas
\* have these laws as a hypothesis, and FiniteLawsHold proves them.
FiniteLaws ==
  /\ \A N \in Ledger :
       /\ CirculatingIn(N) \in Nat
       /\ \A w \in Holders : Total(N.account[w]) <= CirculatingIn(N)
  /\ \A N, M \in Ledger : \A w \in Holders :
       (\A v \in Holders \ {w} : M.account[v] = N.account[v]) =>
         CirculatingIn(M) = CirculatingIn(N) + Total(M.account[w]) - Total(N.account[w])
  /\ \A locks \in LocksOfAccount : \A reason \in {"Misc", "Fee"} :
       /\ Frozen(locks, reason) \in Nat
       /\ Frozen(locks, reason) \in LockedAmounts(locks, reason)
       /\ \A n \in LockedAmounts(locks, reason) : Frozen(locks, reason) >= n

\* Accounts hold a natural number of tokens, each no more than all.
LEMMA CirculatingBounds ==
  ASSUME FiniteLaws, NEW N \in Ledger
  PROVE  /\ CirculatingIn(N) \in Nat
         /\ \A w \in Holders : Total(N.account[w]) <= CirculatingIn(N)
BY Zenon DEF FiniteLaws

\* What one account gains or loses, accounts together do.
LEMMA CirculatingChange ==
  ASSUME FiniteLaws, NEW N \in Ledger, NEW M \in Ledger, NEW w \in Holders,
         \A v \in Holders \ {w} : M.account[v] = N.account[v]
  PROVE  CirculatingIn(M) = CirculatingIn(N) + Total(M.account[w]) - Total(N.account[w])
BY Zenon DEF FiniteLaws

\* Frozen (update_locks) is an upper bound that some lock attains, or 0.
LEMMA FrozenIsLargest ==
  ASSUME FiniteLaws, NEW locks \in LocksOfAccount, NEW reason \in {"Misc", "Fee"}
  PROVE  /\ Frozen(locks, reason) \in Nat
         /\ Frozen(locks, reason) \in LockedAmounts(locks, reason)
         /\ \A n \in LockedAmounts(locks, reason) : Frozen(locks, reason) >= n
BY Zenon DEF FiniteLaws

\* Without locks nothing is frozen,
LEMMA FrozenWithoutLocks ==
  ASSUME FiniteLaws, NEW locks \in LocksOfAccount, NEW reason \in {"Misc", "Fee"}, ~HasLocks(locks)
  PROVE  Frozen(locks, reason) = 0
BY FrozenIsLargest, Zenon DEF LockedAmounts, HasLocks

\* and where nothing is frozen, removing a lock changes nothing.
LEMMA FrozenAfterRemoval ==
  ASSUME FiniteLaws, NEW locks \in LocksOfAccount, NEW reason \in {"Misc", "Fee"}, NEW id \in LockIds,
         Frozen(locks, reason) = 0
  PROVE  Frozen([locks EXCEPT ![id] = NoLock], reason) = 0
<1> DEFINE after == [locks EXCEPT ![id] = NoLock]
<1>1. after \in LocksOfAccount
  BY Zenon DEF LocksOfAccount
<1>2. LockedAmounts(after, reason) \subseteq LockedAmounts(locks, reason)
  BY <1>1, Zenon DEF LockedAmounts, LocksOfAccount
<1>3. /\ Frozen(after, reason) \in Nat
      /\ Frozen(after, reason) \in LockedAmounts(after, reason)
  BY <1>1, FrozenIsLargest, Zenon
<1>4. \A n \in LockedAmounts(locks, reason) : 0 >= n
  BY FrozenIsLargest, Zenon
<1> HIDE DEF after
<1>5. 0 >= Frozen(after, reason)
  BY <1>2, <1>3, <1>4, Zenon
<1>6. Frozen(after, reason) = 0
  BY <1>3, <1>5
<1>. QED
  BY <1>6, Zenon DEF after

\* Store: the account gets what is stored, less the dust, and no other changes.
LEMMA StoreKeeps ==
  ASSUME FiniteLaws, NEW N \in Ledger, NEW L, NEW w \in Holders, NEW d \in AccountData,
         \A v \in Holders \ {w} : GoodAccount(N.account[v], L[v]),
         GoodAccount(Becomes(d), L[w])
  PROVE  /\ LedgerOK(Store(N, w, d), L)
         /\ Store(N, w, d).issuance = N.issuance
         /\ CirculatingIn(Store(N, w, d))
              = CirculatingIn(N) - Total(N.account[w]) + Total(d) - Dust(d)
         /\ Dust(d) \in Nat
<1> DEFINE M == Store(N, w, d)
<1>1. Becomes(d) \in AccountData
  BY Zenon DEF Becomes, Default, AccountData
<1>2. /\ M.account = [N.account EXCEPT ![w] = Becomes(d)]
      /\ M.issuance = N.issuance
      /\ M = [account |-> M.account, issuance |-> M.issuance]
  BY Zenon DEF Store, Becomes
<1>3. /\ M.account[w] = Becomes(d)
      /\ \A v \in Holders \ {w} : M.account[v] = N.account[v]
      /\ M \in Ledger
  BY <1>1, <1>2, Zenon DEF Ledger
<1>4. LedgerOK(M, L)
  BY <1>3, Zenon DEF LedgerOK
<1>5. Total(Becomes(d)) = Total(d) - Dust(d) /\ Dust(d) \in Nat /\ Total(d) \in Nat
  BY DEF Becomes, Total, Dust, Default, AccountData
<1>6. Total(N.account[w]) \in Nat
  BY DEF Ledger, AccountData, Total
<1>7. CirculatingIn(M) = CirculatingIn(N) + Total(M.account[w]) - Total(N.account[w])
  BY <1>3, CirculatingChange, Zenon
<1>8. CirculatingIn(N) \in Nat
  BY CirculatingBounds, Zenon
<1>. QED
  BY <1>2, <1>3, <1>4, <1>5, <1>6, <1>7, <1>8

\* Burnt and Issued leave the accounts alone.
LEMMA BurntKeeps ==
  ASSUME FiniteLaws, NEW N \in Ledger, NEW L, LedgerOK(N, L), NEW amount \in Nat
  PROVE  /\ LedgerOK(Burnt(N, amount), L)
         /\ Gains(N, Burnt(N, amount), amount, amount)
         /\ CirculatingIn(Burnt(N, amount)) = CirculatingIn(N)
<1>1. N.issuance \in Nat /\ Burnt(N, amount).account = N.account
  BY Zenon DEF Ledger, Burnt
<1>2. Burnt(N, amount) \in Ledger
  BY <1>1 DEF Ledger, Burnt, Larger
<1>3. CirculatingIn(Burnt(N, amount)) = CirculatingIn(N)
  BY <1>1, Zenon DEF CirculatingIn
<1>4. CirculatingIn(N) \in Nat
  BY CirculatingBounds, Zenon
<1>. QED
  BY <1>1, <1>2, <1>3, <1>4 DEF LedgerOK, Gains, Burnt

\* CleanDust: the dust is paid to its receiver, or dropped.
LEMMA CleanDustKeeps ==
  ASSUME FiniteLaws, NEW N, NEW L, LedgerOK(N, L), NEW dust \in Nat
  PROVE  /\ LedgerOK(CleanDust(N, dust), L)
         /\ \E b \in 0 .. dust : Gains(N, CleanDust(N, dust), dust, b)
<1> DEFINE r == DustReceiver
           d == Moved(N.account[r], dust, 0)
<1>0. N \in Ledger
  BY Zenon DEF LedgerOK
<1>1. CASE dust > 0 /\ r # NoReceiver /\ CanDepositIntoExisting(N, r, dust)
  <2>1. r \in Holders /\ ~IsNew(N, r) /\ CleanDust(N, dust) = Store(N, r, d)
    BY <1>1, BalancesAssumption DEF CleanDust, CanDepositIntoExisting
  <2>2. N.account[r] \in AccountData /\ GoodAccount(N.account[r], L[r])
    BY <1>0, <2>1, Zenon DEF LedgerOK, Ledger
  <2>3. /\ d \in AccountData /\ ~Dies(d) /\ Total(d) = Total(N.account[r]) + dust
        /\ GoodAccount(d, L[r])
    BY <2>1, <2>2, BalancesAssumption DEF AccountData, Moved, Dies, Total, IsNew, GoodAccount
  <2>4. Becomes(d) = d /\ Dust(d) = 0
    BY <2>3, Zenon DEF Becomes, Dust
  <2>5. N.issuance \in Nat /\ CirculatingIn(N) \in Nat /\ Total(N.account[r]) \in Nat
    BY <1>0, <2>2, CirculatingBounds DEF Ledger, Total, AccountData
  <2> HIDE DEF d, r
  <2>6. /\ LedgerOK(Store(N, r, d), L)
        /\ Store(N, r, d).issuance = N.issuance
        /\ CirculatingIn(Store(N, r, d)) = CirculatingIn(N) - Total(N.account[r]) + Total(d) - Dust(d)
    BY <1>0, <2>1, <2>3, <2>4, StoreKeeps DEF LedgerOK
  <2>7. Gains(N, CleanDust(N, dust), dust, 0)
    BY <2>1, <2>3, <2>4, <2>5, <2>6 DEF Gains, Larger
  <2>. QED
    BY <2>1, <2>6, <2>7
<1>2. CASE ~(dust > 0 /\ r # NoReceiver /\ CanDepositIntoExisting(N, r, dust))
  <2>1. CleanDust(N, dust) = Burnt(N, dust)
    BY <1>2, Zenon DEF CleanDust
  <2>. QED
    BY <1>0, <2>1, BurntKeeps
<1>. QED
  BY <1>1, <1>2, Zenon

\* A ledger that gains once and again gains both.
LEMMA GainsTwice ==
  ASSUME FiniteLaws, NEW N \in Ledger, NEW M, NEW P,
         NEW x \in Int, NEW y \in Int, NEW b \in Nat, NEW c \in Nat,
         Gains(N, M, x, b), Gains(M, P, y, c)
  PROVE  Gains(N, P, x + y, b + c)
<1>1. N.issuance \in Nat /\ CirculatingIn(N) \in Nat
  BY CirculatingBounds, Zenon DEF Ledger
<1>. QED
  BY <1>1 DEF Gains, Larger

\* Mutate: the account gets what is stored for it and is removed if it must be.
LEMMA MutateKeeps ==
  ASSUME FiniteLaws, NEW N \in Ledger, NEW L, NEW w \in Holders, NEW d \in AccountData,
         \A v \in Holders \ {w} : GoodAccount(N.account[v], L[v]),
         GoodAccount(Becomes(d), L[w])
  PROVE  /\ LedgerOK(Mutate(N, w, d), L)
         /\ \E b \in 0 .. Dust(d) :
              Gains(N, Mutate(N, w, d), Total(d) - Total(N.account[w]), b)
<1> DEFINE M == Store(N, w, d)
           dust == Dust(d)
<1>1. /\ LedgerOK(M, L)
      /\ M.issuance = N.issuance
      /\ CirculatingIn(M) = CirculatingIn(N) - Total(N.account[w]) + Total(d) - dust
      /\ dust \in Nat
  BY StoreKeeps, Zenon
<1>2. Mutate(N, w, d) = CleanDust(M, dust)
  BY Zenon DEF Mutate
<1>3. /\ CirculatingIn(N) \in Nat /\ Total(N.account[w]) \in Nat /\ Total(d) \in Nat
      /\ N.issuance \in Nat
  BY CirculatingBounds DEF Ledger, AccountData, Total
<1> HIDE DEF M, dust
<1>4. LedgerOK(CleanDust(M, dust), L)
  BY <1>1, CleanDustKeeps, Zenon
<1>5. PICK b \in 0 .. dust : Gains(M, CleanDust(M, dust), dust, b)
  BY <1>1, CleanDustKeeps, Zenon
<1>6. Gains(N, CleanDust(M, dust), Total(d) - Total(N.account[w]), b)
  BY <1>1, <1>3, <1>5 DEF Gains
<1>. QED
  BY <1>2, <1>4, <1>5, <1>6, Zenon DEF dust

\* MutateBoth: the same of two accounts.
LEMMA MutateBothKeeps ==
  ASSUME FiniteLaws, NEW N, NEW L, LedgerOK(N, L), NEW v \in Holders, NEW w \in Holders, v # w,
         NEW d \in AccountData, NEW e \in AccountData,
         GoodAccount(Becomes(d), L[v]), GoodAccount(Becomes(e), L[w])
  PROVE  /\ LedgerOK(MutateBoth(N, v, d, w, e), L)
         /\ \E b \in 0 .. (Dust(d) + Dust(e)) :
              Gains(N, MutateBoth(N, v, d, w, e),
                    (Total(d) - Total(N.account[v])) + (Total(e) - Total(N.account[w])), b)
<1> DEFINE M1 == Store(N, v, d)
           M2 == Store(M1, w, e)
           M3 == CleanDust(M2, Dust(d))
           M4 == CleanDust(M3, Dust(e))
<1>0. N \in Ledger
  BY Zenon DEF LedgerOK
<1>1. /\ LedgerOK(M1, L)
      /\ M1.issuance = N.issuance
      /\ CirculatingIn(M1) = CirculatingIn(N) - Total(N.account[v]) + Total(d) - Dust(d)
      /\ Dust(d) \in Nat
  BY <1>0, StoreKeeps, Zenon DEF LedgerOK
<1>2. M1.account[w] = N.account[w]
  BY <1>0, Zenon DEF Store, Ledger
<1>3. MutateBoth(N, v, d, w, e) = M4
  BY Zenon DEF MutateBoth
<1> HIDE DEF M1
<1>4. /\ LedgerOK(M2, L)
      /\ M2.issuance = M1.issuance
      /\ CirculatingIn(M2) = CirculatingIn(M1) - Total(M1.account[w]) + Total(e) - Dust(e)
      /\ Dust(e) \in Nat
  BY <1>1, StoreKeeps, Zenon DEF LedgerOK
<1> HIDE DEF M2
<1>5. LedgerOK(M3, L) /\ \E b \in 0 .. Dust(d) : Gains(M2, M3, Dust(d), b)
  BY <1>1, <1>4, CleanDustKeeps, Zenon
<1> HIDE DEF M3
<1>6. LedgerOK(M4, L) /\ \E b \in 0 .. Dust(e) : Gains(M3, M4, Dust(e), b)
  BY <1>4, <1>5, CleanDustKeeps, Zenon
<1>7. PICK b \in 0 .. Dust(d) : Gains(M2, M3, Dust(d), b)
  BY <1>5, Zenon
<1>8. PICK c \in 0 .. Dust(e) : Gains(M3, M4, Dust(e), c)
  BY <1>6, Zenon
<1> HIDE DEF M4
<1>9. /\ CirculatingIn(N) \in Nat /\ N.issuance \in Nat
      /\ Total(N.account[v]) \in Nat /\ Total(d) \in Nat
      /\ Total(N.account[w]) \in Nat /\ Total(e) \in Nat
  BY <1>0, CirculatingBounds DEF Ledger, AccountData, Total
<1>10. Gains(N, M4, (Total(d) - Total(N.account[v])) + (Total(e) - Total(N.account[w])), b + c)
  <2>1. Gains(M2, M4, Dust(d) + Dust(e), b + c)
    BY <1>1, <1>4, <1>7, <1>8, GainsTwice DEF LedgerOK
  <2>2. /\ CirculatingIn(M4) = CirculatingIn(M2) + (Dust(d) + Dust(e)) - (b + c)
        /\ M4.issuance = Larger(N.issuance - (b + c), 0)
    BY <2>1, <1>1, <1>4, Zenon DEF Gains
  <2>3. CirculatingIn(M2) = CirculatingIn(N) - Total(N.account[v]) + Total(d) - Dust(d)
                              - Total(N.account[w]) + Total(e) - Dust(e)
    <3>1. Total(M1.account[w]) = Total(N.account[w])
      BY <1>2, Zenon
    <3>. QED
      BY <1>1, <1>4, <1>9, <3>1
  <2>4. CirculatingIn(M4) = CirculatingIn(N)
          + ((Total(d) - Total(N.account[v])) + (Total(e) - Total(N.account[w]))) - (b + c)
    BY <2>2, <2>3, <1>1, <1>4, <1>9
  <2>. QED
    BY <2>2, <2>4, Zenon DEF Gains
<1>11. b + c \in 0 .. (Dust(d) + Dust(e))
  BY <1>1, <1>4
<1>. QED
  BY <1>3, <1>6, <1>10, <1>11, Zenon

-----------------------------------------------------------------------------
(* Operations                                                              *)

\* The consumer reference of an account is that of its locks.
References ==
  /\ Locks \in [Holders -> LocksOfAccount]
  /\ consumers = [w \in Holders |-> IF HasLocks(Locks[w]) THEN 1 ELSE 0]

\* What an account becomes by a movement that frame_system lets through agrees
\* with its locks: only an account without locks is removed.
LEMMA MovedGood ==
  ASSUME FiniteLaws, References, NEW N, LedgerOK(N, Locks), NEW w \in Holders,
         NEW x \in Int, NEW y \in Int,
         N.account[w].free + x >= 0, N.account[w].reserved + y >= 0,
         CanMutate(N, w, Moved(N.account[w], x, y))
  PROVE  /\ Moved(N.account[w], x, y) \in AccountData
         /\ Total(Moved(N.account[w], x, y)) = Total(N.account[w]) + (x + y)
         /\ GoodAccount(Becomes(Moved(N.account[w], x, y)), Locks[w])
<1> DEFINE c == N.account[w]
           d == Moved(c, x, y)
<1>1. c \in AccountData /\ GoodAccount(c, Locks[w]) /\ Locks[w] \in LocksOfAccount
  BY Zenon DEF LedgerOK, Ledger, References
<1>2. d \in AccountData /\ Total(d) = Total(c) + (x + y)
  BY <1>1 DEF Moved, AccountData, Total
<1>3. CASE ~Dies(d)
  <2>1. Becomes(d) = d /\ d.misc_frozen = c.misc_frozen /\ d.fee_frozen = c.fee_frozen
    BY <1>3, Zenon DEF Becomes, Moved
  <2>. QED
    BY <1>1, <1>2, <1>3, <2>1, Zenon DEF GoodAccount
<1>4. CASE Dies(d)
  <2>1. Becomes(d) = Default
    BY <1>4, Zenon DEF Becomes
  <2>2. Frozen(Locks[w], "Misc") = 0 /\ Frozen(Locks[w], "Fee") = 0
    <3>1. CASE IsNew(N, w)
      BY <1>1, <3>1 DEF IsNew, Default, GoodAccount
    <3>2. CASE consumers[w] = 0
      <4>1. ~HasLocks(Locks[w])
        BY <3>2 DEF References
      <4>. QED
        BY <4>1, <1>1, FrozenWithoutLocks, Zenon
    <3>. QED
      BY <1>4, <3>1, <3>2, Zenon DEF CanMutate
  <2>. QED
    BY <1>2, <2>1, <2>2 DEF GoodAccount, Default
<1>. QED
  BY <1>2, <1>3, <1>4, Zenon

\* One account gains what is moved to it, less dust that is dropped.
LEMMA MoveKeeps ==
  ASSUME FiniteLaws, References, NEW N, LedgerOK(N, Locks), NEW w \in Holders,
         NEW x \in Int, NEW y \in Int,
         N.account[w].free + x >= 0, N.account[w].reserved + y >= 0,
         CanMutate(N, w, Moved(N.account[w], x, y))
  PROVE  LET d == Moved(N.account[w], x, y)
         IN  /\ LedgerOK(Mutate(N, w, d), Locks)
             /\ \E b \in 0 .. Dust(d) : Gains(N, Mutate(N, w, d), x + y, b)
<1> DEFINE d == Moved(N.account[w], x, y)
<1>1. /\ d \in AccountData
      /\ Total(d) = Total(N.account[w]) + (x + y)
      /\ GoodAccount(Becomes(d), Locks[w])
  BY MovedGood, Zenon
<1>2. N \in Ledger /\ \A v \in Holders \ {w} : GoodAccount(N.account[v], Locks[v])
  BY Zenon DEF LedgerOK
<1> HIDE DEF d
<1>3. /\ LedgerOK(Mutate(N, w, d), Locks)
      /\ \E b \in 0 .. Dust(d) : Gains(N, Mutate(N, w, d), Total(d) - Total(N.account[w]), b)
  BY <1>1, <1>2, MutateKeeps, Zenon
<1>4. Total(d) - Total(N.account[w]) = x + y
  BY <1>1, <1>2 DEF Ledger, AccountData, Total
<1>. QED
  BY <1>3, <1>4, Zenon DEF d

\* An account that keeps its deposit has what is stored for it, to the unit.
LEMMA MutateAlive ==
  ASSUME NEW N \in Ledger, NEW w \in Holders, NEW d, ~Dies(d)
  PROVE  /\ Mutate(N, w, d).account = [N.account EXCEPT ![w] = d]
         /\ Mutate(N, w, d).issuance = N.issuance
<1>1. Dust(d) = 0 /\ Store(N, w, d).issuance \in Nat
  BY Zenon DEF Dust, Store, Ledger
<1>2. Mutate(N, w, d) = Burnt(Store(N, w, d), 0)
  BY <1>1 DEF Mutate, CleanDust
<1>. QED
  BY <1>1, <1>2 DEF Burnt, Store, Larger

\* A deposit that the pallet accepts leaves no dust.
LEMMA CreditKeeps ==
  ASSUME FiniteLaws, References, NEW N, LedgerOK(N, Locks), NEW w \in Holders, NEW value \in Nat,
         value >= ExistentialDeposit \/ ~IsNew(N, w)
  PROVE  /\ LedgerOK(Credit(N, w, value), Locks)
         /\ Gains(N, Credit(N, w, value), value, 0)
         /\ Credit(N, w, value).account
              = [N.account EXCEPT ![w] = Moved(N.account[w], value, 0)]
         /\ Credit(N, w, value).issuance = N.issuance
<1> DEFINE d == Moved(N.account[w], value, 0)
<1>1. N.account[w] \in AccountData /\ GoodAccount(N.account[w], Locks[w]) /\ N \in Ledger
  BY Zenon DEF LedgerOK, Ledger
<1>2. ~Dies(d) /\ Dust(d) = 0
  BY <1>1, BalancesAssumption DEF Dies, Dust, Total, Moved, AccountData, GoodAccount, IsNew
<1>3. N.account[w].free + value >= 0 /\ N.account[w].reserved + 0 >= 0
  BY <1>1 DEF AccountData
<1>4. CanMutate(N, w, d)
  BY <1>2, Zenon DEF CanMutate
<1>5. Credit(N, w, value) = Mutate(N, w, d)
  BY Zenon DEF Credit
<1>6. LedgerOK(Mutate(N, w, d), Locks) /\ \E b \in 0 .. Dust(d) : Gains(N, Mutate(N, w, d), value + 0, b)
  BY <1>3, <1>4, MoveKeeps
<1>7. /\ Mutate(N, w, d).account = [N.account EXCEPT ![w] = d]
      /\ Mutate(N, w, d).issuance = N.issuance
  BY <1>1, <1>2, MutateAlive
<1>8. Gains(N, Mutate(N, w, d), value, 0)
  <2> HIDE DEF d
  <2>1. \A b \in 0 .. 0 : b = 0
    OBVIOUS
  <2>2. value + 0 = value
    OBVIOUS
  <2>. QED
    BY <1>2, <1>6, <2>1, <2>2, Zenon
<1>. QED
  BY <1>5, <1>6, <1>7, <1>8, Zenon

\* A ledger that is left alone gains nothing.
LEMMA GainsNothing ==
  ASSUME FiniteLaws, NEW N, NEW L, LedgerOK(N, L)
  PROVE  Gains(N, N, 0, 0)
<1>1. CirculatingIn(N) \in Nat /\ N.issuance \in Nat
  BY CirculatingBounds, Zenon DEF LedgerOK, Ledger
<1>. QED
  BY <1>1 DEF Gains, Larger

\* The issuance does not grow by dust that is dropped.
LEMMA GainsBound ==
  ASSUME NEW N, NEW L, LedgerOK(N, L), NEW M, NEW x, NEW b \in Nat, Gains(N, M, x, b)
  PROVE  M.issuance <= N.issuance
BY DEF Gains, Larger, LedgerOK, Ledger

\* transfer: what one account loses another gains.
LEMMA TransferKeeps ==
  ASSUME FiniteLaws, References, NEW N, LedgerOK(N, Locks), NEW from \in Holders, NEW to \in Holders,
         NEW value \in Nat, NEW keep_alive,
         CanTransferNative(N, from, to, value, keep_alive)
  PROVE  /\ LedgerOK(TransferNative(N, from, to, value), Locks)
         /\ \E b \in Nat : Gains(N, TransferNative(N, from, to, value), 0, b)
<1> DEFINE paid == Moved(N.account[from], -value, 0)
           got  == Moved(N.account[to], value, 0)
<1>1. CASE value = 0 \/ from = to
  BY <1>1, GainsNothing, Zenon DEF TransferNative
<1>2. CASE ~(value = 0 \/ from = to)
  <2>1. TransferNative(N, from, to, value) = MutateBoth(N, from, paid, to, got)
    BY <1>2, Zenon DEF TransferNative
  <2>2. /\ paid.free >= 0
        /\ Total(got) >= ExistentialDeposit
        /\ (~keep_alive /\ consumers[from] = 0) \/ Total(paid) >= ExistentialDeposit
    BY <1>2, Zenon DEF CanTransferNative
  <2>3. /\ N.account[from] \in AccountData /\ N.account[to] \in AccountData
        /\ -value \in Int
    BY DEF LedgerOK, Ledger
  <2>4. /\ N.account[from].free + (-value) >= 0 /\ N.account[from].reserved + 0 >= 0
        /\ N.account[to].free + value >= 0 /\ N.account[to].reserved + 0 >= 0
    BY <2>2, <2>3 DEF AccountData, Moved
  <2>5. Total(got) \in Nat /\ Total(paid) \in Nat
    BY <2>3, <2>4 DEF Total, Moved, AccountData
  <2>6. CanMutate(N, from, paid) /\ CanMutate(N, to, got)
    BY <2>2, <2>5, BalancesAssumption DEF CanMutate, Dies
  <2>7. /\ paid \in AccountData
        /\ Total(paid) = Total(N.account[from]) + ((-value) + 0)
        /\ GoodAccount(Becomes(paid), Locks[from])
    BY <2>3, <2>4, <2>6, MovedGood
  <2>8. /\ got \in AccountData
        /\ Total(got) = Total(N.account[to]) + (value + 0)
        /\ GoodAccount(Becomes(got), Locks[to])
    BY <2>3, <2>4, <2>6, MovedGood
  <2>9. Total(N.account[from]) \in Nat /\ Total(N.account[to]) \in Nat
    BY <2>3 DEF Total, AccountData
  <2> HIDE DEF paid, got
  <2>10. /\ LedgerOK(MutateBoth(N, from, paid, to, got), Locks)
         /\ \E b \in 0 .. (Dust(paid) + Dust(got)) :
              Gains(N, MutateBoth(N, from, paid, to, got),
                    (Total(paid) - Total(N.account[from])) + (Total(got) - Total(N.account[to])), b)
    BY <1>2, <2>7, <2>8, MutateBothKeeps, Zenon
  <2>11. (Total(paid) - Total(N.account[from])) + (Total(got) - Total(N.account[to])) = 0
    BY <2>7, <2>8, <2>9
  <2>12. Dust(paid) + Dust(got) \in Nat
    BY <2>5 DEF Dust
  <2>. QED
    BY <2>1, <2>10, <2>11, <2>12
<1>. QED
  BY <1>1, <1>2, Zenon

\* withdraw: the account loses the value, and the caller has it.
LEMMA WithdrawKeeps ==
  ASSUME FiniteLaws, References, NEW N, LedgerOK(N, Locks), NEW w \in Holders,
         NEW value \in Nat, NEW reasons, NEW keep_alive,
         CanWithdrawNative(N, w, value, reasons, keep_alive)
  PROVE  /\ LedgerOK(WithdrawNative(N, w, value), Locks)
         /\ \E b \in Nat : Gains(N, WithdrawNative(N, w, value), -value, b)
<1> DEFINE left == Moved(N.account[w], -value, 0)
<1>1. CASE value = 0
  <2>1. WithdrawNative(N, w, value) = N
    BY <1>1, Zenon DEF WithdrawNative
  <2>2. -value = 0
    <3>1. -value \in Int /\ value + (-value) = 0
      OBVIOUS
    <3>. QED
      BY <1>1, <3>1, \A v \in Int : 0 + v = 0 => v = 0, ZenonT(60)
  <2>. QED
    BY <2>1, <2>2, GainsNothing
<1>2. CASE value # 0
  <2>1. WithdrawNative(N, w, value) = Mutate(N, w, left)
    BY <1>2, Zenon DEF WithdrawNative
  <2>2. left.free >= 0 /\ CanMutate(N, w, left)
    BY <1>2, Zenon DEF CanWithdrawNative
  <2>3. N.account[w] \in AccountData /\ -value \in Int
    BY DEF LedgerOK, Ledger
  <2>4. N.account[w].free + (-value) >= 0 /\ N.account[w].reserved + 0 >= 0
    BY <2>2, <2>3 DEF AccountData, Moved
  <2>5. /\ LedgerOK(Mutate(N, w, left), Locks)
        /\ \E b \in 0 .. Dust(left) : Gains(N, Mutate(N, w, left), (-value) + 0, b)
    BY <2>2, <2>3, <2>4, MoveKeeps
  <2>6. (-value) + 0 = -value /\ Dust(left) \in Nat
    BY <2>3, <2>4 DEF Dust, Total, Moved, AccountData
  <2> HIDE DEF left
  <2>. QED
    BY <2>1, <2>5, <2>6
<1>. QED
  BY <1>1, <1>2, Zenon

\* A movement between the two balances of an account removes no account and
\* leaves no dust.
LEMMA ShiftKeeps ==
  ASSUME FiniteLaws, References, NEW N, LedgerOK(N, Locks), NEW w \in Holders, NEW x \in Int,
         N.account[w].free + x >= 0, N.account[w].reserved - x >= 0
  PROVE  LET d == Moved(N.account[w], x, -x)
         IN  /\ LedgerOK(Mutate(N, w, d), Locks)
             /\ Gains(N, Mutate(N, w, d), 0, 0)
<1> DEFINE d == Moved(N.account[w], x, -x)
<1>1. N.account[w] \in AccountData /\ GoodAccount(N.account[w], Locks[w]) /\ N \in Ledger
  BY Zenon DEF LedgerOK, Ledger
<1>2. Total(d) = Total(N.account[w]) /\ -x \in Int /\ N.account[w].reserved + (-x) >= 0
  BY <1>1 DEF Total, Moved, AccountData
<1>3. CanMutate(N, w, d)
  BY <1>1, <1>2, Zenon DEF CanMutate, Dies, GoodAccount, IsNew
<1>4. /\ LedgerOK(Mutate(N, w, d), Locks)
      /\ \E b \in 0 .. Dust(d) : Gains(N, Mutate(N, w, d), x + (-x), b)
  BY <1>2, <1>3, MoveKeeps, Zenon
<1>5. Dust(d) = 0
  <2>1. CASE N.account[w] = Default
    BY <2>1, <1>2 DEF Dust, Total, Default
  <2>2. CASE ~Dies(N.account[w])
    BY <2>2, <1>2, Zenon DEF Dust, Dies
  <2>. QED
    BY <1>1, <2>1, <2>2, Zenon DEF GoodAccount
<1>6. x + (-x) = 0
  OBVIOUS
<1> HIDE DEF d
<1>7. \A b \in 0 .. 0 : b = 0
  OBVIOUS
<1>. QED
  BY <1>4, <1>5, <1>6, <1>7, Zenon DEF d

\* reserve, unreserve, hold and release.
LEMMA ReserveKeeps ==
  ASSUME FiniteLaws, References, NEW N, LedgerOK(N, Locks), NEW w \in Holders, NEW value \in Nat
  PROVE  /\ CanReserveNative(N, w, value) =>
              /\ LedgerOK(ReserveNative(N, w, value), Locks)
              /\ Gains(N, ReserveNative(N, w, value), 0, 0)
         /\ LedgerOK(UnreserveNative(N, w, value), Locks)
         /\ Gains(N, UnreserveNative(N, w, value), 0, 0)
         /\ N.account[w].reserved >= value =>
              LET M == Mutate(N, w, Moved(N.account[w], value, -value))
              IN  LedgerOK(M, Locks) /\ Gains(N, M, 0, 0)
<1> DEFINE c == N.account[w]
           actual == Smaller(c.reserved, value)
<1>1. c \in AccountData /\ actual \in Nat /\ actual <= c.reserved /\ actual <= value
  BY DEF LedgerOK, Ledger, AccountData, Smaller
<1>2. ASSUME CanReserveNative(N, w, value)
      PROVE  /\ LedgerOK(ReserveNative(N, w, value), Locks)
             /\ Gains(N, ReserveNative(N, w, value), 0, 0)
  <2>1. -value \in Int /\ c.free + (-value) >= 0 /\ c.reserved - (-value) >= 0 /\ -(-value) = value
    BY <1>1, <1>2 DEF AccountData, CanReserveNative
  <2>2. LET d == Moved(N.account[w], -value, -(-value))
        IN  LedgerOK(Mutate(N, w, d), Locks) /\ Gains(N, Mutate(N, w, d), 0, 0)
    BY <2>1, ShiftKeeps, Zenon
  <2>. QED
    BY <2>1, <2>2, Zenon DEF ReserveNative
<1>3. /\ LedgerOK(UnreserveNative(N, w, value), Locks)
      /\ Gains(N, UnreserveNative(N, w, value), 0, 0)
  <2>1. actual \in Int /\ c.free + actual >= 0 /\ c.reserved - actual >= 0
    BY <1>1 DEF AccountData
  <2>2. UnreserveNative(N, w, value) = Mutate(N, w, Moved(N.account[w], actual, -actual))
    BY Zenon DEF UnreserveNative
  <2> HIDE DEF actual
  <2>. QED
    BY <2>1, <2>2, ShiftKeeps, Zenon
<1>4. ASSUME c.reserved >= value
      PROVE  LET M == Mutate(N, w, Moved(N.account[w], value, -value))
             IN  LedgerOK(M, Locks) /\ Gains(N, M, 0, 0)
  <2>1. value \in Int /\ c.free + value >= 0 /\ c.reserved - value >= 0
    BY <1>1, <1>4 DEF AccountData
  <2>. QED
    BY <2>1, ShiftKeeps, Zenon
<1>. QED
  BY <1>2, <1>3, <1>4, Zenon

\* repatriate_reserved and transfer_held: the reserve of one account goes to
\* another.
LEMMA RepatriateKeeps ==
  ASSUME FiniteLaws, References, NEW N, LedgerOK(N, Locks), NEW from \in Holders, NEW to \in Holders,
         NEW value \in Nat, NEW status, NEW best_effort,
         CanRepatriateNative(N, from, to, value, best_effort),
         \/ value = 0 \/ from = to
         \/ CanMutate(N, from, Moved(N.account[from], 0, -Smaller(N.account[from].reserved, value)))
  PROVE  /\ LedgerOK(RepatriateNative(N, from, to, value, status), Locks)
         /\ \E b \in Nat : Gains(N, RepatriateNative(N, from, to, value, status), 0, b)
<1> DEFINE actual == Smaller(N.account[from].reserved, value)
           free   == IF status = "Free" THEN actual ELSE 0
           rest   == actual - free
           got    == Moved(N.account[to], free, rest)
           paid   == Moved(N.account[from], 0, -actual)
           after  == RepatriateNative(N, from, to, value, status)
<1>1. CASE value = 0 \/ from = to
  <2>1. after = N \/ after = UnreserveNative(N, from, value)
    BY <1>1, Zenon DEF RepatriateNative
  <2>2. LedgerOK(N, Locks) /\ Gains(N, N, 0, 0)
    BY GainsNothing, Zenon
  <2>3. /\ LedgerOK(UnreserveNative(N, from, value), Locks)
        /\ Gains(N, UnreserveNative(N, from, value), 0, 0)
    BY ReserveKeeps, Zenon
  <2> HIDE DEF after
  <2>4. LedgerOK(after, Locks) /\ Gains(N, after, 0, 0)
    BY <2>1, <2>2, <2>3, Zenon
  <2>. QED
    BY <2>4, Zenon DEF after
<1>2. CASE ~(value = 0 \/ from = to)
  <2>1. after = MutateBoth(N, to, got, from, paid)
    BY <1>2, Zenon DEF RepatriateNative
  <2>2. ~IsNew(N, to) /\ CanMutate(N, from, paid)
    BY <1>2, Zenon DEF CanRepatriateNative
  <2>3. /\ N.account[from] \in AccountData /\ N.account[to] \in AccountData
        /\ GoodAccount(N.account[to], Locks[to])
    BY Zenon DEF LedgerOK, Ledger
  <2>4. /\ actual \in Nat /\ actual <= N.account[from].reserved
        /\ free \in Nat /\ rest \in Nat /\ free + rest = actual
    BY <2>3 DEF AccountData, Smaller
  <2> HIDE DEF actual, free, rest
  <2>5. /\ N.account[from].free + 0 >= 0 /\ N.account[from].reserved + (-actual) >= 0
        /\ N.account[to].free + free >= 0 /\ N.account[to].reserved + rest >= 0
        /\ -actual \in Int
    BY <2>3, <2>4, SMTT(60) DEF AccountData
  <2>6. Total(got) \in Nat /\ Total(paid) \in Nat /\ Total(got) >= Total(N.account[to])
    BY <2>3, <2>4, <2>5, SMTT(60) DEF Total, Moved, AccountData
  <2>7. CanMutate(N, to, got)
    BY <2>2, <2>3, <2>6, BalancesAssumption DEF CanMutate, Dies, GoodAccount, IsNew, Total, AccountData
  <2>8. /\ paid \in AccountData
        /\ Total(paid) = Total(N.account[from]) + (0 + (-actual))
        /\ GoodAccount(Becomes(paid), Locks[from])
    BY <2>2, <2>5, MovedGood
  <2>9. /\ got \in AccountData
        /\ Total(got) = Total(N.account[to]) + (free + rest)
        /\ GoodAccount(Becomes(got), Locks[to])
    BY <2>4, <2>5, <2>7, MovedGood
  <2>10. Total(N.account[from]) \in Nat /\ Total(N.account[to]) \in Nat
    BY <2>3 DEF Total, AccountData
  <2> HIDE DEF paid, got, after
  <2>11. /\ LedgerOK(MutateBoth(N, to, got, from, paid), Locks)
         /\ \E b \in 0 .. (Dust(got) + Dust(paid)) :
              Gains(N, MutateBoth(N, to, got, from, paid),
                    (Total(got) - Total(N.account[to])) + (Total(paid) - Total(N.account[from])), b)
    BY <1>2, <2>8, <2>9, MutateBothKeeps, Zenon
  <2>12. (Total(got) - Total(N.account[to])) + (Total(paid) - Total(N.account[from])) = 0
    BY <2>4, <2>8, <2>9, <2>10
  <2>13. Dust(got) + Dust(paid) \in Nat
    BY <2>6 DEF Dust
  <2>14. LedgerOK(after, Locks) /\ \E b \in Nat : Gains(N, after, 0, b)
    BY <2>1, <2>11, <2>12, <2>13
  <2>. QED
    BY <2>14, Zenon DEF after
<1>. QED
  BY <1>1, <1>2, Zenon

\* A slash takes at most its value, from the free balance first.
LEMMA SlashedParts ==
  ASSUME NEW d \in AccountData, NEW value \in Nat
  PROVE  /\ \E x, y \in Nat :
              /\ x <= d.free /\ y <= d.reserved /\ x + y <= value
              /\ SlashedData(d, value) = Moved(d, -x, -y)
         /\ \E y \in Nat :
              /\ y <= d.reserved /\ y <= value
              /\ ReserveSlashedData(d, value) = Moved(d, 0, -y)
<1> DEFINE x == Smaller(d.free, value)
           y == Smaller(d.reserved, value - x)
           z == Smaller(d.reserved, value)
<1>1. /\ x \in Nat /\ y \in Nat /\ z \in Nat
      /\ x <= d.free /\ y <= d.reserved /\ x + y <= value
      /\ z <= d.reserved /\ z <= value
  BY DEF AccountData, Smaller
<1>2. SlashedData(d, value) = Moved(d, -x, -y) /\ ReserveSlashedData(d, value) = Moved(d, 0, -z)
  BY Zenon DEF SlashedData, ReserveSlashedData
<1> HIDE DEF x, y, z
<1>. QED
  BY <1>1, <1>2, Zenon

\* slash and slash_reserved: what a slash leaves of an account can be stored,
\* because a slash that frame_system would refuse leaves the deposit.
LEMMA SlashKeeps ==
  ASSUME FiniteLaws, References, NEW N, LedgerOK(N, Locks), NEW w \in Holders, NEW value \in Nat,
         NEW new \in {SlashTo(N, w, value), SlashReservedTo(N, w, value)}
  PROVE  /\ LedgerOK(Mutate(N, w, new), Locks)
         /\ Total(new) \in Nat /\ Total(new) <= Total(N.account[w])
         /\ \E b \in Nat : Gains(N, Mutate(N, w, new), Total(new) - Total(N.account[w]), b)
<1> DEFINE c == N.account[w]
           best == BestSlash(c, value)
<1>1. c \in AccountData /\ GoodAccount(c, Locks[w]) /\ Total(c) \in Nat
  BY DEF LedgerOK, Ledger, AccountData, Total
<1>2. best \in Nat /\ (~Dies(c) => best <= Total(c) - ExistentialDeposit)
  BY <1>1, BalancesAssumption DEF BestSlash, Smaller, Larger, Dies
<1>3. \E x, y \in Nat :
        /\ x <= c.free /\ y <= c.reserved
        /\ new = Moved(c, -x, -y)
        /\ CanMutate(N, w, new)
  <2>1. ASSUME NEW v \in Nat
        PROVE  /\ \E x, y \in Nat :
                    /\ x <= c.free /\ y <= c.reserved /\ x + y <= v
                    /\ SlashedData(c, v) = Moved(c, -x, -y)
               /\ \E x, y \in Nat :
                    /\ x <= c.free /\ y <= c.reserved /\ x + y <= v
                    /\ ReserveSlashedData(c, v) = Moved(c, -x, -y)
    <3>1. PICK y \in Nat : y <= c.reserved /\ y <= v /\ ReserveSlashedData(c, v) = Moved(c, 0, -y)
      BY <1>1, SlashedParts, ZenonT(60)
    <3>2. ReserveSlashedData(c, v) = Moved(c, -0, -y)
      BY <1>1, <3>1 DEF Moved, AccountData
    <3>3. 0 <= c.free /\ 0 + y <= v
      BY <1>1, <3>1 DEF AccountData
    <3>. QED
      BY <1>1, <3>1, <3>2, <3>3, SlashedParts, ZenonT(60)
  <2>2. ASSUME NEW x \in Nat, NEW y \in Nat, x + y <= best, x <= c.free, y <= c.reserved, ~IsNew(N, w)
        PROVE  CanMutate(N, w, Moved(c, -x, -y))
    <3>1. ~Dies(c)
      BY <1>1, <2>2, Zenon DEF GoodAccount, IsNew
    <3>2. Total(Moved(c, -x, -y)) = Total(c) - (x + y)
      BY <1>1 DEF Moved, Total, AccountData
    <3>. QED
      BY <1>1, <1>2, <2>2, <3>1, <3>2, BalancesAssumption DEF CanMutate, Dies
  <2>3. ASSUME NEW d, ~CanMutate(N, w, d)
        PROVE  ~IsNew(N, w)
    BY <2>3, Zenon DEF CanMutate
  <2>4. CASE new = SlashTo(N, w, value)
    <3>1. CASE CanMutate(N, w, SlashedData(c, value))
      <4>1. new = SlashedData(c, value)
        BY <2>4, <3>1, Zenon DEF SlashTo
      <4>. QED
        BY <2>1, <3>1, <4>1, Zenon
    <3>2. CASE ~CanMutate(N, w, SlashedData(c, value))
      <4>1. new = SlashedData(c, best)
        BY <2>4, <3>2, Zenon DEF SlashTo
      <4> HIDE DEF best
      <4>2. PICK x \in Nat, y \in Nat : /\ x <= c.free /\ y <= c.reserved /\ x + y <= best
                                        /\ SlashedData(c, best) = Moved(c, -x, -y)
        BY <1>2, <2>1, Zenon
      <4>. QED
        BY <2>2, <2>3, <3>2, <4>1, <4>2, Zenon
    <3>. QED
      BY <3>1, <3>2, Zenon
  <2>5. CASE new = SlashReservedTo(N, w, value)
    <3>1. CASE CanMutate(N, w, ReserveSlashedData(c, value))
      <4>1. new = ReserveSlashedData(c, value)
        BY <2>5, <3>1, Zenon DEF SlashReservedTo
      <4>. QED
        BY <2>1, <3>1, <4>1, ZenonT(60)
    <3>2. CASE ~CanMutate(N, w, ReserveSlashedData(c, value))
      <4>1. new = ReserveSlashedData(c, best)
        BY <2>5, <3>2, Zenon DEF SlashReservedTo
      <4> HIDE DEF best
      <4>2. PICK x \in Nat, y \in Nat : /\ x <= c.free /\ y <= c.reserved /\ x + y <= best
                                        /\ ReserveSlashedData(c, best) = Moved(c, -x, -y)
        BY <1>2, <2>1, Zenon
      <4>. QED
        BY <2>2, <2>3, <3>2, <4>1, <4>2
    <3>. QED
      BY <3>1, <3>2
  <2>. QED
    BY <2>4, <2>5, Zenon
<1>4. PICK x \in Nat, y \in Nat : /\ x <= c.free /\ y <= c.reserved
                                  /\ new = Moved(c, -x, -y)
                                  /\ CanMutate(N, w, new)
  BY <1>3, Zenon
<1>5. /\ -x \in Int /\ -y \in Int /\ N.account[w].free + (-x) >= 0
      /\ N.account[w].reserved + (-y) >= 0
      /\ CanMutate(N, w, Moved(N.account[w], -x, -y))
  BY <1>1, <1>4 DEF AccountData
<1>6. /\ LedgerOK(Mutate(N, w, new), Locks)
      /\ \E b \in 0 .. Dust(new) : Gains(N, Mutate(N, w, new), (-x) + (-y), b)
  BY <1>4, <1>5, MoveKeeps, Zenon
<1>7. new \in AccountData /\ Total(new) = Total(c) + ((-x) + (-y))
  BY <1>4, <1>5, MovedGood
<1>8. Total(new) \in Nat /\ Total(new) <= Total(c) /\ Total(new) - Total(c) = (-x) + (-y)
  BY <1>1, <1>4, <1>7 DEF Total, AccountData
<1>9. Dust(new) \in Nat
  BY <1>8, Zenon DEF Dust
<1>. QED
  BY <1>6, <1>8, <1>9

\* The same of a slash whose first attempt was refused, which has dropped what
\* it took.
LEMMA SlashAgainKeeps ==
  ASSUME FiniteLaws, References, LedgerOK(native, Locks), NEW w \in Holders, NEW value \in Nat,
         NEW new \in {SlashTo(native, w, value), SlashReservedTo(native, w, value)},
         NEW dropped \in Nat
  PROVE  LET after == Mutate(Burnt(native, dropped), w, new)
             d     == native.account[w]
         IN  /\ LedgerOK(after, Locks)
             /\ Total(new) \in Nat /\ Total(new) <= Total(d)
             /\ \E b \in Nat : Gains(native, after, dropped + (Total(new) - Total(d)), b)
<1> DEFINE N == Burnt(native, dropped)
           d == native.account[w]
<1>1. native \in Ledger /\ N.account = native.account
  BY Zenon DEF LedgerOK, Burnt
<1>2. LedgerOK(N, Locks) /\ Gains(native, N, dropped, dropped)
  BY <1>1, BurntKeeps, Zenon
<1> HIDE DEF N
<1>3. \A e : CanMutate(N, w, e) <=> CanMutate(native, w, e)
  BY <1>1, Zenon DEF CanMutate, IsNew
<1>4. SlashTo(N, w, value) = SlashTo(native, w, value)
  BY <1>1, <1>3, Zenon DEF SlashTo
<1>5. SlashReservedTo(N, w, value) = SlashReservedTo(native, w, value)
  BY <1>1, <1>3, Zenon DEF SlashReservedTo
<1>6. /\ LedgerOK(Mutate(N, w, new), Locks)
      /\ Total(new) \in Nat /\ Total(new) <= Total(d)
      /\ \E b \in Nat : Gains(N, Mutate(N, w, new), Total(new) - Total(d), b)
  BY <1>1, <1>2, <1>4, <1>5, SlashKeeps, Zenon
<1>7. Total(d) \in Nat
  BY <1>1 DEF Ledger, AccountData, Total
<1>8. PICK b \in Nat : Gains(N, Mutate(N, w, new), Total(new) - Total(d), b)
  BY <1>6, Zenon
<1>9. Total(new) - Total(d) \in Int /\ dropped \in Int /\ dropped + b \in Nat
  BY <1>6, <1>7
<1>10. Gains(native, Mutate(N, w, new), dropped + (Total(new) - Total(d)), dropped + b)
  BY <1>1, <1>2, <1>8, <1>9, GainsTwice, Zenon
<1>. QED
  BY <1>6, <1>9, <1>10, Zenon DEF N

-----------------------------------------------------------------------------
(* Changes of locks                                                        *)

\* The inductive invariant.
BalancesInv ==
  /\ LedgerOK(native, Locks)
  /\ References
  /\ native.issuance <= MaxSupply
  /\ debt \in Nat /\ credit \in Nat /\ lost \in Nat

\* update_locks: the frozen amounts, the locks and the reference change
\* together, if an account without funds has no locks to freeze.
LEMMA UpdateLocksKeeps ==
  ASSUME FiniteLaws, BalancesInv, NEW w \in Holders, NEW locks \in LocksOfAccount, UpdateLocks(w, locks),
         IsNew(native, w) => Frozen(locks, "Misc") = 0 /\ Frozen(locks, "Fee") = 0
  PROVE  /\ LedgerOK(native', Locks')
         /\ References'
         /\ Gains(native, native', 0, 0)
<1> DEFINE c == native.account[w]
           d == [free |-> c.free, reserved |-> c.reserved,
                 misc_frozen |-> Frozen(locks, "Misc"), fee_frozen |-> Frozen(locks, "Fee")]
<1>1. /\ c \in AccountData /\ GoodAccount(c, Locks[w]) /\ native \in Ledger
      /\ Locks \in [Holders -> LocksOfAccount]
  BY Zenon DEF BalancesInv, LedgerOK, Ledger, References
<1>2. Frozen(locks, "Misc") \in Nat /\ Frozen(locks, "Fee") \in Nat
  BY FrozenIsLargest, Zenon
<1>4. d \in AccountData /\ Total(d) = Total(c) /\ Total(c) \in Nat
  BY <1>1, <1>2 DEF AccountData, Total
<1>5. native' = Mutate(native, w, d) /\ Locks' = [Locks EXCEPT ![w] = locks]
  BY Zenon DEF UpdateLocks
<1>6. /\ Locks' \in [Holders -> LocksOfAccount] /\ Locks'[w] = locks
      /\ \A v \in Holders \ {w} : Locks'[v] = Locks[v]
  BY <1>1, <1>5, Zenon
<1>7. /\ d.misc_frozen = Frozen(locks, "Misc") /\ d.fee_frozen = Frozen(locks, "Fee")
  BY Zenon
<1> HIDE DEF d
<1>8. GoodAccount(Becomes(d), Locks'[w]) /\ Dust(d) = 0
  <2>1. CASE Dies(c)
    <3>1. c = Default /\ Dies(d)
      BY <2>1, <1>1, <1>4, Zenon DEF GoodAccount, Dies
    <3>2. Frozen(locks, "Misc") = 0 /\ Frozen(locks, "Fee") = 0
      BY <3>1, Zenon DEF IsNew
    <3>3. Becomes(d) = Default /\ Total(d) = 0
      BY <3>1, <1>4 DEF Becomes, Default, Total
    <3>. QED
      BY <3>1, <3>2, <3>3, <1>6 DEF GoodAccount, Default, Dust
  <2>2. CASE ~Dies(c)
    <3>1. ~Dies(d)
      BY <2>2, <1>4, Zenon DEF Dies
    <3>. QED
      BY <3>1, <1>6, <1>7, Zenon DEF GoodAccount, Becomes, Dust
  <2>. QED
    BY <2>1, <2>2, Zenon
<1>9. \A v \in Holders \ {w} : GoodAccount(native.account[v], Locks'[v])
  BY <1>6, Zenon DEF BalancesInv, LedgerOK
<1>10. /\ LedgerOK(native', Locks')
       /\ \E b \in 0 .. Dust(d) : Gains(native, native', Total(d) - Total(native.account[w]), b)
  BY <1>1, <1>4, <1>5, <1>8, <1>9, MutateKeeps, ZenonT(60)
<1>11. Gains(native, native', 0, 0)
  <2>1. Total(d) - Total(native.account[w]) = 0
    BY <1>4
  <2>2. \A b \in 0 .. 0 : b = 0
    OBVIOUS
  <2>. QED
    BY <1>8, <1>10, <2>1, <2>2, Zenon
<1>12. References'
  <2> DEFINE one(l) == IF HasLocks(l) THEN 1 ELSE 0
  <2>1. consumers = [v \in Holders |-> one(Locks[v])]
    BY Zenon DEF BalancesInv, References
  <2>2. consumers' = [consumers EXCEPT ![w] = @ + one(locks) - one(Locks[w])]
    BY Zenon DEF UpdateLocks
  <2>3. one(locks) \in {0, 1} /\ one(Locks[w]) \in {0, 1} /\ consumers[w] = one(Locks[w])
    BY <2>1, Zenon
  <2>4. consumers[w] + one(locks) - one(Locks[w]) = one(locks)
    BY <2>3
  <2> HIDE DEF one
  <2>5. consumers' = [v \in Holders |-> one(Locks'[v])]
    BY <2>1, <2>2, <2>4, <1>6, Zenon
  <2>. QED
    BY <1>6, <2>5, Zenon DEF References, one
<1>. QED
  BY <1>10, <1>11, <1>12, Zenon

\* set_lock, extend_lock and remove_lock.
LEMMA LocksKeep ==
  ASSUME FiniteLaws, BalancesInv, NEW id \in LockIds, NEW w \in Holders, NEW v \in Nat, NEW r \in Reasons,
         SetLock(id, w, v, r) \/ ExtendLock(id, w, v, r) \/ RemoveLock(id, w)
  PROVE  /\ LedgerOK(native', Locks')
         /\ References'
         /\ Gains(native, native', 0, 0)
         /\ UNCHANGED imbalances
<1>1. /\ Locks[w] \in LocksOfAccount /\ GoodAccount(native.account[w], Locks[w])
      /\ Locks[w][id] \in BalanceLock \union {NoLock}
  BY Zenon DEF BalancesInv, LedgerOK, References, LocksOfAccount
<1>2. ASSUME NEW locks \in LocksOfAccount, UpdateLocks(w, locks), native.account[w].free > 0
      PROVE  LedgerOK(native', Locks') /\ References' /\ Gains(native, native', 0, 0)
  <2>1. ~IsNew(native, w)
    BY <1>2 DEF IsNew, Default
  <2>. QED
    BY <1>2, <2>1, UpdateLocksKeeps
<1>3. CASE SetLock(id, w, v, r)
  <2> DEFINE locks == [Locks[w] EXCEPT ![id] = [amount |-> v, reasons |-> r]]
  <2>1. locks \in LocksOfAccount
    BY <1>1 DEF LocksOfAccount, BalanceLock
  <2>2. native.account[w].free > 0 /\ UpdateLocks(w, locks)
    BY <1>3 DEF SetLock, BalancesInv, LedgerOK, Ledger, AccountData
  <2>3. UNCHANGED imbalances
    BY <2>2, Zenon DEF UpdateLocks
  <2> HIDE DEF locks
  <2>. QED
    BY <1>2, <2>1, <2>2, <2>3, Zenon
<1>4. CASE ExtendLock(id, w, v, r)
  <2> DEFINE old == Locks[w][id]
             lock == IF old = NoLock
                     THEN [amount |-> v, reasons |-> r]
                     ELSE [amount  |-> Larger(old.amount, v),
                           reasons |-> LockReasons(old.reasons, r)]
             locks == [Locks[w] EXCEPT ![id] = lock]
  <2>1. lock \in BalanceLock
    BY <1>1, Zenon DEF BalanceLock, Larger, LockReasons, Reasons
  <2>2. v > 0 /\ v <= native.account[w].free /\ UpdateLocks(w, locks)
    BY <1>4, ZenonT(60) DEF ExtendLock
  <2>3. UNCHANGED imbalances
    BY <2>2, Zenon DEF UpdateLocks
  <2> HIDE DEF lock
  <2>4. locks \in LocksOfAccount
    BY <1>1, <2>1, Zenon DEF LocksOfAccount
  <2> HIDE DEF locks
  <2>5. native.account[w].free \in Nat
    BY Zenon DEF BalancesInv, LedgerOK, Ledger, AccountData
  <2>6. native.account[w].free > 0
    BY <2>2, <2>5
  <2>. QED
    BY <1>2, <2>2, <2>3, <2>4, <2>6, Zenon
<1>5. CASE RemoveLock(id, w)
  <2> DEFINE locks == [Locks[w] EXCEPT ![id] = NoLock]
  <2>1. locks \in LocksOfAccount
    BY <1>1, Zenon DEF LocksOfAccount
  <2>2. UpdateLocks(w, locks)
    BY <1>5, Zenon DEF RemoveLock
  <2>3. UNCHANGED imbalances
    BY <2>2, Zenon DEF UpdateLocks
  <2>4. ASSUME IsNew(native, w)
        PROVE  Frozen(locks, "Misc") = 0 /\ Frozen(locks, "Fee") = 0
    <3>1. Frozen(Locks[w], "Misc") = 0 /\ Frozen(Locks[w], "Fee") = 0
      BY <1>1, <2>4 DEF IsNew, GoodAccount, Default
    <3>. QED
      BY <1>1, <3>1, FrozenAfterRemoval, Zenon
  <2> HIDE DEF locks
  <2>. QED
    BY <2>1, <2>2, <2>3, <2>4, UpdateLocksKeeps, Zenon
<1>. QED
  BY <1>3, <1>4, <1>5, Zenon

-----------------------------------------------------------------------------
(* Calls that create and burn                                              *)

\* Dropping a positive imbalance, or the signed one of a balance that is set,
\* changes the issuance and no account.
LEMMA SquaredKeeps ==
  ASSUME FiniteLaws, NEW N, NEW L, LedgerOK(N, L)
  PROVE  /\ \A amount \in Nat :
              /\ LedgerOK(Issued(N, amount), L)
              /\ CirculatingIn(Issued(N, amount)) = CirculatingIn(N)
              /\ Issued(N, amount).issuance = Smaller(N.issuance + amount, MaxSupply)
              /\ Issued(N, amount).account = N.account
         /\ \A old, new \in Nat :
              /\ LedgerOK(Squared(N, old, new), L)
              /\ CirculatingIn(Squared(N, old, new)) = CirculatingIn(N)
              /\ Squared(N, old, new).account = N.account
              /\ Squared(N, old, new).issuance
                   = IF new >= old THEN Smaller(N.issuance + (new - old), MaxSupply)
                     ELSE Larger(N.issuance - (old - new), 0)
<1>0. N \in Ledger
  BY DEF LedgerOK
<1>1. ASSUME NEW amount \in Nat
      PROVE  /\ LedgerOK(Issued(N, amount), L)
             /\ CirculatingIn(Issued(N, amount)) = CirculatingIn(N)
             /\ Issued(N, amount).issuance = Smaller(N.issuance + amount, MaxSupply)
             /\ Issued(N, amount).account = N.account
  <2>1. /\ Issued(N, amount).issuance = Smaller(N.issuance + amount, MaxSupply)
        /\ Issued(N, amount).account = N.account
    BY Zenon DEF Issued
  <2>2. Issued(N, amount) \in Ledger
    BY <1>0, BalancesAssumption DEF Ledger, Issued, Smaller
  <2>3. CirculatingIn(Issued(N, amount)) = CirculatingIn(N)
    BY <2>1, Zenon DEF CirculatingIn
  <2>. QED
    BY <2>1, <2>2, <2>3, Zenon DEF LedgerOK
<1>2. ASSUME NEW old \in Nat, NEW new \in Nat
      PROVE  /\ LedgerOK(Squared(N, old, new), L)
             /\ CirculatingIn(Squared(N, old, new)) = CirculatingIn(N)
             /\ Squared(N, old, new).account = N.account
             /\ Squared(N, old, new).issuance
                  = IF new >= old THEN Smaller(N.issuance + (new - old), MaxSupply)
                    ELSE Larger(N.issuance - (old - new), 0)
  <2>1. CASE new >= old
    <3>1. new - old \in Nat /\ Squared(N, old, new) = Issued(N, new - old)
      BY <2>1 DEF Squared
    <3>. QED
      BY <1>1, <2>1, <3>1
  <2>2. CASE ~(new >= old)
    <3>1. old - new \in Nat /\ Squared(N, old, new) = Burnt(N, old - new)
      BY <2>2 DEF Squared
    <3>2. /\ LedgerOK(Burnt(N, old - new), L)
          /\ CirculatingIn(Burnt(N, old - new)) = CirculatingIn(N)
      BY <1>0, <3>1, BurntKeeps, Zenon
    <3>. QED
      BY <2>2, <3>1, <3>2 DEF Burnt
  <2>. QED
    BY <2>1, <2>2, Zenon
<1>. QED
  BY <1>1, <1>2, Zenon

\* What set_balance makes of `new`, one of its two balances: an account that
\* would have less than its deposit is to get nothing.
SetTo(new_free, new_reserved, new) ==
  IF new_free + new_reserved < ExistentialDeposit THEN 0 ELSE new

\* set_balance: whatever root sets, the ledger stays in order.  The two
\* imbalances go into the issuance one after the other; and the account gets
\* what they say or, if frame_system does not let go of it, keeps what it has.
LEMMA SetBalanceKeeps ==
  ASSUME FiniteLaws, BalancesInv, NEW w \in Holders, NEW new_free \in Nat, NEW new_reserved \in Nat,
         SetBalance(w, new_free, new_reserved)
  PROVE  LET d  == native.account[w]
             f  == SetTo(new_free, new_reserved, new_free)
             r  == SetTo(new_free, new_reserved, new_reserved)
             s1 == Squared(native, d.free, f)
             s2 == Squared(s1, d.reserved, r)
         IN  /\ LedgerOK(native', Locks)
             /\ native'.issuance <= MaxSupply
             /\ native'.issuance = s2.issuance
             /\ \/ /\ Circulating' = Circulating + (f - d.free) + (r - d.reserved)
                   /\ lost' = lost
                \/ /\ Circulating' = Circulating /\ f = 0 /\ r = 0
                   /\ lost' = lost + Total(d)
<1> DEFINE d       == native.account[w]
           wipeout == new_free + new_reserved < ExistentialDeposit
           f       == SetTo(new_free, new_reserved, new_free)
           r       == SetTo(new_free, new_reserved, new_reserved)
           x       == f - d.free
           y       == r - d.reserved
           new     == Moved(d, x, y)
           s1      == Squared(native, d.free, f)
           s2      == Squared(s1, d.reserved, r)
<1>1. d \in AccountData /\ LedgerOK(native, Locks) /\ References
  BY Zenon DEF BalancesInv, LedgerOK, Ledger
<1>2. /\ f \in Nat /\ r \in Nat /\ d.free \in Nat /\ d.reserved \in Nat
      /\ d.free + x = f /\ d.reserved + y = r /\ x \in Int /\ y \in Int
  BY <1>1 DEF AccountData, SetTo
<1>14. IF wipeout THEN f = 0 /\ r = 0 ELSE f = new_free /\ r = new_reserved
  BY Zenon DEF SetTo
<1>3. new = (IF wipeout THEN Moved(d, -d.free, -d.reserved)
             ELSE Moved(d, new_free - d.free, new_reserved - d.reserved))
  <2>1. wipeout => x = -d.free /\ y = -d.reserved
    BY <1>2, <1>14
  <2>. QED
    BY <1>14, <2>1, Zenon
<1>4. new.free = f /\ new.reserved = r
  BY <1>2, Zenon DEF Moved
<1>5. IF CanMutate(native, w, new)
      THEN native' = Mutate(s2, w, new) /\ lost' = lost
      ELSE native' = s2 /\ lost' = lost + Total(d)
  BY <1>3, <1>4, ZenonT(60) DEF SetBalance
<1>6. LedgerOK(s1, Locks) /\ s1.account = native.account /\ CirculatingIn(s1) = CirculatingIn(native)
  <2>1. d.free \in Nat /\ f \in Nat
    BY <1>2, Zenon
  <2> HIDE DEF d, f
  <2>. QED
    BY <1>1, <2>1, SquaredKeeps, ZenonT(60)
<1> HIDE DEF f, r, s1
<1>7. LedgerOK(s2, Locks) /\ s2.account = native.account /\ CirculatingIn(s2) = CirculatingIn(native)
  <2>1. LedgerOK(s2, Locks) /\ s2.account = s1.account /\ CirculatingIn(s2) = CirculatingIn(s1)
    <3>1. d.reserved \in Nat /\ r \in Nat
      BY <1>2, Zenon
    <3> HIDE DEF d
    <3>. QED
      BY <1>6, <3>1, SquaredKeeps, ZenonT(60)
  <2>. QED
    BY <1>6, <2>1, Zenon
<1>13. s2.issuance <= MaxSupply
  <2>1. s1.issuance \in Nat /\ s1.issuance <= MaxSupply
    <3>1. /\ d.free \in Nat /\ f \in Nat
          /\ native.issuance \in Nat /\ native.issuance <= MaxSupply
      BY <1>1, <1>2, Zenon DEF BalancesInv, LedgerOK, Ledger
    <3>2. s1.issuance = IF f >= d.free THEN Smaller(native.issuance + (f - d.free), MaxSupply)
                        ELSE Larger(native.issuance - (d.free - f), 0)
      BY <3>1, Zenon DEF s1, Squared, Issued, Burnt
    <3> HIDE DEF d
    <3>. QED
      BY <3>1, <3>2, BalancesAssumption DEF Smaller, Larger
  <2>2. s2.issuance = IF r >= d.reserved THEN Smaller(s1.issuance + (r - d.reserved), MaxSupply)
                      ELSE Larger(s1.issuance - (d.reserved - r), 0)
    <3>1. d.reserved \in Nat /\ r \in Nat
      BY <1>2
    <3> HIDE DEF d
    <3>. QED
      BY <1>6, <3>1, SquaredKeeps, ZenonT(60)
  <2>3. d.reserved \in Nat /\ r \in Nat
    BY <1>2
  <2> HIDE DEF d, s2
  <2>. QED
    BY <2>1, <2>2, <2>3, BalancesAssumption DEF Smaller, Larger
<1> HIDE DEF s2, x, y
<1>8. CanMutate(native, w, new) <=> CanMutate(s2, w, Moved(s2.account[w], x, y))
  BY <1>7, Zenon DEF CanMutate, IsNew
<1>9. s2.account[w].free + x >= 0 /\ s2.account[w].reserved + y >= 0
  BY <1>2, <1>7
<1>10. Moved(s2.account[w], x, y) = new
  BY <1>7, Zenon
<1> HIDE DEF new, d, wipeout
<1>11. CASE CanMutate(native, w, new)
  <2>1. /\ LedgerOK(Mutate(s2, w, new), Locks)
        /\ \E b \in 0 .. Dust(new) : Gains(s2, Mutate(s2, w, new), x + y, b)
    BY <1>1, <1>2, <1>7, <1>8, <1>9, <1>10, <1>11, MoveKeeps, ZenonT(60)
  <2>2. native' = Mutate(s2, w, new)
    BY <1>5, <1>11, Zenon
  <2>3. Dust(new) = 0
    <3>1. CASE wipeout
      BY <1>4, <1>14, <3>1 DEF Dust, Total
    <3>2. CASE ~wipeout
      BY <1>4, <1>14, <3>2, BalancesAssumption DEF Dust, Dies, Total, wipeout
    <3>. QED
      BY <3>1, <3>2, Zenon
  <2>4. Gains(s2, native', x + y, 0)
    <3>1. \A b \in 0 .. 0 : b = 0
      OBVIOUS
    <3>. QED
      BY <2>1, <2>2, <2>3, <3>1, Zenon
  <2>5. s2.issuance \in Nat /\ CirculatingIn(native) \in Nat
    BY <1>1, <1>7, CirculatingBounds, Zenon DEF LedgerOK, Ledger
  <2>6. /\ Circulating' = Circulating + (f - d.free) + (r - d.reserved)
        /\ native'.issuance = s2.issuance
    BY <1>2, <1>7, <2>4, <2>5 DEF Gains, Larger, Circulating, x, y
  <2>. QED
    BY <1>5, <1>11, <1>13, <2>1, <2>2, <2>6, Zenon DEF d, f, r, s1, s2
<1>12. CASE ~CanMutate(native, w, new)
  <2>1. native' = s2 /\ lost' = lost + Total(d)
    BY <1>5, <1>12, Zenon
  <2>2. Circulating' = Circulating
    BY <1>7, <2>1, Zenon DEF Circulating
  <2>3. wipeout
    <3>1. Dies(new)
      BY <1>12, Zenon DEF CanMutate
    <3>. QED
      BY <1>4, <1>14, <3>1, BalancesAssumption DEF Dies, Total, wipeout
  <2>. QED
    BY <1>7, <1>13, <1>14, <2>1, <2>2, <2>3, Zenon DEF d, f, r, s1, s2
<1>. QED
  BY <1>11, <1>12, Zenon

\* make_free_balance_be, with the signed imbalance dropped.
LEMMA MakeFreeBalanceBeKeeps ==
  ASSUME FiniteLaws, BalancesInv, NEW w \in Holders, NEW value \in Nat, MakeFreeBalanceBe(w, value),
         CanMutate(native, w, Moved(native.account[w], value - native.account[w].free, 0))
  PROVE  /\ LedgerOK(native', Locks) /\ lost' = lost
         /\ \E x \in Int, b \in Nat :
              /\ Circulating' = Circulating + x - b
              /\ IF x >= 0 THEN b = 0 /\ native'.issuance = Smaller(native.issuance + x, MaxSupply)
                 ELSE native'.issuance = Larger(native.issuance + x - b, 0)
<1> DEFINE d   == native.account[w]
           x   == value - d.free
           new == Moved(d, x, 0)
           set == Mutate(native, w, new)
<1>1. d \in AccountData /\ GoodAccount(d, Locks[w]) /\ LedgerOK(native, Locks) /\ References
  BY Zenon DEF BalancesInv, LedgerOK, Ledger
<1>2. x \in Int /\ d.free + x >= 0 /\ d.reserved + 0 >= 0 /\ d.free \in Nat
  BY <1>1 DEF AccountData
<1>3. /\ ~Dies(new) \/ ~IsNew(native, w)
      /\ CanMutate(native, w, new)
      /\ native' = Squared(set, d.free, value) /\ lost' = lost
  BY Zenon DEF MakeFreeBalanceBe
<1>4. LedgerOK(set, Locks) /\ \E b \in 0 .. Dust(new) : Gains(native, set, x + 0, b)
  BY <1>1, <1>2, <1>3, MoveKeeps, SMTT(60)
<1>5. Total(new) = Total(d) + x /\ Total(d) \in Nat /\ Total(new) \in Nat
  <2>1. new.free = d.free + x /\ new.reserved = d.reserved + 0 /\ d.reserved \in Nat
    BY <1>1, Zenon DEF Moved, AccountData
  <2> HIDE DEF new, x, d
  <2>. QED
    BY <1>2, <2>1 DEF Total
<1>6. x >= 0 => Dust(new) = 0
  BY <1>1, <1>2, <1>3, <1>5, BalancesAssumption DEF Dust, Dies, GoodAccount, IsNew
<1>7. Dust(new) \in Nat
  BY <1>5, Zenon DEF Dust
<1>8. PICK b \in 0 .. Dust(new) : Gains(native, set, x + 0, b)
  BY <1>4, Zenon
<1>9. native.issuance \in Nat /\ CirculatingIn(native) \in Nat
  BY <1>1, CirculatingBounds, Zenon DEF LedgerOK, Ledger
<1>10. value >= d.free <=> x >= 0
  BY <1>2
<1>11. value - d.free = x /\ d.free - value = -x
  BY <1>2
<1> HIDE DEF set, new, d, x
<1>12. /\ LedgerOK(native', Locks)
       /\ CirculatingIn(native') = CirculatingIn(set)
       /\ native'.issuance = IF value >= d.free THEN Smaller(set.issuance + (value - d.free), MaxSupply)
                             ELSE Larger(set.issuance - (d.free - value), 0)
  <2>1. LedgerOK(set, Locks) /\ d.free \in Nat /\ value \in Nat
    BY <1>2, <1>4, Zenon
  <2>2. /\ LedgerOK(Squared(set, d.free, value), Locks)
        /\ CirculatingIn(Squared(set, d.free, value)) = CirculatingIn(set)
        /\ Squared(set, d.free, value).issuance
             = IF value >= d.free THEN Smaller(set.issuance + (value - d.free), MaxSupply)
               ELSE Larger(set.issuance - (d.free - value), 0)
    BY <2>1, SquaredKeeps, ZenonT(60)
  <2>. QED
    BY <2>2, <1>3, Zenon
<1>13. CirculatingIn(set) = CirculatingIn(native) + x - b /\ set.issuance = Larger(native.issuance - b, 0)
  BY <1>2, <1>7, <1>8, <1>9 DEF Gains
<1>14. x >= 0 => b = 0
  BY <1>6, <1>8
<1>15. b \in Nat
  BY <1>7
<1>16. /\ Circulating' = Circulating + x - b
       /\ IF x >= 0 THEN b = 0 /\ native'.issuance = Smaller(native.issuance + x, MaxSupply)
          ELSE native'.issuance = Larger(native.issuance + x - b, 0)
  <2>1. Circulating' = Circulating + x - b
    BY <1>12, <1>13, Zenon DEF Circulating
  <2>2. CASE x >= 0
    BY <2>1, <2>2, <1>2, <1>9, <1>10, <1>11, <1>12, <1>13, <1>14 DEF Larger
  <2>3. CASE ~(x >= 0)
    BY <2>1, <2>3, <1>2, <1>9, <1>10, <1>11, <1>12, <1>13, <1>15 DEF Larger
  <2>. QED
    BY <2>2, <2>3, Zenon
<1>. QED
  BY <1>2, <1>3, <1>12, <1>15, <1>16, Zenon

\* mint_into.
LEMMA MintIntoKeeps ==
  ASSUME FiniteLaws, BalancesInv, NEW w \in Holders, NEW amount \in Nat, MintInto(w, amount)
  PROVE  /\ LedgerOK(native', Locks)
         /\ Circulating' = Circulating + amount
         /\ native'.issuance = native.issuance + amount
<1> DEFINE d   == native.account[w]
           new == Moved(d, amount, 0)
           set == Mutate(native, w, new)
<1>1. d \in AccountData /\ LedgerOK(native, Locks) /\ References
  BY Zenon DEF BalancesInv, LedgerOK, Ledger
<1>2. amount \in Int /\ d.free + amount >= 0 /\ d.reserved + 0 >= 0
  BY <1>1 DEF AccountData
<1>3. native' = Issued(set, amount) /\ CanDeposit(native, w, amount)
  BY Zenon DEF MintInto
<1>4. Total(new) = Total(d) + amount /\ Total(d) \in Nat
  BY <1>1 DEF Total, Moved, AccountData
<1>5. ~Dies(new) /\ native.issuance + amount <= MaxSupply
  BY <1>3, <1>4, BalancesAssumption DEF Dies, CanDeposit
<1>6. CanMutate(native, w, new) /\ Dust(new) = 0
  BY <1>5, Zenon DEF CanMutate, Dust
<1>7. LedgerOK(set, Locks) /\ \E b \in 0 .. Dust(new) : Gains(native, set, amount + 0, b)
  BY <1>1, <1>2, <1>6, MoveKeeps
<1> HIDE DEF set, new
<1>8. Gains(native, set, amount + 0, 0)
  <2>1. \A b \in 0 .. 0 : b = 0
    OBVIOUS
  <2>. QED
    BY <1>6, <1>7, <2>1, Zenon
<1>9. native.issuance \in Nat /\ CirculatingIn(native) \in Nat
  BY <1>1, CirculatingBounds, Zenon DEF LedgerOK, Ledger
<1>10. /\ LedgerOK(native', Locks)
       /\ CirculatingIn(native') = CirculatingIn(set)
       /\ native'.issuance = Smaller(set.issuance + amount, MaxSupply)
  BY <1>3, <1>7, SquaredKeeps, ZenonT(60)
<1>. QED
  BY <1>5, <1>8, <1>9, <1>10, BalancesAssumption DEF Gains, Larger, Smaller, Circulating

\* An unchecked subtraction that goes below zero comes out near the top.
LEMMA WrappedIs ==
  ASSUME NEW x \in Int
  PROVE  /\ Wrapped(x) \in Nat
         /\ x >= 0 => Wrapped(x) = x
         /\ x <= MaxSupply => Wrapped(x) <= MaxSupply
         /\ x < 0 /\ x >= -MaxSupply => Wrapped(x) = x + MaxSupply + 1
BY BalancesAssumption DEF Wrapped

\* What burn_from takes from the free balance: what would be dust, too.
Burns(d, amount) == amount + Dust(Moved(d, -amount, 0))

\* burn_from: the ledger stays in order even where a subtraction wraps, and one
\* does only if what is burnt is all that the account has.
LEMMA BurnFromKeeps ==
  ASSUME FiniteLaws, BalancesInv, NEW w \in Holders, NEW amount \in Nat, BurnFrom(w, amount)
  PROVE  LET d      == native.account[w]
             actual == Burns(d, amount)
             y      == Wrapped(d.free - actual) - d.free
         IN  /\ LedgerOK(native', Locks)
             /\ native'.issuance <= MaxSupply
             /\ actual \in Nat
             /\ actual > d.free => actual = Total(d)
             /\ native'.account = Mutate(native, w, Moved(d, y, 0)).account
             /\ \E b \in Nat :
                  /\ Circulating' = Circulating + y - b
                  /\ native'.issuance = Wrapped(Larger(native.issuance - b, 0) - actual)
<1> DEFINE d      == native.account[w]
           left   == Moved(d, -amount, 0)
           actual == Burns(d, amount)
           y      == Wrapped(d.free - actual) - d.free
           new    == Moved(d, y, 0)
           set    == Mutate(native, w, new)
<1>1. d \in AccountData /\ LedgerOK(native, Locks) /\ References
  BY DEF BalancesInv, LedgerOK, Ledger
<1>2. /\ native' = [account |-> set.account, issuance |-> Wrapped(set.issuance - actual)]
      /\ CanWithdraw(native, w, amount)
  BY Zenon DEF BurnFrom, Burns
<1>3. left.free >= 0 /\ left.free = d.free - amount /\ left.reserved = d.reserved
  <2>1. left.free = d.free - amount /\ left.reserved = d.reserved
    BY <1>1 DEF AccountData, Moved
  <2>2. FrozenFor(d, "All") = Larger(d.misc_frozen, d.fee_frozen)
    BY Zenon DEF FrozenFor
  <2>3. FrozenFor(d, "All") >= 0 /\ FrozenFor(d, "All") \in Nat
    BY <1>1, <2>2 DEF Larger, AccountData
  <2>4. left.free >= FrozenFor(d, "All")
    BY <1>2, Zenon DEF CanWithdraw
  <2>. QED
    BY <1>1, <2>1, <2>3, <2>4 DEF AccountData
<1>4. Total(left) = Total(d) - amount /\ Total(left) \in Nat /\ Total(d) \in Nat
  BY <1>1, <1>3 DEF AccountData, Total
<1>5. actual \in Nat /\ (actual > d.free => actual = Total(d))
  <2>1. CASE Dies(left)
    BY <1>4, <2>1 DEF Burns, Dust
  <2>2. CASE ~Dies(left)
    BY <1>1, <1>3, <2>2 DEF Burns, Dust, AccountData
  <2>. QED
    BY <2>1, <2>2, Zenon
<1>6. d.free \in Nat /\ y \in Int /\ d.free + y >= 0 /\ d.reserved + 0 >= 0
  BY <1>1, <1>5, WrappedIs DEF AccountData
<1>7. CanMutate(native, w, new)
  <2>1. CASE Dies(left)
    BY <2>1, <1>2, Zenon DEF CanWithdraw, CanMutate
  <2>2. CASE ~Dies(left)
    <3>1. actual = amount
      BY <2>2 DEF Burns, Dust
    <3>2. y = -amount
      BY <1>3, <1>6, <3>1, WrappedIs, SMTT(60)
    <3>. QED
      BY <2>2, <3>2, Zenon DEF CanMutate
  <2>. QED
    BY <2>1, <2>2, Zenon
<1> HIDE DEF actual, left, y
<1>8. LedgerOK(set, Locks) /\ \E b \in 0 .. Dust(new) : Gains(native, set, y + 0, b)
  <2>1. 0 \in Int
    OBVIOUS
  <2>. QED
    BY <1>1, <1>6, <1>7, <2>1, MoveKeeps, Zenon
<1>9. Dust(new) \in Nat
  BY <1>1, <1>6 DEF Dust, Total, Moved, AccountData
<1> HIDE DEF set, new
<1>10. PICK b \in 0 .. Dust(new) : Gains(native, set, y + 0, b)
  BY <1>8, Zenon
<1>11. /\ native.issuance \in Nat /\ CirculatingIn(native) \in Nat
       /\ native.issuance <= MaxSupply /\ MaxSupply \in Nat
  BY <1>1, BalancesAssumption, CirculatingBounds, Zenon DEF BalancesInv, LedgerOK, Ledger
<1>12. /\ b \in Nat /\ CirculatingIn(set) = CirculatingIn(native) + y - b
       /\ set.issuance = Larger(native.issuance - b, 0)
       /\ set.issuance \in Nat /\ set.issuance <= MaxSupply
  BY <1>6, <1>9, <1>10, <1>11 DEF Gains, Larger
<1>13. Wrapped(set.issuance - actual) \in Nat /\ Wrapped(set.issuance - actual) <= MaxSupply
  BY <1>5, <1>11, <1>12, WrappedIs
<1>14. native'.account = set.account /\ native'.issuance = Wrapped(set.issuance - actual)
  BY <1>2, Zenon
<1>15. LedgerOK(native', Locks)
  <2>1. native' \in Ledger
    BY <1>2, <1>8, <1>13, Zenon DEF LedgerOK, Ledger
  <2>. QED
    BY <1>8, <1>14, <2>1, Zenon DEF LedgerOK
<1>16. Circulating' = Circulating + y - b
  BY <1>12, <1>14, Zenon DEF Circulating, CirculatingIn
<1>. QED
  BY <1>5, <1>12, <1>13, <1>14, <1>15, <1>16, Zenon DEF set, new, y, actual

-----------------------------------------------------------------------------
(* Steps                                                                   *)

\* What accounts have and the issuance does not count: the positive imbalances
\* that pallets hold, and what refusals have taken from it.
Uncounted == credit + lost

\* Funds move between accounts and the imbalances that pallets hold, or are
\* dropped together with the issuance.
Moves ==
  \E x \in Int, b \in Nat :
    /\ Gains(native, native', x, b)
    /\ x + (debt' - debt) = Uncounted' - Uncounted

\* Funds are issued to accounts or to pallets, or a positive imbalance is.
Issues ==
  \E x \in Int, n \in Nat :
    /\ Circulating' = Circulating + x
    /\ native'.issuance = Smaller(native.issuance + n, MaxSupply)
    /\ x + (debt' - debt) = n + (Uncounted' - Uncounted)

Sets == \E w \in Holders, b \in RootBalances : SetBalance(w, b[1], b[2])

\* burn_from, whose subtractions wrap.
Subtracts == \E w \in Holders, v \in Amounts : BurnFrom(w, v)

\* Every call of the balances pallet keeps the ledger, its locks and the
\* references in order, and is one of four kinds.
LEMMA BalancesStep ==
  ASSUME FiniteLaws, BalancesInv, BalancesNext
  PROVE  BalancesInv' /\ (Moves \/ Issues \/ Sets \/ Subtracts)
<1> DEFINE Goal == BalancesInv' /\ (Moves \/ Issues \/ Sets \/ Subtracts)
<1>0. /\ LedgerOK(native, Locks) /\ References
      /\ debt \in Nat /\ credit \in Nat /\ lost \in Nat
      /\ native.issuance \in Nat /\ native.issuance <= MaxSupply /\ MaxSupply \in Nat
      /\ CirculatingIn(native) \in Nat
  BY BalancesAssumption, CirculatingBounds, Zenon DEF BalancesInv, LedgerOK, Ledger
<1>1. ASSUME LedgerOK(native', Locks), UNCHANGED <<Locks, consumers>>,
             debt' \in Nat, credit' \in Nat, lost' \in Nat, Moves \/ Issues
      PROVE  Goal
  <2>1. native'.issuance <= MaxSupply
    <3>1. CASE Moves
      BY <1>0, <3>1 DEF Moves, Gains, Larger
    <3>2. CASE Issues
      BY <1>0, <3>2 DEF Issues, Smaller
    <3>. QED
      BY <1>1, <3>1, <3>2, Zenon
  <2>2. References'
    BY <1>0, <1>1, Zenon DEF References
  <2>3. BalancesInv'
    BY <1>1, <2>1, <2>2, Zenon DEF BalancesInv
  <2>. QED
    BY <1>1, <2>3, Zenon
<1>2. ASSUME LedgerOK(native', Locks), UNCHANGED <<Locks, consumers, debt, credit, lost>>,
             \E b \in Nat : Gains(native, native', 0, b)
      PROVE  Goal
  <2>1. 0 + (debt' - debt) = Uncounted' - Uncounted
    BY <1>0, <1>2 DEF Uncounted
  <2>2. Moves
    BY <1>2, <2>1 DEF Moves
  <2>. QED
    BY <1>0, <1>1, <1>2, <2>2, Zenon
<1>15. ASSUME NEW n \in Nat, Refused(n), UNCHANGED <<Locks, consumers, debt, credit>>
       PROVE  Goal
  <2>1. native' = Burnt(native, n) /\ lost' = lost + n
    BY <1>15, Zenon DEF Refused
  <2>2. LedgerOK(native', Locks) /\ Gains(native, native', n, n)
    BY <1>0, <2>1, BurntKeeps DEF LedgerOK
  <2>3. n \in Int /\ lost' \in Nat /\ n + (debt' - debt) = Uncounted' - Uncounted
    BY <1>0, <1>15, <2>1 DEF Uncounted
  <2>4. Moves
    BY <2>2, <2>3, Zenon DEF Moves
  <2>. QED
    BY <1>0, <1>1, <1>15, <2>2, <2>3, <2>4, Zenon
<1>3. ASSUME NEW w \in Holders, NEW b \in RootBalances, SetBalance(w, b[1], b[2])
      PROVE  Goal
  <2>1. b[1] \in Nat /\ b[2] \in Nat
    BY BalancesAssumption, Zenon
  <2>2. LedgerOK(native', Locks) /\ native'.issuance <= MaxSupply
    BY <1>3, <2>1, SetBalanceKeeps, Zenon
  <2>3. UNCHANGED <<Locks, consumers, debt, credit>>
    BY <1>3 DEF SetBalance
  <2>5. lost' = lost \/ lost' = lost + Total(native.account[w])
    BY <1>3, <2>1, SetBalanceKeeps, Zenon
  <2>6. lost' \in Nat
    BY <1>0, <2>5 DEF LedgerOK, Ledger, AccountData, Total
  <2>4. BalancesInv'
    BY <1>0, <2>2, <2>3, <2>6, Zenon DEF References, BalancesInv
  <2>. QED
    BY <1>3, <2>4, Zenon DEF Sets
<1>4. ASSUME NEW from \in Holders, NEW to \in Holders, NEW v \in Amounts, NEW k \in BOOLEAN,
             TransferBetween(from, to, v, k)
      PROVE  Goal
  <2>1. LedgerOK(native', Locks) /\ \E b \in Nat : Gains(native, native', 0, b)
    BY <1>0, <1>4, TransferKeeps, BalancesAssumption, Zenon DEF TransferBetween
  <2>2. UNCHANGED <<Locks, consumers, debt, credit, lost>>
    BY <1>4, Zenon DEF TransferBetween, imbalances
  <2>. QED
    BY <1>2, <2>1, <2>2, Zenon
<1>5. ASSUME NEW w \in Holders, NEW v \in Amounts,
             \/ WithdrawFrom(w, v) \/ SlashAccount(w, v) \/ SlashReserve(w, v)
             \/ ReserveFor(w, v) \/ UnreserveFor(w, v)
             \/ Reward(w, v) \/ MakeFreeBalanceBe(w, v)
             \/ MintInto(w, v) \/ BurnFrom(w, v) \/ Release(w, v)
      PROVE  Goal
  <2>0. v \in Nat /\ Total(native.account[w]) \in Nat
    BY <1>0, BalancesAssumption DEF LedgerOK, Ledger, AccountData, Total
  <2>1. ASSUME NEW new \in {SlashTo(native, w, v), SlashReservedTo(native, w, v)}, NEW first,
               Slashed(w, first, new)
        PROVE  Goal
    <3> DEFINE d       == native.account[w]
               dropped == IF CanMutate(native, w, first) THEN 0 ELSE Total(d)
    <3>1. /\ native' = Mutate(Burnt(native, dropped), w, new)
          /\ debt' = debt + Total(d) - Total(new)
          /\ lost' = lost + dropped
          /\ UNCHANGED <<Locks, consumers, credit>>
      BY <2>1, Zenon DEF Slashed
    <3>2. dropped \in Nat
      BY <2>0
    <3> HIDE DEF dropped
    <3>3. /\ LedgerOK(native', Locks)
          /\ Total(new) \in Nat /\ Total(new) <= Total(d)
          /\ \E b \in Nat : Gains(native, native', dropped + (Total(new) - Total(d)), b)
      BY <1>0, <2>0, <3>1, <3>2, SlashAgainKeeps, Zenon
    <3>4. /\ debt' \in Nat /\ lost' \in Nat /\ dropped + (Total(new) - Total(d)) \in Int
          /\ (dropped + (Total(new) - Total(d))) + (debt' - debt) = Uncounted' - Uncounted
      BY <1>0, <2>0, <3>1, <3>2, <3>3 DEF Uncounted
    <3>5. Moves
      BY <3>3, <3>4, Zenon DEF Moves
    <3>. QED
      BY <1>0, <1>1, <3>1, <3>3, <3>4, <3>5, Zenon
  <2>2. CASE SlashAccount(w, v)
    BY <2>1, <2>2, Zenon DEF SlashAccount
  <2>3. CASE SlashReserve(w, v)
    BY <2>1, <2>3, Zenon DEF SlashReserve
  <2>11. CASE WithdrawFrom(w, v)
    <3> DEFINE left == Moved(native.account[w], -v, 0)
    <3>1. /\ left.free >= 0 /\ UNCHANGED <<Locks, consumers, credit>>
          /\ IF CanMutate(native, w, left)
             THEN native' = Mutate(native, w, left) /\ debt' = debt + v /\ lost' = lost
             ELSE Refused(Total(native.account[w])) /\ debt' = debt
      BY <2>11, Zenon DEF WithdrawFrom
    <3>2. CASE CanMutate(native, w, left)
      <4>1. native.account[w] \in AccountData /\ -v \in Int
        BY <1>0, <2>0 DEF LedgerOK, Ledger
      <4>2. native.account[w].free + (-v) >= 0 /\ native.account[w].reserved + 0 >= 0
        <5>1. left.free = native.account[w].free + (-v) /\ native.account[w].reserved \in Nat
          BY <4>1, Zenon DEF AccountData, Moved
        <5> HIDE DEF left
        <5>. QED
          BY <3>1, <5>1
      <4>3. /\ LedgerOK(Mutate(native, w, left), Locks)
            /\ \E b \in 0 .. Dust(left) : Gains(native, Mutate(native, w, left), (-v) + 0, b)
        <5>1. 0 \in Int
          OBVIOUS
        <5>. QED
          BY <1>0, <3>2, <4>1, <4>2, <5>1, MoveKeeps, Zenon
      <4>4. Dust(left) \in Nat
        BY <2>0, <4>1, <4>2 DEF Dust, Total, Moved, AccountData
      <4> HIDE DEF left
      <4>5. /\ debt' \in Nat /\ (-v) + 0 \in Int
            /\ ((-v) + 0) + (debt' - debt) = Uncounted' - Uncounted
        BY <1>0, <2>0, <3>1, <3>2 DEF Uncounted
      <4>6. \A b \in 0 .. Dust(left) : b \in Nat
        BY <4>4
      <4>7. Moves
        BY <3>1, <3>2, <4>3, <4>5, <4>6, Zenon DEF Moves
      <4>. QED
        BY <1>0, <1>1, <3>1, <3>2, <4>3, <4>5, <4>7, Zenon
    <3>3. CASE ~CanMutate(native, w, left)
      BY <1>15, <2>0, <3>1, <3>3, Zenon
    <3>. QED
      BY <3>2, <3>3, Zenon
  <2>4. CASE ReserveFor(w, v)
    <3>1. LedgerOK(native', Locks) /\ Gains(native, native', 0, 0)
      BY <1>0, <2>0, <2>4, ReserveKeeps, Zenon DEF ReserveFor
    <3>. QED
      BY <1>2, <2>4, <3>1, Zenon DEF ReserveFor, imbalances
  <2>5. CASE UnreserveFor(w, v)
    <3>1. LedgerOK(native', Locks) /\ Gains(native, native', 0, 0)
      BY <1>0, <2>0, <2>5, ReserveKeeps, Zenon DEF UnreserveFor
    <3>. QED
      BY <1>2, <2>5, <3>1, Zenon DEF UnreserveFor, imbalances
  <2>6. CASE Reward(w, v)
    <3>1. LedgerOK(native', Locks) /\ Gains(native, native', v, 0)
      BY <1>0, <2>0, <2>6, CreditKeeps, ZenonT(60) DEF Reward, CanDepositCreating
    <3>2. UNCHANGED <<Locks, consumers, debt, lost>> /\ credit' = credit + v
      BY <2>6, Zenon DEF Reward
    <3>3. v + (debt' - debt) = Uncounted' - Uncounted /\ v \in Int /\ credit' \in Nat
      BY <1>0, <2>0, <3>2 DEF Uncounted
    <3>4. Moves
      BY <3>1, <3>3, Zenon DEF Moves
    <3>. QED
      BY <1>0, <1>1, <3>1, <3>2, <3>3, <3>4, Zenon
  <2>7. CASE MakeFreeBalanceBe(w, v)
    <3> DEFINE new == Moved(native.account[w], v - native.account[w].free, 0)
    <3>1. UNCHANGED <<Locks, consumers, debt, credit>>
      BY <2>7, Zenon DEF MakeFreeBalanceBe
    <3>2. CASE CanMutate(native, w, new)
      <4>1. LedgerOK(native', Locks) /\ lost' = lost
        BY <2>0, <2>7, <3>2, MakeFreeBalanceBeKeeps, Zenon
      <4>2. PICK x \in Int, b \in Nat :
              /\ Circulating' = Circulating + x - b
              /\ IF x >= 0
                 THEN b = 0 /\ native'.issuance = Smaller(native.issuance + x, MaxSupply)
                 ELSE native'.issuance = Larger(native.issuance + x - b, 0)
        BY <2>0, <2>7, <3>2, MakeFreeBalanceBeKeeps, Zenon
      <4>3. CASE x >= 0
        <5>1. /\ Circulating' = Circulating + x /\ x \in Nat
              /\ native'.issuance = Smaller(native.issuance + x, MaxSupply)
              /\ x + (debt' - debt) = x + (Uncounted' - Uncounted)
          BY <1>0, <3>1, <4>1, <4>2, <4>3 DEF Circulating, Uncounted
        <5>2. Issues
          BY <5>1, Zenon DEF Issues
        <5>. QED
          BY <1>0, <1>1, <3>1, <4>1, <5>2, Zenon
      <4>4. CASE ~(x >= 0)
        <5>1. b - x \in Nat /\ Gains(native, native', 0, b - x)
          BY <1>0, <4>2, <4>4 DEF Gains, Larger, Circulating
        <5>. QED
          BY <1>2, <3>1, <4>1, <5>1, Zenon
      <4>. QED
        BY <4>3, <4>4, Zenon
    <3>3. CASE ~CanMutate(native, w, new)
      <4>1. Refused(Total(native.account[w]))
        BY <2>7, <3>3, Zenon DEF MakeFreeBalanceBe
      <4>. QED
        BY <1>15, <2>0, <3>1, <4>1, Zenon
    <3>. QED
      BY <3>2, <3>3, Zenon
  <2>8. CASE MintInto(w, v)
    <3>1. /\ LedgerOK(native', Locks) /\ Circulating' = Circulating + v
          /\ native'.issuance = native.issuance + v
      BY <2>0, <2>8, MintIntoKeeps, Zenon
    <3>2. native.issuance + v <= MaxSupply /\ UNCHANGED <<Locks, consumers, debt, credit, lost>>
      BY <2>8, Zenon DEF MintInto, CanDeposit, imbalances
    <3>3. /\ native'.issuance = Smaller(native.issuance + v, MaxSupply) /\ v \in Int
          /\ v + (debt' - debt) = v + (Uncounted' - Uncounted)
      BY <1>0, <2>0, <3>1, <3>2 DEF Smaller, Uncounted
    <3>4. Issues
      BY <2>0, <3>1, <3>3, Zenon DEF Issues
    <3>. QED
      BY <1>0, <1>1, <3>1, <3>2, <3>4, Zenon
  <2>9. CASE BurnFrom(w, v)
    <3>1. LedgerOK(native', Locks) /\ native'.issuance <= MaxSupply
      BY <2>0, <2>9, BurnFromKeeps, Zenon
    <3>2. UNCHANGED <<Locks, consumers, debt, credit, lost>>
      BY <2>9, Zenon DEF BurnFrom, imbalances
    <3>3. BalancesInv'
      BY <1>0, <3>1, <3>2, Zenon DEF References, BalancesInv
    <3>. QED
      BY <2>9, <3>3, Zenon DEF Subtracts
  <2>10. CASE Release(w, v)
    <3>1. LedgerOK(native', Locks) /\ Gains(native, native', 0, 0)
      BY <1>0, <2>0, <2>10, ReserveKeeps DEF Release
    <3>. QED
      BY <1>2, <2>10, <3>1, Zenon DEF Release, imbalances
  <2> HIDE DEF Goal
  <2>. QED
    BY <1>5, <2>2, <2>3, <2>4, <2>5, <2>6, <2>7, <2>8, <2>9, <2>10, <2>11, Zenon
<1>6. ASSUME NEW from \in Holders, NEW to \in Holders, NEW v \in Amounts,
             NEW s \in {"Free", "Reserved"}, NEW e \in BOOLEAN, Repatriate(from, to, v, s, e)
      PROVE  Goal
  <2> DEFINE left == Moved(native.account[from], 0, -Smaller(native.account[from].reserved, v))
             Goes == v = 0 \/ from = to \/ CanMutate(native, from, left)
  <2>1. /\ CanRepatriateNative(native, from, to, v, e)
        /\ IF Goes THEN native' = RepatriateNative(native, from, to, v, s) /\ lost' = lost
           ELSE Refused(Total(left))
        /\ UNCHANGED <<Locks, consumers, debt, credit>>
    BY <1>6, Zenon DEF Repatriate
  <2>2. CASE Goes
    <3>1. LedgerOK(native', Locks) /\ \E b \in Nat : Gains(native, native', 0, b)
      <4>1. v \in Nat
        BY BalancesAssumption, Zenon
      <4>2. /\ LedgerOK(RepatriateNative(native, from, to, v, s), Locks)
            /\ \E b \in Nat : Gains(native, RepatriateNative(native, from, to, v, s), 0, b)
        BY <1>0, <2>1, <2>2, <4>1, RepatriateKeeps, ZenonT(60)
      <4>. QED
        BY <2>1, <2>2, <4>2, Zenon
    <3>. QED
      BY <1>2, <2>1, <2>2, <3>1, Zenon
  <2>3. CASE ~Goes
    <3>1. Total(left) \in Nat
      BY <1>0, BalancesAssumption DEF LedgerOK, Ledger, AccountData, Total, Moved, Smaller
    <3>. QED
      BY <1>15, <2>1, <2>3, <3>1, Zenon
  <2>. QED
    BY <2>2, <2>3, Zenon
<1>7. ASSUME NEW id \in LockIds, NEW w \in Holders, NEW v \in Nat, NEW r \in Reasons,
             SetLock(id, w, v, r) \/ ExtendLock(id, w, v, r) \/ RemoveLock(id, w)
      PROVE  Goal
  <2>1. LedgerOK(native', Locks') /\ References' /\ Gains(native, native', 0, 0) /\ UNCHANGED imbalances
    BY <1>7, LocksKeep, Zenon
  <2>2. native'.issuance <= MaxSupply
    BY <1>0, <2>1 DEF Gains, Larger
  <2>3. 0 + (debt' - debt) = Uncounted' - Uncounted
    BY <1>0, <2>1 DEF imbalances, Uncounted
  <2>4. Moves
    BY <2>1, <2>3 DEF Moves
  <2>. QED
    BY <1>0, <2>1, <2>2, <2>4, Zenon DEF imbalances, BalancesInv
<1>8. ASSUME NEW id \in LockIds, NEW w \in Holders, RemoveLock(id, w)
      PROVE  Goal
  <2>1. 0 \in Nat /\ "All" \in Reasons
    BY Zenon DEF Reasons
  <2>. QED
    BY <1>7, <1>8, <2>1, Zenon
<1>9. ASSUME NEW v \in Amounts, Issue(v)
      PROVE  Goal
  <2> DEFINE issued == Smaller(v, MaxSupply - native.issuance)
  <2>1. issued \in Nat
    BY <1>0, BalancesAssumption DEF Smaller
  <2>2. /\ native' = Issued(native, issued) /\ debt' = debt + issued
        /\ UNCHANGED <<Locks, consumers, credit, lost>>
    BY <1>9, Zenon DEF Issue
  <2> HIDE DEF issued
  <2>3. /\ LedgerOK(native', Locks) /\ CirculatingIn(native') = CirculatingIn(native)
        /\ native'.issuance = Smaller(native.issuance + issued, MaxSupply)
    BY <1>0, <2>1, <2>2, SquaredKeeps, ZenonT(60)
  <2>4. /\ Circulating' = Circulating + 0 /\ debt' \in Nat
        /\ 0 + (debt' - debt) = issued + (Uncounted' - Uncounted)
    BY <1>0, <2>1, <2>2, <2>3 DEF Circulating, Uncounted
  <2>5. Issues
    BY <2>1, <2>3, <2>4 DEF Issues
  <2>. QED
    BY <1>0, <1>1, <2>2, <2>3, <2>4, <2>5, Zenon
<1>10. ASSUME NEW v \in Amounts, Burn(v)
       PROVE  Goal
  <2> DEFINE burnt == Smaller(v, native.issuance)
  <2>1. burnt \in Nat
    BY <1>0, BalancesAssumption, Zenon DEF Smaller
  <2>2. /\ native' = Burnt(native, burnt) /\ credit' = credit + burnt
        /\ UNCHANGED <<Locks, consumers, debt, lost>>
    BY <1>10, Zenon DEF Burn
  <2> HIDE DEF burnt
  <2>3. LedgerOK(native', Locks) /\ Gains(native, native', burnt, burnt)
    BY <1>0, <2>1, <2>2, BurntKeeps DEF LedgerOK
  <2>4. burnt \in Int /\ credit' \in Nat /\ burnt + (debt' - debt) = Uncounted' - Uncounted
    BY <1>0, <2>1, <2>2 DEF Uncounted
  <2>5. Moves
    BY <2>1, <2>3, <2>4, Zenon DEF Moves
  <2>. QED
    BY <1>0, <1>1, <2>2, <2>3, <2>4, <2>5, Zenon
<1>11. ASSUME NEW w \in Holders, ResolveCreating(w) \/ Settle(w)
       PROVE  Goal
  <2>1. CASE ResolveCreating(w)
    <3>1. LedgerOK(native', Locks) /\ Gains(native, native', debt, 0)
      BY <1>0, <2>1, CreditKeeps, ZenonT(60) DEF ResolveCreating, CanDepositCreating
    <3>2. UNCHANGED <<Locks, consumers, credit, lost>> /\ debt' = 0
      BY <2>1, Zenon DEF ResolveCreating
    <3>3. debt \in Int /\ debt + (debt' - debt) = Uncounted' - Uncounted
      BY <1>0, <3>2 DEF Uncounted
    <3>4. Moves
      BY <3>1, <3>3, Zenon DEF Moves
    <3>. QED
      BY <1>0, <1>1, <3>1, <3>2, <3>4, Zenon
  <2>2. CASE Settle(w)
    <3>1. LedgerOK(native', Locks) /\ \E b \in Nat : Gains(native, native', -credit, b)
      BY <1>0, <2>2, WithdrawKeeps, Zenon DEF Settle
    <3>2. UNCHANGED <<Locks, consumers, debt, lost>> /\ credit' = 0
      BY <2>2, Zenon DEF Settle
    <3>3. -credit \in Int /\ -credit + (debt' - debt) = Uncounted' - Uncounted
      BY <1>0, <3>2 DEF Uncounted
    <3>4. Moves
      BY <3>1, <3>3, Zenon DEF Moves
    <3>. QED
      BY <1>0, <1>1, <3>1, <3>2, <3>4, Zenon
  <2>. QED
    BY <1>11, <2>1, <2>2, Zenon
<1>12. ASSUME DropNegative \/ DropPositive \/ Offset
       PROVE  Goal
  <2>1. CASE DropNegative
    <3>1. LedgerOK(native', Locks) /\ Gains(native, native', debt, debt)
      BY <1>0, <2>1, BurntKeeps, Zenon DEF DropNegative, LedgerOK
    <3>2. UNCHANGED <<Locks, consumers, credit, lost>> /\ debt' = 0
      BY <2>1, Zenon DEF DropNegative
    <3>3. debt \in Int /\ debt + (debt' - debt) = Uncounted' - Uncounted
      BY <1>0, <3>2 DEF Uncounted
    <3>4. Moves
      BY <1>0, <3>1, <3>3, Zenon DEF Moves
    <3>. QED
      BY <1>0, <1>1, <3>1, <3>2, <3>4, Zenon
  <2>2. CASE DropPositive
    <3>1. /\ LedgerOK(native', Locks) /\ CirculatingIn(native') = CirculatingIn(native)
          /\ native'.issuance = Smaller(native.issuance + credit, MaxSupply)
      BY <1>0, <2>2, SquaredKeeps, ZenonT(60) DEF DropPositive
    <3>2. UNCHANGED <<Locks, consumers, debt, lost>> /\ credit' = 0
      BY <2>2 DEF DropPositive
    <3>3. Circulating' = Circulating + 0 /\ 0 + (debt' - debt) = credit + (Uncounted' - Uncounted)
      BY <1>0, <3>1, <3>2 DEF Circulating, Uncounted
    <3>4. Issues
      BY <1>0, <3>1, <3>3 DEF Issues
    <3>. QED
      BY <1>0, <1>1, <3>1, <3>2, <3>4, Zenon
  <2>3. CASE Offset
    <3>1. /\ credit' = Larger(credit - debt, 0) /\ debt' = Larger(debt - credit, 0)
          /\ UNCHANGED <<native, Locks, consumers, lost>>
      BY <2>3, Zenon DEF Offset
    <3>2. /\ credit' \in Nat /\ debt' \in Nat
          /\ 0 + (debt' - debt) = Uncounted' - Uncounted
      BY <1>0, <3>1 DEF Larger, Uncounted
    <3>3. LedgerOK(native', Locks) /\ Gains(native, native', 0, 0)
      BY <1>0, <3>1, GainsNothing, Zenon
    <3>4. Moves
      BY <3>2, <3>3 DEF Moves
    <3>. QED
      BY <1>0, <1>1, <3>1, <3>2, <3>3, <3>4, Zenon
  <2>. QED
    BY <1>12, <2>1, <2>2, <2>3, Zenon
<1>13. Amounts \subseteq Nat
  BY BalancesAssumption, Zenon
<1> HIDE DEF Goal
<1>14. Goal
  BY <1>3, <1>4, <1>5, <1>6, <1>7, <1>8, <1>9, <1>10, <1>11, <1>12, <1>13, Zenon DEF BalancesNext
<1>. QED
  BY <1>14, Zenon DEF Goal

-----------------------------------------------------------------------------
(* The supply                                                              *)

\* What accounts hold, `c`, with what is owed to pallets, `d`, and what else
\* was taken from accounts, `k`, is the issuance, `i`, and what it does not
\* count, `r`.  The arithmetic of the kinds of steps: a step that moves funds
\* and burns `b`,
MovesNumbers(i, r, c, d, k, x, b, r1, c1, d1) ==
  /\ {i, r, c, d, k, b, r1, c1, d1} \subseteq Nat /\ x \in Int
  /\ i + r = c + d + k /\ c1 = c + x - b /\ x + (d1 - d) = r1 - r /\ r1 <= c1

\* a step that issues `n`,
IssuesNumbers(i, r, c, d, k, x, n, r1, c1, d1, m) ==
  /\ {i, r, c, d, k, n, r1, c1, d1, m} \subseteq Nat /\ x \in Int
  /\ i + r = c + d + k /\ c1 = c + x /\ x + (d1 - d) = n + (r1 - r)
  /\ 2 * (c1 + d1 + k) <= m

\* and a step that sets the free and the reserved balance of an account, or
\* only drops what it would have taken.
SetsNumbers(i, r, c, k, f, s, f1, s1, r1, c1, m, i1, i2) ==
  /\ {i, r, c, k, f, s, f1, s1, r1, c1, m} \subseteq Nat
  /\ i + r = c + k /\ f + s + r <= c + k /\ r1 <= c1
  /\ c1 - r1 = c - r + (f1 - f) + (s1 - s)
  /\ 2 * (c + k) <= m /\ 2 * (c1 + k) <= m
  /\ i1 = IF f1 >= f THEN Smaller(i + (f1 - f), m) ELSE Larger(i - (f - f1), 0)
  /\ i2 = IF s1 >= s THEN Smaller(i1 + (s1 - s), m) ELSE Larger(i1 - (s - s1), 0)

\* Dust and burnt funds are no more than the issuance.
LEMMA MovesBack ==
  ASSUME NEW i, NEW r, NEW c, NEW d, NEW k, NEW x, NEW b, NEW r1, NEW c1, NEW d1,
         MovesNumbers(i, r, c, d, k, x, b, r1, c1, d1)
  PROVE  Larger(i - b, 0) + r1 = c1 + d1 + k
<1>1. /\ i \in Nat /\ r \in Nat /\ c \in Nat /\ d \in Nat /\ k \in Nat /\ b \in Nat
      /\ r1 \in Nat /\ c1 \in Nat /\ d1 \in Nat /\ x \in Int
      /\ i + r = c + d + k /\ c1 = c + x - b /\ x + (d1 - d) = r1 - r /\ r1 <= c1
  BY Zenon DEF MovesNumbers
<1>2. i - b = c1 + d1 + k - r1
  BY <1>1
<1>. QED
  BY <1>1, <1>2 DEF Larger

\* What is issued does not saturate,
LEMMA IssuesBack ==
  ASSUME NEW i, NEW r, NEW c, NEW d, NEW k, NEW x, NEW n, NEW r1, NEW c1, NEW d1, NEW m,
         IssuesNumbers(i, r, c, d, k, x, n, r1, c1, d1, m)
  PROVE  Smaller(i + n, m) + r1 = c1 + d1 + k
<1>1. /\ i \in Nat /\ r \in Nat /\ c \in Nat /\ d \in Nat /\ k \in Nat /\ n \in Nat
      /\ r1 \in Nat /\ c1 \in Nat /\ d1 \in Nat /\ m \in Nat /\ x \in Int
      /\ i + r = c + d + k /\ c1 = c + x /\ x + (d1 - d) = n + (r1 - r)
      /\ 2 * (c1 + d1 + k) <= m
  BY Zenon DEF IssuesNumbers
<1>2. i + n = c1 + d1 + k - r1
  BY <1>1
<1>3. c1 + d1 + k <= m
  BY <1>1
<1>. QED
  BY <1>1, <1>2, <1>3 DEF Smaller

\* and neither do two changes of a balance, one after the other.
LEMMA SetsBack ==
  ASSUME NEW i, NEW r, NEW c, NEW k, NEW f, NEW s, NEW f1, NEW s1, NEW r1, NEW c1, NEW m,
         NEW i1, NEW i2, SetsNumbers(i, r, c, k, f, s, f1, s1, r1, c1, m, i1, i2)
  PROVE  i2 + r1 = c1 + k
<1>1. /\ i \in Nat /\ r \in Nat /\ c \in Nat /\ k \in Nat /\ f \in Nat /\ s \in Nat
      /\ f1 \in Nat /\ s1 \in Nat /\ r1 \in Nat /\ c1 \in Nat /\ m \in Nat
      /\ i + r = c + k /\ f + s + r <= c + k /\ r1 <= c1
      /\ c1 - r1 = c - r + (f1 - f) + (s1 - s)
      /\ 2 * (c + k) <= m /\ 2 * (c1 + k) <= m
  BY Zenon DEF SetsNumbers
<1>2. /\ i1 = IF f1 >= f THEN Smaller(i + (f1 - f), m) ELSE Larger(i - (f - f1), 0)
      /\ i2 = IF s1 >= s THEN Smaller(i1 + (s1 - s), m) ELSE Larger(i1 - (s - s1), 0)
  BY Zenon DEF SetsNumbers
<1>3. i1 = i + (f1 - f)
  <2>1. i + (f1 - f) = c1 - r1 + k - (s1 - s)
    BY <1>1
  <2>2. i + (f1 - f) >= 0 /\ i + (f1 - f) <= m
    BY <1>1, <2>1
  <2>. QED
    BY <1>1, <1>2, <2>2 DEF Smaller, Larger
<1>4. i1 + (s1 - s) = c1 - r1 + k /\ i1 \in Int
  BY <1>1, <1>3
<1>5. c1 - r1 + k <= m /\ c1 - r1 + k >= 0
  BY <1>1
<1>6. i2 = c1 - r1 + k
  BY <1>1, <1>2, <1>4, <1>5 DEF Smaller, Larger
<1>. QED
  BY <1>1, <1>6

Backed(k) == native.issuance + Uncounted = Circulating + debt + k

\* No account has more than the issuance counts: that is so by itself where
\* nothing is lost.
Limits(k) ==
  /\ 2 * (Circulating + debt + k) <= MaxSupply
  /\ Uncounted <= Circulating
  /\ \A w \in Holders : Total(native.account[w]) + lost <= Circulating + debt + k

\* set_balance: the two imbalances that are dropped add up to what the account
\* gains or, if it is refused, to what is lost.
LEMMA SetBalanceBacked ==
  ASSUME FiniteLaws, BalancesInv, BalancesInv', NEW w \in Holders,
         NEW new_free \in Nat, NEW new_reserved \in Nat,
         SetBalance(w, new_free, new_reserved),
         NEW k \in Nat, Backed(k), Limits(k), Limits(k)'
  PROVE  Backed(k)'
<1> DEFINE d  == native.account[w]
           f  == SetTo(new_free, new_reserved, new_free)
           r  == SetTo(new_free, new_reserved, new_reserved)
           s1 == Squared(native, d.free, f)
           s2 == Squared(s1, d.reserved, r)
<1>1. /\ LedgerOK(native, Locks) /\ d \in AccountData /\ native.issuance \in Nat
      /\ debt = 0 /\ credit = 0 /\ debt' = 0 /\ credit' = 0
  BY ZenonT(60) DEF BalancesInv, LedgerOK, Ledger, SetBalance
<1>2. /\ d.free \in Nat /\ d.reserved \in Nat /\ MaxSupply \in Nat /\ f \in Nat /\ r \in Nat
      /\ lost \in Nat /\ lost' \in Nat
  BY <1>1, BalancesAssumption DEF AccountData, SetTo, BalancesInv
<1>3. Circulating \in Nat
  BY <1>1, CirculatingBounds, Zenon DEF LedgerOK, Circulating
<1>4. /\ native'.issuance = s2.issuance /\ LedgerOK(native', Locks)
      /\ \/ Circulating' = Circulating + (f - d.free) + (r - d.reserved) /\ lost' = lost
         \/ Circulating' = Circulating /\ f = 0 /\ r = 0 /\ lost' = lost + Total(d)
  BY SetBalanceKeeps, ZenonT(60)
<1>5. Circulating' \in Nat /\ native'.issuance \in Nat
  BY <1>4, CirculatingBounds, Zenon DEF LedgerOK, Ledger, Circulating
<1>6. s1.issuance = IF f >= d.free THEN Smaller(native.issuance + (f - d.free), MaxSupply)
                    ELSE Larger(native.issuance - (d.free - f), 0)
  BY <1>2, Zenon DEF Squared, Issued, Burnt
<1> HIDE DEF s1, f, r
<1>7. s2.issuance =
        IF r >= d.reserved THEN Smaller(s1.issuance + (r - d.reserved), MaxSupply)
        ELSE Larger(s1.issuance - (d.reserved - r), 0)
  BY <1>2, Zenon DEF Squared, Issued, Burnt
<1>8. d.free + d.reserved + lost <= Circulating + debt + k
  BY Zenon DEF Limits, Total
<1>9. Circulating' - lost' = Circulating - lost + (f - d.free) + (r - d.reserved)
  BY <1>2, <1>3, <1>4, SMTT(60) DEF Total
<1> HIDE DEF s2, d
<1>10. /\ native.issuance + lost = Circulating + k /\ d.free + d.reserved + lost <= Circulating + k
       /\ 2 * (Circulating + k) <= MaxSupply /\ 2 * (Circulating' + k) <= MaxSupply
       /\ lost' <= Circulating'
  BY <1>1, <1>2, <1>3, <1>5, <1>8 DEF Backed, Limits, Uncounted
<1>11. SetsNumbers(native.issuance, lost, Circulating, k, d.free, d.reserved, f, r,
                   lost', Circulating', MaxSupply, s1.issuance, s2.issuance)
  BY <1>1, <1>2, <1>3, <1>5, <1>6, <1>7, <1>9, <1>10, ZenonT(60) DEF SetsNumbers
<1>12. s2.issuance + lost' = Circulating' + k
  BY <1>11, SetsBack
<1>. QED
  BY <1>1, <1>2, <1>4, <1>5, <1>12 DEF Backed, Uncounted

\* What is lost and what pallets hold is a number.
LEMMA NatSum ==
  ASSUME NEW a \in Nat, NEW b \in Nat
  PROVE  a + b \in Nat
OBVIOUS

\* Accounts that have at most half of the largest balance have no more.
LEMMA NoneAboveMax ==
  ASSUME NEW c \in Nat, NEW m \in Nat, m + 1 <= c
  PROVE  ~(2 * c <= m)
OBVIOUS

\* A burn of more than the free balance is no more than the largest balance.
LEMMA BurnsBelowZero ==
  ASSUME NEW f \in Nat, NEW a \in Nat, NEW c \in Nat, NEW e \in Nat, NEW k \in Nat,
         NEW m \in Nat, a > f, a <= c, 2 * (c + e + k) <= m
  PROVE  f - a < 0 /\ f - a >= -m /\ f - a \in Int
OBVIOUS

\* A balance that wrapped, and what is reserved, are more than the largest one.
LEMMA WrappedTotal ==
  ASSUME NEW f \in Nat, NEW r \in Nat, NEW m \in Nat, NEW x, NEW y,
         x = (f - (f + r)) + m + 1, y = x - f
  PROVE  f + y + r = m + 1
OBVIOUS

\* A subtraction that does not wrap.
LEMMA NotWrapped ==
  ASSUME NEW f \in Nat, NEW a \in Nat, a <= f
  PROVE  Wrapped(f - a) - f = -a
BY WrappedIs

\* The issuance i, with u that it does not count, is what accounts have, c, and
\* e and k; of an account a is taken, and b of dust; then accounts have cc.
BurnNumbers(i, u, c, e, k, b, a, y, cc) ==
  /\ i \in Nat /\ u \in Nat /\ c \in Nat /\ e \in Nat /\ k \in Nat
  /\ b \in Nat /\ a \in Nat /\ cc \in Nat
  /\ i + u = c + e + k /\ y = -a /\ cc = c + y - b /\ u <= cc

\* The issuance covers what is burnt, and goes down by as much.
LEMMA BurnAdds ==
  ASSUME NEW i, NEW u, NEW c, NEW e, NEW k, NEW b, NEW a, NEW y, NEW cc,
         BurnNumbers(i, u, c, e, k, b, a, y, cc)
  PROVE  /\ i - b - a \in Int /\ i - b - a >= 0 /\ i - b >= 0
         /\ (i - b - a) + u = cc + e + k
BY DEF BurnNumbers

\* An account that is no more has no reserved balance.
LEMMA DefaultTotal == ~(Total(Default) > Default.free)
BY DEF Total, Default

\* burn_from: a subtraction that wraps gives an account more than there may be.
LEMMA BurnFromBacked ==
  ASSUME FiniteLaws, BalancesInv, BalancesInv', NEW w \in Holders, NEW amount \in Nat,
         BurnFrom(w, amount), NEW k \in Nat, Backed(k), Limits(k), Limits(k)'
  PROVE  Backed(k)'
<1> DEFINE d      == native.account[w]
           actual == Burns(d, amount)
           y      == Wrapped(d.free - actual) - d.free
           new    == Moved(d, y, 0)
<1>1. /\ LedgerOK(native, Locks) /\ native \in Ledger /\ d \in AccountData
      /\ GoodAccount(d, Locks[w]) /\ native.issuance \in Nat /\ debt \in Nat
      /\ credit \in Nat /\ lost \in Nat
  BY Zenon DEF BalancesInv, LedgerOK, Ledger
<1>2. /\ MaxSupply \in Nat /\ ExistentialDeposit \in Nat
      /\ d.free \in Nat /\ d.reserved \in Nat /\ Total(d) = d.free + d.reserved
  BY <1>1, BalancesAssumption DEF AccountData, Total
<1>3. /\ LedgerOK(native', Locks) /\ actual \in Nat /\ (actual > d.free => actual = Total(d))
      /\ native'.account = Mutate(native, w, new).account
  BY BurnFromKeeps, Zenon
<1>4. PICK b \in Nat : /\ Circulating' = Circulating + y - b
                       /\ native'.issuance = Wrapped(Larger(native.issuance - b, 0) - actual)
  BY BurnFromKeeps, Zenon
<1>5. /\ Circulating \in Nat /\ Circulating' \in Nat /\ Total(d) <= Circulating
      /\ Total(native'.account[w]) <= Circulating'
  BY <1>1, <1>3, CirculatingBounds, Zenon DEF LedgerOK, Circulating
<1>6. /\ native.issuance + (credit + lost) = Circulating + debt + k
      /\ 2 * (Circulating + debt + k) <= MaxSupply
      /\ 2 * (Circulating' + debt + k) <= MaxSupply
      /\ credit + lost <= Circulating'
      /\ UNCHANGED <<debt, credit, lost>>
  BY DEF Backed, Limits, Uncounted, BurnFrom, imbalances
<1> HIDE DEF d, actual
<1>7. actual <= d.free
  <2> SUFFICES ASSUME actual > d.free
               PROVE  FALSE
    BY <1>2, <1>3, SMTT(60)
  <2>1. actual = Total(d) /\ Total(d) > d.free
    BY <1>3
  <2>2. ~Dies(d)
    <3>1. d # Default
      BY <2>1, DefaultTotal, Zenon
    <3>. QED
      BY <1>1, <3>1, Zenon DEF GoodAccount
  <2>3. d.free - actual < 0 /\ d.free - actual >= -MaxSupply /\ d.free - actual \in Int
    <3>1. actual \in Nat /\ actual <= Circulating
      BY <1>3, <1>5, <2>1, Zenon
    <3>. QED
      BY <1>1, <1>2, <1>5, <1>6, <3>1, BurnsBelowZero, Zenon
  <2>4. Wrapped(d.free - actual) = (d.free - actual) + MaxSupply + 1
    BY <2>3, WrappedIs, Zenon
  <2>5. new.free = d.free + y /\ new.reserved = d.reserved
    BY <1>2, SMTT(60) DEF Moved
  <2>6. Total(new) = MaxSupply + 1
    <3>1. Wrapped(d.free - actual) = (d.free - (d.free + d.reserved)) + MaxSupply + 1
      BY <1>2, <2>1, <2>4, Zenon
    <3>2. y = Wrapped(d.free - actual) - d.free
      BY Zenon
    <3> HIDE DEF new, y
    <3>3. Total(new) = d.free + y + d.reserved
      BY <2>5, Zenon DEF Total
    <3>4. d.free \in Nat /\ d.reserved \in Nat /\ MaxSupply \in Nat
      BY <1>2, Zenon
    <3>5. d.free + y + d.reserved = MaxSupply + 1
      BY <3>1, <3>2, <3>4, WrappedTotal, SMTT(60)
    <3>. QED
      BY <3>3, <3>5, Zenon
  <2>7. ~Dies(new)
    BY <1>1, <1>2, <1>5, <1>6, <2>2, <2>6 DEF Dies
  <2> HIDE DEF new
  <2>8. native'.account[w] = new
    <3>1. native'.account = [native.account EXCEPT ![w] = new]
      BY <1>1, <1>3, <2>7, MutateAlive, Zenon
    <3>. QED
      BY <1>1, <3>1, Zenon DEF Ledger
  <2>9. MaxSupply + 1 <= Circulating'
    BY <1>5, <2>6, <2>8
  <2>10. 2 * Circulating' <= MaxSupply
    BY <1>1, <1>2, <1>5, <1>6
  <2>11. Circulating' \in Nat /\ MaxSupply \in Nat
    BY <1>2, <1>5, Zenon
  <2>. QED
    BY <2>9, <2>10, <2>11, NoneAboveMax, Zenon
<1>8. y = -actual
  BY <1>2, <1>3, <1>7, NotWrapped, Zenon
<1> HIDE DEF y, new
<1>9. /\ native.issuance - b - actual \in Int /\ native.issuance - b - actual >= 0
      /\ native.issuance - b >= 0
      /\ (native.issuance - b - actual) + (credit + lost) = Circulating' + debt + k
  <2>1. credit + lost \in Nat
    BY <1>1, NatSum, Zenon
  <2>2. BurnNumbers(native.issuance, credit + lost, Circulating, debt, k, b, actual, y, Circulating')
    BY <1>1, <1>3, <1>4, <1>5, <1>6, <1>8, <2>1, Zenon DEF BurnNumbers
  <2>. QED
    BY <2>2, BurnAdds, SMTT(60)
<1>10. native'.issuance = native.issuance - b - actual
  <2>1. Larger(native.issuance - b, 0) = native.issuance - b
    BY <1>9, Zenon DEF Larger
  <2>2. Wrapped(native.issuance - b - actual) = native.issuance - b - actual
    BY <1>9, WrappedIs, Zenon
  <2>. QED
    BY <1>4, <2>1, <2>2, Zenon
<1>11. native'.issuance + (credit + lost) = Circulating' + debt + k
  BY <1>9, <1>10, Zenon
<1>. QED
  BY <1>6, <1>11 DEF Backed, Uncounted

\* No call of the balances pallet parts the issuance from the supply.
LEMMA BalancesBacked ==
  ASSUME FiniteLaws, BalancesInv, BalancesNext,
         NEW k \in Nat, Backed(k), Limits(k), Limits(k)'
  PROVE  Backed(k)'
<1>1. BalancesInv' /\ (Moves \/ Issues \/ Sets \/ Subtracts)
  BY BalancesStep, Zenon
<1>2. /\ native.issuance \in Nat /\ debt \in Nat /\ Uncounted \in Nat /\ MaxSupply \in Nat
      /\ Circulating \in Nat
  <2>1. native \in Ledger /\ debt \in Nat /\ credit \in Nat /\ lost \in Nat
    BY Zenon DEF BalancesInv, LedgerOK
  <2>2. native.issuance \in Nat /\ Circulating \in Nat
    BY <2>1, CirculatingBounds, Zenon DEF Ledger, Circulating
  <2>. QED
    BY <2>1, <2>2, BalancesAssumption DEF Uncounted
<1>3. debt' \in Nat /\ Uncounted' \in Nat /\ Circulating' \in Nat
  <2>1. native' \in Ledger /\ debt' \in Nat /\ credit' \in Nat /\ lost' \in Nat
    BY <1>1, Zenon DEF BalancesInv, LedgerOK
  <2>2. Circulating' \in Nat
    BY <2>1, CirculatingBounds, Zenon DEF Circulating
  <2>3. Uncounted' \in Nat
    <3>1. credit' \in Nat /\ lost' \in Nat
      BY <2>1, Zenon
    <3>2. Uncounted' = credit' + lost'
      BY Zenon DEF Uncounted
    <3>. QED
      BY <3>1, <3>2, NatSum, Zenon
  <2>. QED
    BY <2>1, <2>2, <2>3, Zenon
<1>4. /\ native.issuance + Uncounted = Circulating + debt + k
      /\ Uncounted' <= Circulating' /\ 2 * (Circulating' + debt' + k) <= MaxSupply
  BY Zenon DEF Backed, Limits
<1>5. CASE Moves
  <2>1. PICK x \in Int, b \in Nat :
          /\ Gains(native, native', x, b)
          /\ x + (debt' - debt) = Uncounted' - Uncounted
    BY <1>5, Zenon DEF Moves
  <2>2. Circulating' = Circulating + x - b /\ native'.issuance = Larger(native.issuance - b, 0)
    BY <2>1, Zenon DEF Gains, Circulating
  <2>3. Larger(native.issuance - b, 0) + Uncounted' = Circulating' + debt' + k
    <3>1. MovesNumbers(native.issuance, Uncounted, Circulating, debt, k, x, b,
                       Uncounted', Circulating', debt')
      BY <1>2, <1>3, <1>4, <2>1, <2>2, ZenonT(60) DEF MovesNumbers
    <3>. QED
      BY <3>1, MovesBack
  <2>. QED
    BY <2>2, <2>3, Zenon DEF Backed
<1>6. CASE Issues
  <2>1. PICK x \in Int, n \in Nat :
          /\ Circulating' = Circulating + x
          /\ native'.issuance = Smaller(native.issuance + n, MaxSupply)
          /\ x + (debt' - debt) = n + (Uncounted' - Uncounted)
    BY <1>6, Zenon DEF Issues
  <2>2. Smaller(native.issuance + n, MaxSupply) + Uncounted' = Circulating' + debt' + k
    <3>1. IssuesNumbers(native.issuance, Uncounted, Circulating, debt, k, x, n,
                        Uncounted', Circulating', debt', MaxSupply)
      BY <1>2, <1>3, <1>4, <2>1, ZenonT(60) DEF IssuesNumbers
    <3>. QED
      BY <3>1, IssuesBack
  <2>. QED
    BY <2>1, <2>2, Zenon DEF Backed
<1>7. CASE Sets
  <2>1. PICK w \in Holders, b \in RootBalances : SetBalance(w, b[1], b[2])
    BY <1>7, Zenon DEF Sets
  <2>2. b[1] \in Nat /\ b[2] \in Nat
    BY BalancesAssumption, Zenon
  <2>. QED
    BY <1>1, <2>1, <2>2, SetBalanceBacked, ZenonT(60)
<1>8. CASE Subtracts
  BY <1>1, <1>8, BurnFromBacked, BalancesAssumption, ZenonT(60) DEF Subtracts
<1>. QED
  BY <1>1, <1>5, <1>6, <1>7, <1>8, Zenon
=============================================================================
