------------------------------ MODULE XykFacts ------------------------------
(***************************************************************************)
(* What the pricing formulas, the ledger operations and the calls of the   *)
(* xyk pallet do, to the ledger and to each pool, and the invariant that   *)
(* the calls keep, for all sets of users, assets and pools and all         *)
(* amounts.                                                                *)
(***************************************************************************)
EXTENDS Xyk, TLAPS

-----------------------------------------------------------------------------
(* Arithmetic                                                              *)

\* Integer division, as the pricing formulas and fees use it: the quotient is
\* the largest number whose product with the divisor does not exceed n.
LEMMA DivFacts ==
  ASSUME NEW n \in Nat, NEW d \in Nat \ {0}
  PROVE  /\ n \div d \in Nat
         /\ (n \div d) * d <= n
         /\ n < (n \div d) * d + d
  BY SMT

\* What a sell pays out (CalculateOutGivenIn, one unit added to the quotient)
\* is at most one unit above the constant-product price.
LEMMA SellProduct ==
  ASSUME NEW in_reserve \in Nat \ {0}, NEW out_reserve \in Nat,
         NEW amount \in Nat, NEW net \in Nat, net <= amount,
         CalculateOutGivenIn(in_reserve, out_reserve, net) < out_reserve
  PROVE  (in_reserve + amount)
           * (out_reserve - CalculateOutGivenIn(in_reserve, out_reserve, net) + 1)
         >= in_reserve * out_reserve
<1> DEFINE q == (out_reserve * net) \div (in_reserve + net)
<1>1. /\ q \in Nat
      /\ q * (in_reserve + net) <= out_reserve * net
  <2>1. out_reserve * net \in Nat /\ in_reserve + net \in Nat \ {0}
    OBVIOUS
  <2> QED BY <2>1, DivFacts, Zenon
<1>2. q <= out_reserve
  BY <1>1 DEF CalculateOutGivenIn
<1> HIDE DEF q
<1>3. (in_reserve + net) * (out_reserve - q) >= in_reserve * out_reserve
  BY <1>1
<1>4. (in_reserve + amount) * (out_reserve - q)
        >= (in_reserve + net) * (out_reserve - q)
  BY <1>1, <1>2
<1>5. CalculateOutGivenIn(in_reserve, out_reserve, net) = q + 1
  BY Zenon DEF CalculateOutGivenIn, q
<1> QED
  BY <1>1, <1>3, <1>4, <1>5

\* What a buy charges before the fee covers the constant-product price.
LEMMA BuyProduct ==
  ASSUME NEW in_reserve \in Nat, NEW out_reserve \in Nat,
         NEW amount \in Nat, amount < out_reserve, NEW fee \in Nat
  PROVE  LET price == CalculateInGivenOut(out_reserve, in_reserve, amount)
         IN  /\ price \in Nat
             /\ (in_reserve + price + fee) * (out_reserve - amount)
                  >= in_reserve * out_reserve
<1> DEFINE q == (in_reserve * amount) \div (out_reserve - amount)
<1>1. /\ q \in Nat
      /\ in_reserve * amount < q * (out_reserve - amount) + (out_reserve - amount)
  <2>1. in_reserve * amount \in Nat /\ out_reserve - amount \in Nat \ {0}
    OBVIOUS
  <2> QED BY <2>1, DivFacts, Zenon
<1>2. CalculateInGivenOut(out_reserve, in_reserve, amount) = q + 1
  BY Zenon DEF CalculateInGivenOut
<1> HIDE DEF q
<1>3. (in_reserve + q + 1) * (out_reserve - amount) >= in_reserve * out_reserve
  BY <1>1
<1>4. (in_reserve + q + 1 + fee) * (out_reserve - amount)
        >= (in_reserve + q + 1) * (out_reserve - amount)
  BY <1>1
<1> QED
  BY <1>1, <1>2, <1>3, <1>4

\* What remove_liquidity pays out is at most the proportional part, so that
\* the reserve behind each share left does not shrink; burning all shares
\* pays out the whole reserve.
LEMMA RemoveProportional ==
  ASSUME NEW reserve \in Nat, NEW total \in Nat \ {0},
         NEW amount \in Nat, amount <= total
  PROVE  LET paid == CalculateLiquidityOut(reserve, amount, total)
         IN  /\ paid \in Nat
             /\ paid <= reserve
             /\ (reserve - paid) * total >= reserve * (total - amount)
             /\ amount = total => paid = reserve
<1> DEFINE q == (amount * reserve) \div total
<1>1. /\ q \in Nat
      /\ q * total <= amount * reserve
      /\ amount * reserve < q * total + total
  <2>1. amount * reserve \in Nat
    OBVIOUS
  <2> QED BY <2>1, DivFacts, Zenon
<1>2. CalculateLiquidityOut(reserve, amount, total) = q
  BY Zenon DEF CalculateLiquidityOut
<1> HIDE DEF q
<1>3. (reserve - q) * total >= reserve * (total - amount)
  BY <1>1
<1>4. q <= reserve
  <2>1. q * total <= reserve * total
    BY <1>1
  <2> QED BY <1>1, <2>1
<1>5. amount = total => q = reserve
  <2>1. amount = total => reserve * total < (q + 1) * total
    BY <1>1
  <2> QED BY <1>1, <1>4, <2>1
<1> QED
  BY <1>1, <1>2, <1>3, <1>4, <1>5, Zenon

-----------------------------------------------------------------------------
(* The ledger                                                              *)

\* AddTo changes one balance.
LEMMA AddToFacts ==
  ASSUME NEW B \in [Assets -> [Accounts -> Nat]], NEW asset \in Assets,
         NEW who \in Accounts, NEW delta \in Int, B[asset][who] + delta \in Nat
  PROVE  /\ AddTo(B, asset, who, delta) \in [Assets -> [Accounts -> Nat]]
         /\ \A x \in Assets, w \in Accounts :
              AddTo(B, asset, who, delta)[x][w] =
                IF x = asset /\ w = who THEN B[x][w] + delta ELSE B[x][w]
  BY Zenon DEF AddTo

\* What an account holds of an asset.
HoldingOf(L, x, w) == L.free[x][w] + L.reserved[x][w]

\* The laws of finite sums that the ledger rests on: when one account's holding
\* of an asset changes, what is held in all changes by as much; and no account
\* holds more than all do.
LedgerSums ==
  /\ \A L, M \in Ledger, x \in Assets, w \in Accounts :
       (\A v \in Accounts : v # w => HoldingOf(M, x, v) = HoldingOf(L, x, v)) =>
         HeldIn(M, x) = HeldIn(L, x) + HoldingOf(M, x, w) - HoldingOf(L, x, w)
  /\ \A L \in Ledger, x \in Assets : HeldIn(L, x) \in Int
  /\ \A L \in Ledger, x \in Assets, w \in Accounts : HoldingOf(L, x, w) <= HeldIn(L, x)

\* M has as much more issuance than L, of each asset, as it holds more.
SameGap(L, M) ==
  LedgerSums =>
    \A x \in Assets : M.issuance[x] - HeldIn(M, x) = L.issuance[x] - HeldIn(L, x)

\* Two changes, one after the other.
LEMMA GapTwice ==
  ASSUME NEW L, NEW M, NEW N, SameGap(L, M), SameGap(M, N)
  PROVE  SameGap(L, N)
BY Zenon DEF SameGap

\* A change of one free balance changes what is held of its asset.
LEMMA AddToHeld ==
  ASSUME LedgerSums, NEW L \in Ledger, NEW M \in Ledger, NEW asset \in Assets,
         NEW who \in Accounts, NEW delta \in Int,
         L.free[asset][who] + delta \in Nat,
         M.free = AddTo(L.free, asset, who, delta), M.reserved = L.reserved
  PROVE  \A x \in Assets :
           HeldIn(M, x) = IF x = asset THEN HeldIn(L, x) + delta ELSE HeldIn(L, x)
<1>1. /\ L.free \in [Assets -> [Accounts -> Nat]]
      /\ L.reserved \in [Assets -> [Accounts -> Nat]]
  BY Zenon DEF Ledger
<1>2. \A x \in Assets, w \in Accounts :
        M.free[x][w] = IF x = asset /\ w = who THEN L.free[x][w] + delta ELSE L.free[x][w]
  <2>1. \A x \in Assets, w \in Accounts :
          AddTo(L.free, asset, who, delta)[x][w] =
            IF x = asset /\ w = who THEN L.free[x][w] + delta ELSE L.free[x][w]
    BY <1>1, Zenon DEF AddTo
  <2>. QED
    BY <2>1, ZenonT(60)
<1>3. \A x \in Assets, w \in Accounts :
        HoldingOf(M, x, w) = IF x = asset /\ w = who
                             THEN HoldingOf(L, x, w) + delta ELSE HoldingOf(L, x, w)
  <2> TAKE x \in Assets, w \in Accounts
  <2>1. L.free[x][w] \in Int /\ L.reserved[x][w] \in Int /\ M.reserved[x][w] = L.reserved[x][w]
    BY <1>1
  <2>. QED
    BY <1>2, <2>1 DEF HoldingOf
<1>4. \A x \in Assets : HoldingOf(L, x, who) \in Int /\ HeldIn(L, x) \in Int
  BY <1>1 DEF HoldingOf, LedgerSums
<1> TAKE x \in Assets
<1>5. HeldIn(M, x) = HeldIn(L, x) + HoldingOf(M, x, who) - HoldingOf(L, x, who)
  BY <1>3, Zenon DEF LedgerSums
<1>. QED
  BY <1>3, <1>4, <1>5

\* Balances after `amount` of `asset` has moved from one account to another.
Moved(L, M, asset, from, to, amount) ==
  \A x \in Assets, w \in Accounts :
    M.free[x][w] = IF x = asset /\ w = from THEN L.free[x][w] - amount
                   ELSE IF x = asset /\ w = to THEN L.free[x][w] + amount
                   ELSE L.free[x][w]

\* A successful transfer between different accounts yields a ledger, moves
\* exactly the amount, and leaves the issuance alone.
LEMMA TransferFacts ==
  ASSUME NEW L \in Ledger, NEW asset \in Assets, NEW from \in Accounts,
         NEW to \in Accounts, NEW amount \in Nat, from # to,
         CanTransfer(L, asset, from, to, amount)
  PROVE  LET M == Transfer(L, asset, from, to, amount)
         IN  /\ M \in Ledger
             /\ M.issuance = L.issuance
             /\ Moved(L, M, asset, from, to, amount)
             /\ SameGap(L, M)
<1>1. FrozenBalance(asset, from) \in Nat
  BY LedgerAssumption, Zenon DEF FrozenBalance
<1>2. L.free \in [Assets -> [Accounts -> Nat]]
  BY Zenon DEF Ledger
<1>3. L.free[asset][from] + (-amount) \in Nat
  BY <1>1, <1>2 DEF CanTransfer, CanWithdraw, FreeBalance
<1> DEFINE B == AddTo(L.free, asset, from, -amount)
           C == AddTo(B, asset, to, amount)
<1>4. /\ B \in [Assets -> [Accounts -> Nat]]
      /\ \A x \in Assets, w \in Accounts :
           B[x][w] = IF x = asset /\ w = from THEN L.free[x][w] + (-amount)
                                             ELSE L.free[x][w]
  BY <1>2, <1>3, AddToFacts
<1> HIDE DEF B
<1>5. B[asset][to] + amount \in Nat
  BY <1>4
<1>6. /\ C \in [Assets -> [Accounts -> Nat]]
      /\ \A x \in Assets, w \in Accounts :
           C[x][w] = IF x = asset /\ w = to THEN B[x][w] + amount ELSE B[x][w]
  BY <1>4, <1>5, AddToFacts
<1> HIDE DEF C
<1>7. Transfer(L, asset, from, to, amount)
        = [free |-> C, reserved |-> L.reserved, issuance |-> L.issuance]
  BY Zenon DEF Transfer, B, C
<1>8. \A x \in Assets, w \in Accounts : L.free[x][w] \in Nat
  BY <1>2, Zenon
<1> DEFINE N == [free |-> B, reserved |-> L.reserved, issuance |-> L.issuance]
           M == [free |-> C, reserved |-> L.reserved, issuance |-> L.issuance]
<1>9. N \in Ledger /\ M \in Ledger
  BY <1>4, <1>6, Zenon DEF Ledger
<1>10. SameGap(L, M)
  <2> SUFFICES ASSUME LedgerSums, NEW x \in Assets
               PROVE  M.issuance[x] - HeldIn(M, x) = L.issuance[x] - HeldIn(L, x)
    BY Zenon DEF SameGap
  <2>1. HeldIn(N, x) = IF x = asset THEN HeldIn(L, x) + (-amount) ELSE HeldIn(L, x)
    <3>1. N.free = AddTo(L.free, asset, from, -amount) /\ N.reserved = L.reserved /\ -amount \in Int
      BY DEF B
    <3> HIDE DEF N
    <3>. QED
      BY <1>3, <1>9, <3>1, AddToHeld
  <2>2. HeldIn(M, x) = IF x = asset THEN HeldIn(N, x) + amount ELSE HeldIn(N, x)
    <3>1. /\ M.free = AddTo(N.free, asset, to, amount) /\ M.reserved = N.reserved
          /\ N.free[asset][to] + amount \in Nat
      BY <1>5, Zenon DEF C
    <3> HIDE DEF M, N
    <3>. QED
      BY <1>9, <3>1, AddToHeld
  <2>3. HeldIn(L, x) \in Int
    BY Zenon DEF LedgerSums
  <2>4. HeldIn(M, x) = HeldIn(L, x)
    BY <2>1, <2>2, <2>3
  <2>. QED
    BY <2>4, Zenon
<1> HIDE DEF N
<1> QED
  BY <1>4, <1>6, <1>7, <1>8, <1>9, <1>10 DEF Ledger, Moved

\* Issuance after `amount` of `asset` has been burnt, or minted, in the account
\* of `who`; no other balance has changed.
Burnt(L, M, asset, who, amount) ==
  /\ M.issuance = [L.issuance EXCEPT ![asset] = @ - amount]
  /\ \A x \in Assets, w \in Accounts :
       x # asset \/ w # who => M.free[x][w] = L.free[x][w]

Minted(L, M, asset, who, amount) ==
  /\ M.issuance = [L.issuance EXCEPT ![asset] = @ + amount]
  /\ \A x \in Assets, w \in Accounts :
       x # asset \/ w # who => M.free[x][w] = L.free[x][w]

\* Burning: balance and issuance of the asset fall by the amount.
LEMMA WithdrawFacts ==
  ASSUME NEW L \in Ledger, NEW asset \in Assets, NEW who \in Accounts,
         NEW amount \in Nat, CanWithdraw(L, asset, who, amount)
  PROVE  LET M == Withdraw(L, asset, who, amount)
         IN  /\ M \in Ledger
             /\ Burnt(L, M, asset, who, amount)
             /\ SameGap(L, M)
<1>1. FrozenBalance(asset, who) \in Nat
  BY LedgerAssumption, Zenon DEF FrozenBalance
<1>2. L.free \in [Assets -> [Accounts -> Nat]]
  BY Zenon DEF Ledger
<1>3. L.free[asset][who] + (-amount) \in Nat
  BY <1>1, <1>2 DEF CanWithdraw, FreeBalance
<1> DEFINE M == Withdraw(L, asset, who, amount)
<1>4. M \in Ledger /\ Burnt(L, M, asset, who, amount)
  BY <1>2, <1>3, AddToFacts DEF Withdraw, Ledger, Burnt
<1>5. /\ M.free = AddTo(L.free, asset, who, -amount) /\ M.reserved = L.reserved
      /\ M.issuance = [L.issuance EXCEPT ![asset] = @ - amount] /\ -amount \in Int
  BY DEF Withdraw
<1> HIDE DEF M
<1>6. SameGap(L, M)
  <2> SUFFICES ASSUME LedgerSums, NEW x \in Assets
               PROVE  M.issuance[x] - HeldIn(M, x) = L.issuance[x] - HeldIn(L, x)
    BY Zenon DEF SameGap
  <2>1. HeldIn(M, x) = IF x = asset THEN HeldIn(L, x) + (-amount) ELSE HeldIn(L, x)
    BY <1>3, <1>4, <1>5, AddToHeld
  <2>2. HeldIn(L, x) \in Int /\ L.issuance \in [Assets -> Int]
    BY Zenon DEF LedgerSums, Ledger
  <2>. QED
    BY <1>5, <2>1, <2>2
<1> QED
  BY <1>4, <1>6, Zenon DEF M

\* Minting: balance and issuance of the asset grow by the amount.
LEMMA DepositFacts ==
  ASSUME NEW L \in Ledger, NEW asset \in Assets, NEW who \in Accounts,
         NEW amount \in Nat
  PROVE  LET M == Deposit(L, asset, who, amount)
         IN  /\ M \in Ledger
             /\ Minted(L, M, asset, who, amount)
             /\ SameGap(L, M)
<1>1. L.free \in [Assets -> [Accounts -> Nat]] /\ L.free[asset][who] + amount \in Nat
  BY DEF Ledger
<1> DEFINE B == AddTo(L.free, asset, who, amount)
<1>2. /\ B \in [Assets -> [Accounts -> Nat]]
      /\ \A x \in Assets, w \in Accounts :
           B[x][w] = IF x = asset /\ w = who THEN L.free[x][w] + amount ELSE L.free[x][w]
  BY <1>1, AddToFacts
<1> HIDE DEF B
<1>3. Deposit(L, asset, who, amount)
        = [free |-> B, reserved |-> L.reserved,
           issuance |-> [L.issuance EXCEPT ![asset] = @ + amount]]
  BY Zenon DEF Deposit, B, Ledger
<1> DEFINE M == Deposit(L, asset, who, amount)
<1>4. M \in Ledger /\ Minted(L, M, asset, who, amount)
  BY <1>2, <1>3 DEF Ledger, Minted
<1>5. /\ M.free = AddTo(L.free, asset, who, amount) /\ M.reserved = L.reserved
      /\ M.issuance = [L.issuance EXCEPT ![asset] = @ + amount]
  BY Zenon DEF Deposit
<1> HIDE DEF M
<1>6. SameGap(L, M)
  <2> SUFFICES ASSUME LedgerSums, NEW x \in Assets
               PROVE  M.issuance[x] - HeldIn(M, x) = L.issuance[x] - HeldIn(L, x)
    BY Zenon DEF SameGap
  <2>1. HeldIn(M, x) = IF x = asset THEN HeldIn(L, x) + amount ELSE HeldIn(L, x)
    BY <1>1, <1>4, <1>5, AddToHeld
  <2>2. HeldIn(L, x) \in Int /\ L.issuance \in [Assets -> Int]
    BY Zenon DEF LedgerSums, Ledger
  <2>. QED
    BY <1>5, <2>1, <2>2
<1> QED
  BY <1>4, <1>6, Zenon DEF M

\* The reserves of a pool and its liquidity are natural numbers.
LEMMA PoolTypes ==
  ASSUME TypeOK, NEW p \in Pools
  PROVE  /\ p[1] \in Assets /\ p[2] \in Assets
         /\ TotalLiquidity[p] \in Nat
         /\ \A x \in {p[1], p[2]} : Reserve(ledger, x, p) \in Nat
<1>1. p \in Accounts /\ p[1] \in Assets /\ p[2] \in Assets
  BY LedgerAssumption, Zenon DEF Accounts
<1> QED
  BY <1>1, Zenon DEF TypeOK, Ledger, Reserve, FreeBalance

-----------------------------------------------------------------------------
(* What each call does to the ledger                                       *)

\* From L to M the reserves of pool p change by da in asset a and db in asset
\* b; every other balance of a pair account is the same.
Reserves(L, M, p, a, b, da, db) ==
  \A x \in Assets, q \in Pools :
    M.free[x][q] = IF q = p /\ x = a THEN L.free[x][q] + da
                   ELSE IF q = p /\ x = b THEN L.free[x][q] + db
                   ELSE L.free[x][q]

\* The pair account of an existing pool is an account, no user's, and its
\* assets are the two of the call.
LEMMA PoolFacts ==
  ASSUME NEW a \in Assets, NEW b \in Assets, GetPairId(a, b) \in Pools
  PROVE  /\ a # b
         /\ GetPairId(a, b) \in Accounts
         /\ \A u \in Users : u # GetPairId(a, b) /\ u \in Accounts
         /\ \/ GetPairId(a, b) = <<a, b>>
            \/ GetPairId(a, b) = <<b, a>>
  BY LedgerAssumption DEF GetPairId, OrderedPair, Accounts

\* Paying two assets into a pool.
LEMMA PayInFacts ==
  ASSUME NEW L \in Ledger, NEW u \in Users, NEW a \in Assets, NEW b \in Assets,
         NEW m \in Nat, NEW n \in Nat, GetPairId(a, b) \in Pools,
         CanTransfer(L, a, u, GetPairId(a, b), m),
         CanTransfer(Transfer(L, a, u, GetPairId(a, b), m), b, u, GetPairId(a, b), n)
  PROVE  LET p == GetPairId(a, b)
             M == Transfer(Transfer(L, a, u, p, m), b, u, p, n)
         IN  /\ M \in Ledger
             /\ M.issuance = L.issuance
             /\ Reserves(L, M, p, a, b, m, n)
             /\ SameGap(L, M)
<1> DEFINE p  == GetPairId(a, b)
           L1 == Transfer(L, a, u, p, m)
           M  == Transfer(L1, b, u, p, n)
<1>1. a # b /\ p \in Accounts /\ u \in Accounts /\ u # p /\ u \notin Pools
  BY PoolFacts, LedgerAssumption, Zenon
<1> HIDE DEF p
<1>2. L1 \in Ledger /\ L1.issuance = L.issuance /\ Moved(L, L1, a, u, p, m) /\ SameGap(L, L1)
  BY <1>1, TransferFacts DEF p
<1> HIDE DEF L1
<1>3. M \in Ledger /\ M.issuance = L1.issuance /\ Moved(L1, M, b, u, p, n) /\ SameGap(L1, M)
  BY <1>1, <1>2, TransferFacts DEF p, L1
<1> HIDE DEF M
<1>4. Reserves(L, M, p, a, b, m, n)
  BY <1>1, <1>2, <1>3 DEF Moved, Reserves, Accounts
<1>5. SameGap(L, M)
  BY <1>2, <1>3, GapTwice, ZenonT(60)
<1> QED
  BY <1>2, <1>3, <1>4, <1>5, Zenon DEF p, L1, M

\* Paying two assets out of a pool.
LEMMA PayOutFacts ==
  ASSUME NEW L \in Ledger, NEW u \in Users, NEW a \in Assets, NEW b \in Assets,
         NEW m \in Nat, NEW n \in Nat, GetPairId(a, b) \in Pools,
         CanTransfer(L, a, GetPairId(a, b), u, m),
         CanTransfer(Transfer(L, a, GetPairId(a, b), u, m), b, GetPairId(a, b), u, n)
  PROVE  LET p == GetPairId(a, b)
             M == Transfer(Transfer(L, a, p, u, m), b, p, u, n)
         IN  /\ M \in Ledger
             /\ M.issuance = L.issuance
             /\ Reserves(L, M, p, a, b, -m, -n)
             /\ SameGap(L, M)
<1> DEFINE p  == GetPairId(a, b)
           L1 == Transfer(L, a, p, u, m)
           M  == Transfer(L1, b, p, u, n)
<1>1. a # b /\ p \in Accounts /\ u \in Accounts /\ u # p /\ u \notin Pools
  BY PoolFacts, LedgerAssumption, Zenon
<1> HIDE DEF p
<1>2. L1 \in Ledger /\ L1.issuance = L.issuance /\ Moved(L, L1, a, p, u, m) /\ SameGap(L, L1)
  BY <1>1, TransferFacts DEF p
<1> HIDE DEF L1
<1>3. M \in Ledger /\ M.issuance = L1.issuance /\ Moved(L1, M, b, p, u, n) /\ SameGap(L1, M)
  BY <1>1, <1>2, TransferFacts DEF p, L1
<1> HIDE DEF M
<1>4. \A x \in Assets, w \in Accounts : L.free[x][w] \in Int
  BY DEF Ledger
<1>5. Reserves(L, M, p, a, b, -m, -n)
  BY <1>1, <1>2, <1>3, <1>4 DEF Moved, Reserves, Accounts
<1>6. SameGap(L, M)
  BY <1>2, <1>3, GapTwice, Zenon
<1> QED
  BY <1>2, <1>3, <1>5, <1>6, Zenon DEF p, L1, M

\* Exchanging one asset against the other, the pool receiving first.
LEMMA SwapInFacts ==
  ASSUME NEW L \in Ledger, NEW u \in Users, NEW a \in Assets, NEW b \in Assets,
         NEW m \in Nat, NEW n \in Nat, GetPairId(a, b) \in Pools,
         CanTransfer(L, a, u, GetPairId(a, b), m),
         CanTransfer(Transfer(L, a, u, GetPairId(a, b), m), b, GetPairId(a, b), u, n)
  PROVE  LET p == GetPairId(a, b)
             M == Transfer(Transfer(L, a, u, p, m), b, p, u, n)
         IN  /\ M \in Ledger
             /\ M.issuance = L.issuance
             /\ Reserves(L, M, p, a, b, m, -n)
             /\ SameGap(L, M)
<1> DEFINE p  == GetPairId(a, b)
           L1 == Transfer(L, a, u, p, m)
           M  == Transfer(L1, b, p, u, n)
<1>1. a # b /\ p \in Accounts /\ u \in Accounts /\ u # p /\ u \notin Pools
  BY PoolFacts, LedgerAssumption, Zenon
<1> HIDE DEF p
<1>2. L1 \in Ledger /\ L1.issuance = L.issuance /\ Moved(L, L1, a, u, p, m) /\ SameGap(L, L1)
  BY <1>1, TransferFacts DEF p
<1> HIDE DEF L1
<1>3. M \in Ledger /\ M.issuance = L1.issuance /\ Moved(L1, M, b, p, u, n) /\ SameGap(L1, M)
  BY <1>1, <1>2, TransferFacts DEF p, L1
<1> HIDE DEF M
<1>4. \A x \in Assets, w \in Accounts : L.free[x][w] \in Int
  BY DEF Ledger
<1>5. Reserves(L, M, p, a, b, m, -n)
  BY <1>1, <1>2, <1>3, <1>4 DEF Moved, Reserves, Accounts
<1>6. SameGap(L, M)
  BY <1>2, <1>3, GapTwice, Zenon
<1> QED
  BY <1>2, <1>3, <1>5, <1>6, Zenon DEF p, L1, M

\* Exchanging one asset against the other, the pool paying first.
LEMMA SwapOutFacts ==
  ASSUME NEW L \in Ledger, NEW u \in Users, NEW a \in Assets, NEW b \in Assets,
         NEW m \in Nat, NEW n \in Nat, GetPairId(a, b) \in Pools,
         CanTransfer(L, b, GetPairId(a, b), u, n),
         CanTransfer(Transfer(L, b, GetPairId(a, b), u, n), a, u, GetPairId(a, b), m)
  PROVE  LET p == GetPairId(a, b)
             M == Transfer(Transfer(L, b, p, u, n), a, u, p, m)
         IN  /\ M \in Ledger
             /\ M.issuance = L.issuance
             /\ Reserves(L, M, p, a, b, m, -n)
             /\ SameGap(L, M)
<1> DEFINE p  == GetPairId(a, b)
           L1 == Transfer(L, b, p, u, n)
           M  == Transfer(L1, a, u, p, m)
<1>1. a # b /\ p \in Accounts /\ u \in Accounts /\ u # p /\ u \notin Pools
  BY PoolFacts, LedgerAssumption, Zenon
<1> HIDE DEF p
<1>2. L1 \in Ledger /\ L1.issuance = L.issuance /\ Moved(L, L1, b, p, u, n) /\ SameGap(L, L1)
  BY <1>1, TransferFacts DEF p
<1> HIDE DEF L1
<1>3. M \in Ledger /\ M.issuance = L1.issuance /\ Moved(L1, M, a, u, p, m) /\ SameGap(L1, M)
  BY <1>1, <1>2, TransferFacts DEF p, L1
<1> HIDE DEF M
<1>4. \A x \in Assets, w \in Accounts : L.free[x][w] \in Int
  BY DEF Ledger
<1>5. Reserves(L, M, p, a, b, m, -n)
  BY <1>1, <1>2, <1>3, <1>4 DEF Moved, Reserves, Accounts
<1>6. SameGap(L, M)
  BY <1>2, <1>3, GapTwice, Zenon
<1> QED
  BY <1>2, <1>3, <1>5, <1>6, Zenon DEF p, L1, M

\* What user u and the others have after u gave m of a for n of b.
Exchanged(L, M, u, a, b, m, n) ==
  \A x \in Assets, w \in Users :
    M.free[x][w] = IF w = u /\ x = a THEN L.free[x][w] - m
                   ELSE IF w = u /\ x = b THEN L.free[x][w] + n
                   ELSE L.free[x][w]

\* The same exchange, as its user and the others see it.
LEMMA SwapOutUsers ==
  ASSUME NEW L \in Ledger, NEW u \in Users, NEW a \in Assets, NEW b \in Assets,
         NEW m \in Nat, NEW n \in Nat, GetPairId(a, b) \in Pools,
         CanTransfer(L, b, GetPairId(a, b), u, n),
         CanTransfer(Transfer(L, b, GetPairId(a, b), u, n), a, u, GetPairId(a, b), m)
  PROVE  LET p == GetPairId(a, b)
             M == Transfer(Transfer(L, b, p, u, n), a, u, p, m)
         IN  Exchanged(L, M, u, a, b, m, n)
<1> DEFINE p  == GetPairId(a, b)
           L1 == Transfer(L, b, p, u, n)
           M  == Transfer(L1, a, u, p, m)
<1>1. /\ a # b /\ p \in Accounts /\ u \in Accounts /\ u # p
      /\ \A w \in Users : w # p /\ w \in Accounts
  BY PoolFacts, Zenon
<1> HIDE DEF p
<1>2. L1 \in Ledger /\ Moved(L, L1, b, p, u, n)
  BY <1>1, TransferFacts, Zenon DEF p
<1> HIDE DEF L1
<1>3. Moved(L1, M, a, u, p, m)
  BY <1>1, <1>2, TransferFacts, Zenon DEF p, L1
<1> HIDE DEF M
<1>4. Exchanged(L, M, u, a, b, m, n)
  BY <1>1, <1>2, <1>3 DEF Moved, Exchanged
<1> QED
  BY <1>4, Zenon DEF p, L1, M

\* A fee, and a spot price out of a non-empty reserve, are natural numbers.
LEMMA FeeIsNat ==
  ASSUME NEW amount \in Nat, NEW d \in BOOLEAN
  PROVE  JustFee(amount, FeeRate(d)) \in Nat
<1>1. /\ FeeRate(d).numerator \in Nat
      /\ FeeRate(d).denominator \in Nat \ {0}
  BY XykAssumption DEF FeeRate, DiscountedFee
<1>2. amount * FeeRate(d).numerator \in Nat
  BY <1>1
<1> QED
  BY <1>1, <1>2, DivFacts, Zenon DEF JustFee

\* The native tokens a discounted trade burns are a natural number.
LEMMA DiscountIsNat ==
  ASSUME NEW L \in Ledger, NEW who \in Users, NEW asset \in Assets,
         NEW fee \in Nat, DiscountOk(L, who, asset, fee)
  PROVE  DiscountAmount(L, asset, fee) \in Nat
<1> DEFINE p == GetPairId(asset, CORE_ASSET_ID)
<1>1. p \in Accounts /\ CORE_ASSET_ID \in Assets
  BY LedgerAssumption, Zenon DEF DiscountOk, Exists, Accounts
<1>2. Reserve(L, asset, p) \in Nat \ {0} /\ Reserve(L, CORE_ASSET_ID, p) \in Nat
  BY <1>1 DEF DiscountOk, Reserve, FreeBalance, Ledger
<1>3. Reserve(L, CORE_ASSET_ID, p) * fee \in Nat
  BY <1>2
<1> QED
  BY <1>2, <1>3, DivFacts, Zenon DEF DiscountAmount, CalculateSpotPrice

\* A discount burns native tokens of a user at most: nothing of a pair account.
Charged(L, M) ==
  /\ \A x \in Assets : x # CORE_ASSET_ID => M.issuance[x] = L.issuance[x]
  /\ \A x \in Assets, q \in Pools : M.free[x][q] = L.free[x][q]

\* Burning the discount fee touches no pair account and no asset but the
\* native one.
LEMMA ChargeFacts ==
  ASSUME NEW L \in Ledger, NEW t, t.origin \in Users, t.discount_amount \in Nat,
         CanChargeDiscount(L, t)
  PROVE  LET M == ChargeDiscount(L, t)
         IN  /\ M \in Ledger
             /\ Charged(L, M)
             /\ SameGap(L, M)
<1>1. CORE_ASSET_ID \in Assets /\ t.origin \in Accounts /\ t.origin \notin Pools
  BY LedgerAssumption, Zenon DEF Accounts
<1>2. CASE t.discount
  <2> DEFINE M == Withdraw(L, CORE_ASSET_ID, t.origin, t.discount_amount)
  <2>1. /\ M \in Ledger /\ Burnt(L, M, CORE_ASSET_ID, t.origin, t.discount_amount)
        /\ SameGap(L, M)
    BY <1>1, <1>2, WithdrawFacts, Zenon DEF CanChargeDiscount
  <2>2. ChargeDiscount(L, t) = M
    BY <1>2, Zenon DEF ChargeDiscount
  <2> HIDE DEF M
  <2> QED
    BY <1>1, <2>1, <2>2, ZenonT(60) DEF Accounts, Ledger, Burnt, Charged
<1>3. CASE ~t.discount
  BY <1>3, Zenon DEF ChargeDiscount, Charged, SameGap
<1> QED
  BY <1>2, <1>3, Zenon

\* What a successful sell does.
SellEffect(who, a, b, amount, d) ==
  LET p   == GetPairId(a, b)
      out == SalePrice(ledger, a, b, amount, d)
  IN  /\ p \in Pools
      /\ out \in Nat
      /\ ledger' \in Ledger
      /\ \A x \in Assets : x # CORE_ASSET_ID => ledger'.issuance[x] = ledger.issuance[x]
      /\ Reserves(ledger, ledger', p, a, b, amount, -out)
      /\ SameGap(ledger, ledger')

\* A sell moves `amount` into the pool and the sale price out of it.
LEMMA SellFacts ==
  ASSUME TypeOK, NEW who \in Users, NEW a \in Assets, NEW b \in Assets,
         NEW amount \in Nat, NEW limit \in Nat, NEW d \in BOOLEAN,
         Sell(who, a, b, amount, limit, d)
  PROVE  SellEffect(who, a, b, amount, d)
<1> DEFINE p   == GetPairId(a, b)
           fee == JustFee(amount, FeeRate(d))
           out == SalePrice(ledger, a, b, amount, d)
           t   == SellTransfer(ledger, who, a, b, amount, d)
           L1  == ChargeDiscount(ledger, t)
<1>1. /\ p \in Pools
      /\ amount >= fee
      /\ Reserve(ledger, a, p) > 0
      /\ d => DiscountOk(ledger, who, a, fee)
  BY Zenon DEF Sell, ValidateSell, Exists
<1>2. fee \in Nat
  BY FeeIsNat, Zenon
<1>3. ledger \in Ledger /\ p \in Accounts
  BY <1>1, Zenon DEF TypeOK, Accounts
<1>4. out \in Nat
  <2>1. Reserve(ledger, a, p) \in Nat \ {0} /\ Reserve(ledger, b, p) \in Nat
    BY <1>1, <1>3 DEF Reserve, FreeBalance, Ledger
  <2>2. /\ Reserve(ledger, b, p) * (amount - fee) \in Nat
        /\ Reserve(ledger, a, p) + (amount - fee) \in Nat \ {0}
    BY <1>1, <1>2, <2>1
  <2> QED BY <2>2, DivFacts DEF SalePrice, CalculateOutGivenIn
<1>5. /\ t.origin = who /\ t.asset_in = a /\ t.asset_out = b
      /\ t.amount = amount /\ t.amount_out = out
      /\ t.discount_amount \in Nat
  <2>1. CASE d
    BY <1>1, <1>2, <1>3, <2>1, DiscountIsNat, Zenon DEF SellTransfer, FeeRate
  <2>2. CASE ~d
    BY <2>2, Zenon DEF SellTransfer
  <2> QED BY <2>1, <2>2, Zenon DEF SellTransfer
<1> HIDE DEF t, out, p, fee
<1>6. /\ CanChargeDiscount(ledger, t)
      /\ CanTransfer(L1, a, who, p, amount)
      /\ CanTransfer(Transfer(L1, a, who, p, amount), b, p, who, out)
      /\ ledger' = Transfer(Transfer(L1, a, who, p, amount), b, p, who, out)
  BY <1>5, Zenon DEF Sell, CanExecuteSell, ExecuteSell, t, p
<1>7. L1 \in Ledger /\ Charged(ledger, L1) /\ SameGap(ledger, L1)
  BY ONLY <1>3, <1>5, <1>6, ChargeFacts, ZenonT(60)
<1> HIDE DEF L1
<1>8. /\ ledger' \in Ledger
      /\ ledger'.issuance = L1.issuance
      /\ Reserves(L1, ledger', p, a, b, amount, -out)
      /\ SameGap(L1, ledger')
  BY ONLY <1>1, <1>4, <1>6, <1>7, SwapInFacts DEF p
<1>9. Reserves(ledger, ledger', p, a, b, amount, -out)
  BY <1>7, <1>8 DEF Reserves, Charged
<1>10. SameGap(ledger, ledger')
  BY <1>7, <1>8, GapTwice, Zenon
<1> QED
  BY <1>1, <1>4, <1>7, <1>8, <1>9, <1>10, Zenon DEF SellEffect, Charged, p, out

\* What a buy costs, and the fee in it, are natural numbers.
LEMMA BuyCostIsNat ==
  ASSUME TypeOK, NEW who \in Users, NEW a \in Assets, NEW b \in Assets,
         NEW amount \in Nat, NEW limit \in Nat, NEW d \in BOOLEAN,
         ValidateBuy(ledger, who, a, b, amount, limit, d)
  PROVE  /\ BuyPriceWithFee(ledger, a, b, amount, d) \in Nat
         /\ BuyFee(ledger, a, b, amount, TRUE) \in Nat
<1> DEFINE p     == GetPairId(a, b)
           price == BuyPrice(ledger, a, b, amount)
           fee   == BuyFee(ledger, a, b, amount, d)
           cost  == BuyPriceWithFee(ledger, a, b, amount, d)
<1>1. p \in Pools /\ Reserve(ledger, b, p) > amount
  BY ZenonT(60) DEF ValidateBuy, Exists
<1>2. ledger \in Ledger /\ p \in Accounts
  BY <1>1, Zenon DEF TypeOK, Accounts
<1>3. price \in Nat
  <2>1. Reserve(ledger, a, p) \in Nat /\ Reserve(ledger, b, p) \in Nat
    BY <1>2, Zenon DEF Reserve, FreeBalance, Ledger
  <2> QED BY <1>1, <2>1, BuyProduct, Zenon DEF BuyPrice
<1>4. cost \in Nat /\ BuyFee(ledger, a, b, amount, TRUE) \in Nat
  <2>1. fee \in Nat
    BY <1>3, FeeIsNat, Zenon DEF BuyFee
  <2>2. BuyFee(ledger, a, b, amount, TRUE) \in Nat
    BY <1>3, FeeIsNat, Zenon DEF BuyFee
  <2>3. cost = price + fee
    BY Zenon DEF BuyPriceWithFee
  <2> HIDE DEF price, fee, cost
  <2>4. cost \in Nat
    BY <1>3, <2>1, <2>3
  <2> QED BY <2>2, <2>4, Zenon
<1> QED
  BY <1>4, ZenonT(60)

\* What a successful buy does.
BuyEffect(who, a, b, amount, d) ==
  LET p    == GetPairId(a, b)
      cost == BuyPriceWithFee(ledger, a, b, amount, d)
  IN  /\ p \in Pools
      /\ cost \in Nat
      /\ ledger' \in Ledger
      /\ \A x \in Assets : x # CORE_ASSET_ID => ledger'.issuance[x] = ledger.issuance[x]
      /\ Reserves(ledger, ledger', p, a, b, cost, -amount)
      /\ SameGap(ledger, ledger')

\* A buy moves the price and the fee into the pool and `amount` out of it.
LEMMA BuyFacts ==
  ASSUME TypeOK, NEW who \in Users, NEW a \in Assets, NEW b \in Assets,
         NEW amount \in Nat, NEW limit \in Nat, NEW d \in BOOLEAN,
         Buy(who, a, b, amount, limit, d)
  PROVE  BuyEffect(who, a, b, amount, d)
<1> DEFINE p    == GetPairId(a, b)
           cost == BuyPriceWithFee(ledger, a, b, amount, d)
           t    == BuyTransfer(ledger, who, a, b, amount, d)
           L1   == ChargeDiscount(ledger, t)
<1>1. /\ p \in Pools
      /\ Reserve(ledger, b, p) > amount
      /\ d => DiscountOk(ledger, who, b, BuyFee(ledger, a, b, amount, TRUE))
  BY ZenonT(60) DEF Buy, ValidateBuy, Exists
<1>2. ledger \in Ledger /\ p \in Accounts
  BY <1>1, Zenon DEF TypeOK, Accounts
<1>3. cost \in Nat /\ BuyFee(ledger, a, b, amount, TRUE) \in Nat
  BY BuyCostIsNat, Zenon DEF Buy
<1>4. /\ t.origin = who /\ t.asset_in = a /\ t.asset_out = b
      /\ t.amount = amount /\ t.amount_out = cost
      /\ t.discount_amount \in Nat
  <2>1. CASE d
    BY <1>1, <1>2, <1>3, <2>1, DiscountIsNat, ZenonT(60) DEF BuyTransfer
  <2>2. CASE ~d
    BY <2>2, Zenon DEF BuyTransfer
  <2> QED BY <2>1, <2>2, Zenon DEF BuyTransfer
<1> HIDE DEF t, cost, p
<1>5. /\ CanChargeDiscount(ledger, t)
      /\ CanTransfer(L1, b, p, who, amount)
      /\ CanTransfer(Transfer(L1, b, p, who, amount), a, who, p, cost)
      /\ ledger' = Transfer(Transfer(L1, b, p, who, amount), a, who, p, cost)
  BY <1>4, Zenon DEF Buy, CanExecuteBuy, ExecuteBuy, t, p
<1>6. L1 \in Ledger /\ Charged(ledger, L1) /\ SameGap(ledger, L1)
  BY ONLY <1>2, <1>4, <1>5, ChargeFacts, ZenonT(60)
<1> HIDE DEF L1
<1>7. /\ ledger' \in Ledger
      /\ ledger'.issuance = L1.issuance
      /\ Reserves(L1, ledger', p, a, b, cost, -amount)
      /\ SameGap(L1, ledger')
  BY ONLY <1>1, <1>3, <1>5, <1>6, SwapOutFacts DEF p
<1>8. Reserves(ledger, ledger', p, a, b, cost, -amount)
  BY <1>6, <1>7 DEF Reserves, Charged
<1>9. SameGap(ledger, ledger')
  BY <1>6, <1>7, GapTwice, ZenonT(60)
<1> QED
  BY <1>1, <1>3, <1>6, <1>7, <1>8, <1>9, Zenon DEF BuyEffect, Charged, p, cost

\* What a successful create_pool does to the ledger.
CreateEffect(who, a, b, amount, price) ==
  LET p        == GetPairId(a, b)
      amount_b == PriceTimes(price, amount)
      shares   == IF a < b THEN amount ELSE amount_b
      share    == AssetOf(p)
  IN  /\ p \in Pools
      /\ ShareToken[p] = None
      /\ amount_b \in Nat /\ shares \in Nat /\ share \in Assets
      /\ ledger' \in Ledger
      /\ ledger'.issuance = [ledger.issuance EXCEPT ![share] = @ + shares]
      /\ Reserves(ledger, ledger', p, a, b, amount, amount_b)
      /\ SameGap(ledger, ledger')

\* A create_pool moves both amounts into the pool and mints its first shares.
LEMMA CreateFacts ==
  ASSUME TypeOK, NEW who \in Users, NEW a \in Assets, NEW b \in Assets,
         NEW amount \in Nat, NEW price \in Nat \X (Nat \ {0}),
         CreatePool(who, a, b, amount, price)
  PROVE  CreateEffect(who, a, b, amount, price)
<1> DEFINE p        == GetPairId(a, b)
           amount_b == PriceTimes(price, amount)
           shares   == IF a < b THEN amount ELSE amount_b
           share    == AssetOf(p)
           L2       == Transfer(Transfer(ledger, a, who, p, amount), b, who, p, amount_b)
<1>1. p \in Pools /\ ShareToken[p] = None
  BY Zenon DEF CreatePool, Exists
<1>2. amount_b \in Nat
  <2>1. price[1] * amount \in Nat /\ price[2] \in Nat \ {0}
    OBVIOUS
  <2> QED BY <2>1, DivFacts, Zenon DEF PriceTimes
<1>3. shares \in Nat
  BY <1>2, Zenon
<1>4. share \in Assets
  BY <1>1, XykAssumption, Zenon DEF AssetOf, TypeOK
<1>5. /\ CanTransfer(ledger, a, who, p, amount)
      /\ CanTransfer(Transfer(ledger, a, who, p, amount), b, who, p, amount_b)
      /\ ledger' = Deposit(L2, share, who, shares)
  BY Zenon DEF CreatePool
<1> HIDE DEF p, amount_b, shares, share
<1>6. /\ L2 \in Ledger
      /\ L2.issuance = ledger.issuance
      /\ Reserves(ledger, L2, p, a, b, amount, amount_b)
      /\ SameGap(ledger, L2)
  BY <1>1, <1>2, <1>5, PayInFacts, Zenon DEF TypeOK, p
<1>7. who \in Accounts /\ who \notin Pools
  BY ONLY LedgerAssumption, Zenon DEF Accounts
<1> HIDE DEF L2
<1>8. ledger' \in Ledger /\ Minted(L2, ledger', share, who, shares) /\ SameGap(L2, ledger')
  <2>1. L2 \in Ledger /\ ledger' = Deposit(L2, share, who, shares)
    BY ONLY <1>5, <1>6, ZenonT(60)
  <2> QED BY ONLY <1>3, <1>4, <1>7, <2>1, DepositFacts, Zenon
<1>9. Reserves(ledger, ledger', p, a, b, amount, amount_b)
  BY ONLY <1>6, <1>7, <1>8 DEF Reserves, Accounts, Minted
<1>10. SameGap(ledger, ledger')
  BY <1>6, <1>8, GapTwice, ZenonT(60)
<1> QED
  BY <1>1, <1>2, <1>3, <1>4, <1>6, <1>8, <1>9, <1>10, Zenon
  DEF CreateEffect, Minted, p, amount_b, shares, share

\* What a successful add_liquidity does to the ledger.
AddEffect(who, a, b, amount) ==
  LET p        == GetPairId(a, b)
      required == AmountBRequired(a, b, amount)
      shares   == SharesAdded(a, b, amount)
  IN  /\ p \in Pools
      /\ ShareToken[p] # None
      /\ required \in Nat /\ shares \in Nat /\ shares > 0
      /\ ledger' \in Ledger
      /\ ledger'.issuance = [ledger.issuance EXCEPT ![ShareToken[p]] = @ + shares]
      /\ Reserves(ledger, ledger', p, a, b, amount, required)
      /\ SameGap(ledger, ledger')

\* An add_liquidity moves both amounts into the pool and mints shares.
LEMMA AddFacts ==
  ASSUME TypeOK, NEW who \in Users, NEW a \in Assets, NEW b \in Assets,
         NEW amount \in Nat, NEW limit \in Nat,
         AddLiquidity(who, a, b, amount, limit)
  PROVE  AddEffect(who, a, b, amount)
<1> DEFINE p        == GetPairId(a, b)
           required == AmountBRequired(a, b, amount)
           shares   == SharesAdded(a, b, amount)
           share    == ShareToken[p]
           L2       == Transfer(Transfer(ledger, a, who, p, amount), b, who, p, required)
<1>1. p \in Pools /\ ShareToken[p] # None /\ Reserve(ledger, a, p) > 0
  BY Zenon DEF AddLiquidity, AddLiquidityChecks, Exists
<1>2. required \in Nat
  <2>1. Reserve(ledger, a, p) \in Nat \ {0} /\ Reserve(ledger, b, p) \in Nat
    BY <1>1 DEF Reserve, FreeBalance, Ledger, TypeOK, Accounts
  <2>2. Reserve(ledger, b, p) * amount \in Nat
    BY <2>1
  <2> QED BY <2>1, <2>2, DivFacts, Zenon DEF AmountBRequired, CalculateLiquidityIn
<1>3. shares \in Nat /\ shares > 0
  BY <1>2, Zenon DEF SharesAdded, AddLiquidity
<1>4. share \in Assets
  BY <1>1, Zenon DEF TypeOK
<1>5. /\ CanTransfer(ledger, a, who, p, amount)
      /\ CanTransfer(Transfer(ledger, a, who, p, amount), b, who, p, required)
      /\ ledger' = Deposit(L2, share, who, shares)
  BY Zenon DEF AddLiquidity
<1> HIDE DEF p, required, shares, share
<1>6. /\ L2 \in Ledger
      /\ L2.issuance = ledger.issuance
      /\ Reserves(ledger, L2, p, a, b, amount, required)
      /\ SameGap(ledger, L2)
  BY <1>1, <1>2, <1>5, PayInFacts, Zenon DEF TypeOK, p
<1>7. who \in Accounts /\ who \notin Pools
  BY ONLY LedgerAssumption, Zenon DEF Accounts
<1> HIDE DEF L2
<1>8. ledger' \in Ledger /\ Minted(L2, ledger', share, who, shares) /\ SameGap(L2, ledger')
  <2>1. L2 \in Ledger /\ ledger' = Deposit(L2, share, who, shares)
    BY ONLY <1>5, <1>6, ZenonT(60)
  <2> QED BY ONLY <1>3, <1>4, <1>7, <2>1, DepositFacts, Zenon
<1>9. Reserves(ledger, ledger', p, a, b, amount, required)
  BY ONLY <1>6, <1>7, <1>8 DEF Reserves, Accounts, Minted
<1>10. SameGap(ledger, ledger')
  BY <1>6, <1>8, GapTwice, Zenon
<1> QED
  BY <1>1, <1>2, <1>3, <1>6, <1>8, <1>9, <1>10, Zenon DEF AddEffect, Minted, p, required, shares, share

\* What a successful remove_liquidity does to the ledger.
RemoveEffect(who, a, b, amount) ==
  LET p     == GetPairId(a, b)
      out_a == RemoveAmount(a, p, amount)
      out_b == RemoveAmount(b, p, amount)
  IN  /\ p \in Pools
      /\ ShareToken[p] # None
      /\ amount # 0 /\ amount <= TotalLiquidity[p]
      /\ out_a \in Nat /\ out_b \in Nat
      /\ ledger' \in Ledger
      /\ ledger'.issuance = [ledger.issuance EXCEPT ![ShareToken[p]] = @ - amount]
      /\ Reserves(ledger, ledger', p, a, b, -out_a, -out_b)
      /\ SameGap(ledger, ledger')

\* A remove_liquidity moves both amounts out of the pool and burns shares.
LEMMA RemoveFacts ==
  ASSUME TypeOK, NEW who \in Users, NEW a \in Assets, NEW b \in Assets,
         NEW amount \in Nat, RemoveLiquidity(who, a, b, amount)
  PROVE  RemoveEffect(who, a, b, amount)
<1> DEFINE p     == GetPairId(a, b)
           share == ShareToken[p]
           out_a == RemoveAmount(a, p, amount)
           out_b == RemoveAmount(b, p, amount)
           L2    == Transfer(Transfer(ledger, a, p, who, out_a), b, p, who, out_b)
<1>1. /\ p \in Pools /\ ShareToken[p] # None
      /\ amount # 0 /\ amount <= TotalLiquidity[p]
  <2>1. TotalLiquidity[p] >= amount /\ p \in Pools /\ ShareToken[p] # None /\ amount # 0
    BY Zenon DEF RemoveLiquidity, Exists
  <2> QED BY <2>1, Zenon DEF TypeOK
<1>2. out_a \in Nat /\ out_b \in Nat
  <2>1. /\ Reserve(ledger, a, p) \in Nat /\ Reserve(ledger, b, p) \in Nat
        /\ TotalLiquidity[p] \in Nat \ {0}
    BY <1>1 DEF Reserve, FreeBalance, Ledger, TypeOK, Accounts
  <2> QED BY <1>1, <2>1, RemoveProportional, ZenonT(60) DEF RemoveAmount
<1>3. share \in Assets
  BY <1>1, Zenon DEF TypeOK
<1>4. /\ CanTransfer(ledger, a, p, who, out_a)
      /\ CanTransfer(Transfer(ledger, a, p, who, out_a), b, p, who, out_b)
      /\ CanWithdraw(L2, share, who, amount)
      /\ ledger' = Withdraw(L2, share, who, amount)
  BY Zenon DEF RemoveLiquidity, LiquidityLeft
<1> HIDE DEF p, out_a, out_b, share
<1>5. /\ L2 \in Ledger
      /\ L2.issuance = ledger.issuance
      /\ Reserves(ledger, L2, p, a, b, -out_a, -out_b)
      /\ SameGap(ledger, L2)
  BY <1>1, <1>2, <1>4, PayOutFacts, Zenon DEF TypeOK, p
<1>6. who \in Accounts /\ who \notin Pools
  BY ONLY LedgerAssumption, Zenon DEF Accounts
<1> HIDE DEF L2
<1>7. ledger' \in Ledger /\ Burnt(L2, ledger', share, who, amount) /\ SameGap(L2, ledger')
  <2>1. CanWithdraw(L2, share, who, amount) /\ ledger' = Withdraw(L2, share, who, amount)
    BY ONLY <1>4, ZenonT(60)
  <2> QED BY ONLY <1>3, <1>5, <1>6, <2>1, WithdrawFacts, Zenon
<1>8. Reserves(ledger, ledger', p, a, b, -out_a, -out_b)
  BY ONLY <1>5, <1>6, <1>7 DEF Reserves, Accounts, Burnt
<1>9. SameGap(ledger, ledger')
  BY <1>5, <1>7, GapTwice, ZenonT(60)
<1> QED
  BY <1>1, <1>2, <1>5, <1>7, <1>8, <1>9, ZenonT(60) DEF RemoveEffect, Burnt, p, out_a, out_b, share

-----------------------------------------------------------------------------
(* What every call keeps                                                   *)

\* create_pool registers the name of the share token, unless a former pool of
\* the pair did.
LEMMA CreateRegisters ==
  ASSUME TypeOK, NEW who \in Users, NEW a \in Assets, NEW b \in Assets,
         NEW amount \in Nat, NEW price \in Nat \X (Nat \ {0}),
         CreatePool(who, a, b, amount, price)
  PROVE  LET p     == GetPairId(a, b)
             share == AssetOf(p)
         IN  /\ AssetIds' = [AssetIds EXCEPT ![p] = share]
             /\ NextAssetId' \in FirstAssetId .. MaxAssetId
             /\ NextAssetId <= NextAssetId'
             /\ share \in FirstAssetId .. MaxAssetId
             /\ AssetIds[p] = None => share = NextAssetId /\ share < NextAssetId'
             /\ AssetIds[p] # None => share = AssetIds[p]
<1> DEFINE p == GetPairId(a, b)
<1>1. GetOrCreateAsset(p) /\ CanGetOrCreateAsset(p) /\ p \in Pools
  BY Zenon DEF CreatePool
<1> HIDE DEF p
<1>2. CASE AssetIds[p] = None
  BY <1>1, <1>2, RegistryAssumption
  DEF GetOrCreateAsset, CanGetOrCreateAsset, TypeOK, AssetOf, p
<1>3. CASE AssetIds[p] # None
  BY <1>1, <1>3, RegistryAssumption DEF GetOrCreateAsset, TypeOK, AssetOf, p
<1> QED
  BY <1>2, <1>3, Zenon

\* The assets recorded for a pool are those of its pair, in either order, and
\* are recorded as long as the pool exists.
PoolsKnown ==
  \A p \in Pools : IF ShareToken[p] = None
                   THEN PoolAssets[p] = None
                   ELSE PoolAssets[p] \in {<<p[1], p[2]>>, <<p[2], p[1]>>}

\* A step that leaves the storage of the pallet alone.
LEMMA StorageKept ==
  ASSUME TypeOK, ledger' \in Ledger,
         UNCHANGED <<ShareToken, TotalLiquidity, PoolAssets, AssetIds, NextAssetId>>
  PROVE  TypeOK' /\ (PoolsKnown => PoolsKnown')
BY Zenon DEF TypeOK, PoolsKnown

\* Every call keeps the types, the assets of the pools, and the difference
\* between what is issued and what is held of each asset.
LEMMA CallKeeps ==
  ASSUME TypeOK, NEW who \in Users, CallOf(who)
  PROVE  TypeOK' /\ (PoolsKnown => PoolsKnown') /\ SameGap(ledger, ledger')
<1> DEFINE Kept == TypeOK' /\ (PoolsKnown => PoolsKnown') /\ SameGap(ledger, ledger')
<1>1. ASSUME NEW a \in Assets, NEW b \in Assets,
             NEW amount \in Amounts, NEW price \in Prices,
             CreatePool(who, a, b, amount, price)
      PROVE  Kept
  <2> DEFINE p      == GetPairId(a, b)
             shares == IF a < b THEN amount ELSE PriceTimes(price, amount)
             share  == AssetOf(p)
  <2>1. amount \in Nat /\ price \in Nat \X (Nat \ {0})
    BY XykAssumption, Zenon
  <2>2. /\ p \in Pools /\ shares \in Nat /\ share \in Assets
        /\ ledger' \in Ledger /\ SameGap(ledger, ledger')
    BY <1>1, <2>1, CreateFacts, ZenonT(60) DEF CreateEffect
  <2>3. /\ ShareToken' = [ShareToken EXCEPT ![p] = share]
        /\ TotalLiquidity' = [TotalLiquidity EXCEPT ![p] = shares]
        /\ PoolAssets' = [PoolAssets EXCEPT ![p] = <<a, b>>]
    BY <1>1, Zenon DEF CreatePool
  <2>4. /\ AssetIds' = [AssetIds EXCEPT ![p] = share]
        /\ NextAssetId' \in FirstAssetId .. MaxAssetId
        /\ share \in FirstAssetId .. MaxAssetId
    BY <1>1, <2>1, CreateRegisters
  <2>5. p = <<a, b>> \/ p = <<b, a>>
    BY <2>2, PoolFacts, ZenonT(60)
  <2> HIDE DEF p, shares, share
  <2>6. TypeOK'
    BY <2>2, <2>3, <2>4 DEF TypeOK
  <2>7. share # None
    BY <2>4, RegistryAssumption
  <2>8. PoolsKnown => PoolsKnown'
    BY <2>2, <2>3, <2>5, <2>7 DEF PoolsKnown, TypeOK
  <2>. QED
    BY <2>2, <2>6, <2>8, Zenon
<1>2. ASSUME NEW a \in Assets, NEW b \in Assets,
             NEW amount \in Amounts, NEW limit \in Limits,
             AddLiquidity(who, a, b, amount, limit)
      PROVE  Kept
  <2> DEFINE p == GetPairId(a, b)
             shares == SharesAdded(a, b, amount)
  <2>1. /\ p \in Pools /\ shares \in Nat
        /\ ledger' \in Ledger /\ SameGap(ledger, ledger')
    BY <1>2, AddFacts, XykAssumption, ZenonT(60) DEF AddEffect
  <2>2. /\ TotalLiquidity' = [TotalLiquidity EXCEPT ![p] = @ + shares]
        /\ UNCHANGED <<ShareToken, PoolAssets, AssetIds, NextAssetId>>
    BY <1>2, Zenon DEF AddLiquidity
  <2> HIDE DEF p, shares
  <2>. QED
    BY <2>1, <2>2 DEF TypeOK, PoolsKnown
<1>3. ASSUME NEW a \in Assets, NEW b \in Assets,
             NEW amount \in Amounts, RemoveLiquidity(who, a, b, amount)
      PROVE  Kept
  <2> DEFINE p == GetPairId(a, b)
             left == TotalLiquidity[p] - amount
  <2>1. amount \in Nat /\ RemoveEffect(who, a, b, amount)
    BY <1>3, RemoveFacts, XykAssumption, Zenon
  <2>2. /\ p \in Pools /\ amount <= TotalLiquidity[p]
        /\ ledger' \in Ledger /\ SameGap(ledger, ledger')
    BY <2>1, ZenonT(60) DEF RemoveEffect
  <2>3. /\ TotalLiquidity' = [TotalLiquidity EXCEPT ![p] = left]
        /\ ShareToken' = [ShareToken EXCEPT ![p] = IF left = 0 THEN None ELSE @]
        /\ PoolAssets' = [PoolAssets EXCEPT ![p] = IF left = 0 THEN None ELSE @]
        /\ UNCHANGED <<AssetIds, NextAssetId>>
    BY <1>3, Zenon DEF RemoveLiquidity, LiquidityLeft
  <2>4. TotalLiquidity[p] \in Nat
    BY <2>2, Zenon DEF TypeOK
  <2> HIDE DEF p
  <2>5. left \in Nat
    BY <2>1, <2>2, <2>4
  <2> HIDE DEF left
  <2>6. TypeOK'
    BY <2>2, <2>3, <2>5 DEF TypeOK
  <2>7. PoolsKnown => PoolsKnown'
    BY <2>2, <2>3, Zenon DEF PoolsKnown, TypeOK
  <2>. QED
    BY <2>2, <2>6, <2>7, Zenon
<1>4. ASSUME NEW a \in Assets, NEW b \in Assets,
             NEW amount \in Amounts, NEW limit \in Limits, NEW d \in BOOLEAN,
             Sell(who, a, b, amount, limit, d)
      PROVE  Kept
  <2>1. SellEffect(who, a, b, amount, d)
    BY <1>4, SellFacts, XykAssumption
  <2> QED BY <1>4, <2>1, StorageKept, ZenonT(60) DEF SellEffect, Sell
<1>5. ASSUME NEW a \in Assets, NEW b \in Assets,
             NEW amount \in Amounts, NEW limit \in Limits, NEW d \in BOOLEAN,
             Buy(who, a, b, amount, limit, d)
      PROVE  Kept
  <2>1. BuyEffect(who, a, b, amount, d)
    BY <1>5, BuyFacts, XykAssumption
  <2> QED BY <1>5, <2>1, StorageKept, Zenon DEF BuyEffect, Buy
<1>6. ASSUME NEW to \in Accounts, NEW asset \in Assets,
             NEW amount \in TransferAmounts, CurrencyTransfer(who, to, asset, amount)
      PROVE  Kept
  <2>1. who \in Accounts /\ amount \in Nat /\ who # to
    BY <1>6, XykAssumption, Zenon DEF Accounts, CurrencyTransfer
  <2>2. ledger' \in Ledger /\ SameGap(ledger, ledger')
    BY <1>6, <2>1, TransferFacts, Zenon DEF CurrencyTransfer, TypeOK
  <2> QED BY <1>6, <2>2, StorageKept, Zenon DEF CurrencyTransfer
<1> HIDE DEF Kept
<1>7. Kept
  BY <1>1, <1>2, <1>3, <1>4, <1>5, <1>6, Zenon DEF CallOf
<1> QED
  BY <1>7, Zenon DEF Kept

-----------------------------------------------------------------------------
(* The inductive invariant                                                 *)

\* SharesMatchLiquidity alone is not inductive: a new pool's share token must
\* be known to be nobody else's and to have no issuance yet.
IndInv == TypeOK /\ SharesMatchLiquidity /\ ShareTokensAreFresh

\* A step that leaves the storage of the pallet, and the issuance of all but
\* the native asset, alone.
LEMMA LedgerOnlyStep ==
  ASSUME IndInv, ledger' \in Ledger,
         \A x \in Assets : x # CORE_ASSET_ID => ledger'.issuance[x] = ledger.issuance[x],
         UNCHANGED <<ShareToken, TotalLiquidity, PoolAssets, AssetIds, NextAssetId>>
  PROVE  IndInv'
<1>1. TypeOK'
  BY Zenon DEF IndInv, TypeOK
<1>2. \A p \in Pools : AssetIds[p] # None =>
        AssetIds[p] \in Assets /\ AssetIds[p] # CORE_ASSET_ID
  BY RegistryAssumption, XykAssumption DEF IndInv, TypeOK, CORE_ASSET_ID
<1>3. SharesMatchLiquidity'
  BY <1>2, Zenon DEF IndInv, SharesMatchLiquidity
<1>4. NextAssetId > CORE_ASSET_ID
  BY RegistryAssumption DEF IndInv, TypeOK, CORE_ASSET_ID
<1>5. ShareTokensAreFresh'
  BY <1>4, LedgerAssumption, RegistryAssumption
  DEF IndInv, TypeOK, ShareTokensAreFresh, CORE_ASSET_ID
<1> QED
  BY <1>1, <1>3, <1>5, Zenon DEF IndInv

\* create_pool: the share token is fresh, or was left without a unit when the
\* previous pool of the pair was destroyed.
LEMMA CreateKeeps ==
  ASSUME IndInv, NEW who \in Users, NEW a \in Assets, NEW b \in Assets,
         NEW amount \in Nat, NEW price \in Nat \X (Nat \ {0}),
         CreatePool(who, a, b, amount, price)
  PROVE  IndInv'
<1> DEFINE p      == GetPairId(a, b)
           shares == IF a < b THEN amount ELSE PriceTimes(price, amount)
           share  == AssetOf(p)
<1>1. /\ p \in Pools /\ ShareToken[p] = None
      /\ shares \in Nat /\ share \in Assets
      /\ ledger' \in Ledger
      /\ ledger'.issuance = [ledger.issuance EXCEPT ![share] = @ + shares]
  BY CreateFacts DEF IndInv, CreateEffect
<1>2. /\ ShareToken' = [ShareToken EXCEPT ![p] = share]
      /\ TotalLiquidity' = [TotalLiquidity EXCEPT ![p] = shares]
      /\ PoolAssets' = [PoolAssets EXCEPT ![p] = <<a, b>>]
  BY Zenon DEF CreatePool
<1> HIDE DEF p, shares, share
<1>3. /\ AssetIds' = [AssetIds EXCEPT ![p] = share]
      /\ NextAssetId' \in FirstAssetId .. MaxAssetId
      /\ NextAssetId <= NextAssetId'
      /\ share < NextAssetId'
      /\ share \in FirstAssetId .. MaxAssetId
      /\ AssetIds[p] = None => share = NextAssetId
      /\ AssetIds[p] # None => share = AssetIds[p]
  <2>1. /\ AssetIds' = [AssetIds EXCEPT ![p] = share]
        /\ NextAssetId' \in FirstAssetId .. MaxAssetId
        /\ NextAssetId <= NextAssetId'
        /\ share \in FirstAssetId .. MaxAssetId
        /\ AssetIds[p] = None => share = NextAssetId /\ share < NextAssetId'
        /\ AssetIds[p] # None => share = AssetIds[p]
    BY CreateRegisters, ZenonT(60) DEF IndInv, p, share
  <2>2. AssetIds[p] # None => share < NextAssetId
    BY <1>1, <2>1, Zenon DEF IndInv, ShareTokensAreFresh
  <2>3. NextAssetId \in Int /\ NextAssetId' \in Int /\ share \in Int
    BY <2>1, RegistryAssumption DEF IndInv, TypeOK
  <2>. QED
    BY <2>1, <2>2, <2>3
<1>4. TypeOK'
  BY <1>1, <1>2, <1>3, Zenon DEF IndInv, TypeOK
<1>5. ledger.issuance[share] = 0
  <2>1. CASE AssetIds[p] = None
    BY <1>1, <1>3, <2>1, RegistryAssumption DEF IndInv, ShareTokensAreFresh, TypeOK
  <2>2. CASE AssetIds[p] # None
    BY <1>1, <1>3, <2>2, Zenon DEF IndInv, SharesMatchLiquidity
  <2> QED BY <2>1, <2>2, Zenon
<1>6. \A q \in Pools : q # p /\ AssetIds[q] # None => AssetIds[q] # share
  BY <1>1, <1>3, RegistryAssumption DEF IndInv, ShareTokensAreFresh, TypeOK
<1>7. ledger'.issuance[share] = shares
  BY <1>1, <1>5 DEF IndInv, TypeOK, Ledger
<1>8. share # None
  BY <1>3, RegistryAssumption
<1>9. \A q \in Pools : AssetIds[q] # None => AssetIds[q] \in Assets
  BY XykAssumption, Zenon DEF IndInv, TypeOK
<1>10. SharesMatchLiquidity'
  <2> SUFFICES ASSUME NEW q \in Pools
               PROVE  /\ AssetIds'[q] = None => TotalLiquidity'[q] = 0
                      /\ AssetIds'[q] # None =>
                           ledger'.issuance[AssetIds'[q]] = TotalLiquidity'[q]
                      /\ ShareToken'[q] = None => TotalLiquidity'[q] = 0
                      /\ ShareToken'[q] # None => ShareToken'[q] = AssetIds'[q]
    BY Zenon DEF SharesMatchLiquidity
  <2>1. CASE q = p
    BY <1>1, <1>2, <1>3, <1>7, <1>8, <2>1, Zenon DEF IndInv, TypeOK
  <2>2. CASE q # p
    <3>1. /\ AssetIds'[q] = AssetIds[q] /\ ShareToken'[q] = ShareToken[q]
          /\ TotalLiquidity'[q] = TotalLiquidity[q]
      BY <1>1, <1>2, <1>3, <2>2, Zenon DEF IndInv, TypeOK
    <3>2. AssetIds[q] # None =>
            ledger'.issuance[AssetIds[q]] = ledger.issuance[AssetIds[q]]
      BY <1>1, <1>6, <1>9, <2>2, Zenon DEF IndInv, TypeOK, Ledger
    <3> QED BY <3>1, <3>2, Zenon DEF IndInv, SharesMatchLiquidity
  <2> QED BY <2>1, <2>2, Zenon
<1>11. ShareTokensAreFresh'
  <2>1. \A q \in Pools : AssetIds'[q] # None => AssetIds'[q] < NextAssetId'
    BY <1>1, <1>3, RegistryAssumption DEF IndInv, ShareTokensAreFresh, TypeOK
  <2>2. \A q, r \in Pools : AssetIds'[q] # None /\ AssetIds'[q] = AssetIds'[r] => q = r
    BY <1>1, <1>3, <1>6, <1>8, Zenon DEF IndInv, ShareTokensAreFresh, TypeOK
  <2>3. \A x \in Assets : x >= NextAssetId' => ledger'.issuance[x] = 0
    BY <1>1, <1>3, LedgerAssumption, RegistryAssumption
    DEF IndInv, ShareTokensAreFresh, TypeOK, Ledger
  <2> QED BY <2>1, <2>2, <2>3, Zenon DEF ShareTokensAreFresh
<1> QED
  BY <1>4, <1>10, <1>11, Zenon DEF IndInv

\* A step of one existing pool that mints or burns as many of its shares as it
\* adds to or takes from its liquidity.
LEMMA LiquidityStep ==
  ASSUME IndInv, NEW p \in Pools, NEW share, share = ShareToken[p], share # None,
         NEW delta \in Int, TotalLiquidity[p] + delta \in Nat,
         ledger' \in Ledger,
         ledger'.issuance = [ledger.issuance EXCEPT ![share] = @ + delta],
         TotalLiquidity' = [TotalLiquidity EXCEPT ![p] = @ + delta],
         \/ ShareToken' = ShareToken /\ PoolAssets' = PoolAssets
         \/ /\ TotalLiquidity[p] + delta = 0
            /\ ShareToken' = [ShareToken EXCEPT ![p] = None]
            /\ PoolAssets' = [PoolAssets EXCEPT ![p] = None],
         UNCHANGED <<AssetIds, NextAssetId>>
  PROVE  IndInv'
<1>1. TypeOK'
  BY Zenon DEF IndInv, TypeOK
<1>2. share = AssetIds[p] /\ share \in Assets
  BY Zenon DEF IndInv, TypeOK, SharesMatchLiquidity
<1>3. \A q \in Pools : q # p /\ AssetIds[q] # None => AssetIds[q] # share
  BY <1>2, Zenon DEF IndInv, ShareTokensAreFresh
<1>4. ledger.issuance[share] = TotalLiquidity[p]
  BY <1>2, Zenon DEF IndInv, SharesMatchLiquidity
<1>5. ledger'.issuance[share] = TotalLiquidity'[p]
  BY <1>2, <1>4 DEF IndInv, TypeOK, Ledger
<1>6. \A q \in Pools : AssetIds[q] # None => AssetIds[q] \in Assets
  BY XykAssumption, Zenon DEF IndInv, TypeOK
<1>7. SharesMatchLiquidity'
  <2> SUFFICES ASSUME NEW q \in Pools
               PROVE  /\ AssetIds'[q] = None => TotalLiquidity'[q] = 0
                      /\ AssetIds'[q] # None =>
                           ledger'.issuance[AssetIds'[q]] = TotalLiquidity'[q]
                      /\ ShareToken'[q] = None => TotalLiquidity'[q] = 0
                      /\ ShareToken'[q] # None => ShareToken'[q] = AssetIds'[q]
    BY Zenon DEF SharesMatchLiquidity
  <2>1. CASE q = p
    BY <1>2, <1>5, <2>1, ZenonT(60) DEF IndInv, TypeOK
  <2>2. CASE q # p
    <3>1. /\ AssetIds'[q] = AssetIds[q] /\ ShareToken'[q] = ShareToken[q]
          /\ TotalLiquidity'[q] = TotalLiquidity[q]
      BY <2>2, Zenon DEF IndInv, TypeOK
    <3>2. AssetIds[q] # None =>
            ledger'.issuance[AssetIds[q]] = ledger.issuance[AssetIds[q]]
      BY <1>3, <1>6, <2>2, Zenon DEF IndInv, TypeOK, Ledger
    <3> QED BY <3>1, <3>2, Zenon DEF IndInv, SharesMatchLiquidity
  <2> QED BY <2>1, <2>2, Zenon
<1>8. ShareTokensAreFresh'
  <2>1. share < NextAssetId /\ share \in Nat /\ NextAssetId \in Nat
    BY <1>2, LedgerAssumption, RegistryAssumption DEF IndInv, ShareTokensAreFresh, TypeOK
  <2>2. \A x \in Assets : x >= NextAssetId' => ledger'.issuance[x] = 0
    BY <2>1 DEF IndInv, ShareTokensAreFresh, TypeOK, Ledger
  <2> QED BY <2>2, Zenon DEF IndInv, ShareTokensAreFresh
<1> QED
  BY <1>1, <1>7, <1>8, Zenon DEF IndInv

\* Every step of the pallet preserves the inductive invariant.
LEMMA IndInvStep ==
  ASSUME IndInv, [Next]_xykVars
  PROVE  IndInv'
<1>1. CASE UNCHANGED xykVars
  BY <1>1, Zenon DEF xykVars, IndInv, TypeOK, SharesMatchLiquidity, ShareTokensAreFresh
<1>2. ASSUME NEW who \in Users, NEW a \in Assets, NEW b \in Assets,
             NEW amount \in Amounts, NEW price \in Prices,
             CreatePool(who, a, b, amount, price)
      PROVE  IndInv'
  BY <1>2, CreateKeeps, XykAssumption, Zenon
<1>3. ASSUME NEW who \in Users, NEW a \in Assets, NEW b \in Assets,
             NEW amount \in Amounts, NEW limit \in Limits,
             AddLiquidity(who, a, b, amount, limit)
      PROVE  IndInv'
  <2> DEFINE p == GetPairId(a, b)
             shares == SharesAdded(a, b, amount)
  <2>1. AddEffect(who, a, b, amount)
    BY <1>3, AddFacts, XykAssumption, Zenon DEF IndInv
  <2>2. /\ p \in Pools /\ ShareToken[p] # None /\ shares \in Nat
        /\ ledger' \in Ledger
        /\ ledger'.issuance = [ledger.issuance EXCEPT ![ShareToken[p]] = @ + shares]
    BY <2>1, Zenon DEF AddEffect
  <2>3. /\ TotalLiquidity' = [TotalLiquidity EXCEPT ![p] = @ + shares]
        /\ UNCHANGED <<ShareToken, PoolAssets, AssetIds, NextAssetId>>
    BY <1>3, ZenonT(60) DEF AddLiquidity
  <2> HIDE DEF p, shares
  <2>4. TotalLiquidity[p] + shares \in Nat
    BY <2>2 DEF IndInv, TypeOK
  <2>5. shares \in Int /\ ShareToken' = ShareToken /\ PoolAssets' = PoolAssets
    BY <2>2, <2>3
  <2> QED BY <2>2, <2>3, <2>4, <2>5, LiquidityStep, ZenonT(60)
<1>4. ASSUME NEW who \in Users, NEW a \in Assets, NEW b \in Assets,
             NEW amount \in Amounts, RemoveLiquidity(who, a, b, amount)
      PROVE  IndInv'
  <2> DEFINE p == GetPairId(a, b)
             left == TotalLiquidity[p] - amount
  <2>1. RemoveEffect(who, a, b, amount) /\ amount \in Nat
    BY <1>4, RemoveFacts, XykAssumption, Zenon DEF IndInv
  <2>2. /\ p \in Pools /\ ShareToken[p] # None /\ amount <= TotalLiquidity[p]
        /\ ledger' \in Ledger
        /\ ledger'.issuance = [ledger.issuance EXCEPT ![ShareToken[p]] = @ - amount]
    BY <2>1, Zenon DEF RemoveEffect
  <2>3. /\ TotalLiquidity' = [TotalLiquidity EXCEPT ![p] = left]
        /\ ShareToken' = [ShareToken EXCEPT ![p] = IF left = 0 THEN None ELSE @]
        /\ PoolAssets' = [PoolAssets EXCEPT ![p] = IF left = 0 THEN None ELSE @]
        /\ UNCHANGED <<AssetIds, NextAssetId>>
    BY <1>4, Zenon DEF RemoveLiquidity, LiquidityLeft
  <2> HIDE DEF p
  <2>4. left = TotalLiquidity[p] + (-amount) /\ left \in Nat /\ -amount \in Int
    <3>1. TotalLiquidity[p] \in Nat
      BY <2>2, Zenon DEF IndInv, TypeOK
    <3>2. \A t, n \in Nat : n <= t => t - n = t + (-n) /\ t - n \in Nat /\ -n \in Int
      OBVIOUS
    <3>. QED
      BY <2>1, <2>2, <3>1, <3>2, ZenonT(60)
  <2>5. TotalLiquidity' = [TotalLiquidity EXCEPT ![p] = @ + (-amount)]
    BY <2>3, <2>4, ZenonT(60)
  <2>6. ledger'.issuance = [ledger.issuance EXCEPT ![ShareToken[p]] = @ + (-amount)]
    <3>1. ledger.issuance[ShareToken[p]] \in Int
      BY <2>2, Zenon DEF IndInv, TypeOK, Ledger
    <3>2. ledger.issuance[ShareToken[p]] - amount = ledger.issuance[ShareToken[p]] + (-amount)
      BY <2>1, <3>1, Zenon
    <3> QED BY <2>2, <3>2, ZenonT(60)
  <2>7. \/ ShareToken' = ShareToken /\ PoolAssets' = PoolAssets
        \/ /\ TotalLiquidity[p] + (-amount) = 0
           /\ ShareToken' = [ShareToken EXCEPT ![p] = None]
           /\ PoolAssets' = [PoolAssets EXCEPT ![p] = None]
    BY <2>3, <2>4, Zenon DEF IndInv, TypeOK
  <2> HIDE DEF left
  <2> QED BY <2>2, <2>3, <2>4, <2>5, <2>6, <2>7, LiquidityStep, ZenonT(60)
<1>5. ASSUME NEW who \in Users, NEW a \in Assets, NEW b \in Assets,
             NEW amount \in Amounts, NEW limit \in Limits, NEW d \in BOOLEAN,
             Sell(who, a, b, amount, limit, d)
      PROVE  IndInv'
  <2>1. SellEffect(who, a, b, amount, d)
    BY <1>5, SellFacts, XykAssumption DEF IndInv
  <2> QED BY <1>5, <2>1, LedgerOnlyStep, ZenonT(60) DEF SellEffect, Sell
<1>6. ASSUME NEW who \in Users, NEW a \in Assets, NEW b \in Assets,
             NEW amount \in Amounts, NEW limit \in Limits, NEW d \in BOOLEAN,
             Buy(who, a, b, amount, limit, d)
      PROVE  IndInv'
  <2>1. BuyEffect(who, a, b, amount, d)
    BY <1>6, BuyFacts, XykAssumption DEF IndInv
  <2> QED BY <1>6, <2>1, LedgerOnlyStep, ZenonT(60) DEF BuyEffect, Buy
<1>7. ASSUME NEW who \in Users, NEW to \in Accounts, NEW asset \in Assets,
             NEW amount \in TransferAmounts, CurrencyTransfer(who, to, asset, amount)
      PROVE  IndInv'
  <2>1. who \in Accounts /\ amount \in Nat /\ who # to
    BY <1>7, XykAssumption, Zenon DEF Accounts, CurrencyTransfer
  <2>2. ledger' \in Ledger /\ ledger'.issuance = ledger.issuance
    BY <1>7, <2>1, TransferFacts DEF CurrencyTransfer, IndInv, TypeOK
  <2> QED BY <1>7, <2>2, LedgerOnlyStep, ZenonT(60) DEF CurrencyTransfer
<1> QED
  BY <1>1, <1>2, <1>3, <1>4, <1>5, <1>6, <1>7 DEF Next, CallOf

\* The genesis state satisfies the inductive invariant.
LEMMA IndInvInit ==
  ASSUME Init
  PROVE  IndInv
<1>1. ledger \in Ledger /\ ledger.issuance = InitialIssuance
  BY LedgerAssumption, XykAssumption DEF Init, Ledger, Accounts, GenesisBalances
<1>2. NextAssetId = FirstAssetId /\ AssetIds = [n \in Pools |-> None]
  BY Zenon DEF Init, RegistryInit
<1>3. /\ ShareToken = [p \in Pools |-> None]
      /\ TotalLiquidity = [p \in Pools |-> 0]
      /\ PoolAssets = [p \in Pools |-> None]
  BY Zenon DEF Init
<1>4. TypeOK
  BY <1>1, <1>2, <1>3, RegistryAssumption DEF TypeOK
<1>5. SharesMatchLiquidity
  BY <1>2, <1>3, Zenon DEF SharesMatchLiquidity
<1>6. ShareTokensAreFresh
  BY <1>1, <1>2, XykAssumption, Zenon DEF ShareTokensAreFresh
<1> QED
  BY <1>4, <1>5, <1>6, Zenon DEF IndInv

\* The inductive invariant holds in every reachable state.
THEOREM IndInvHolds == Spec => []IndInv
<1>1. Init => IndInv
  BY IndInvInit, Zenon
<1>2. IndInv /\ [Next]_xykVars => IndInv'
  BY IndInvStep, Zenon
<1> QED
  BY <1>1, <1>2, PTL DEF Spec

\* No balance and no pool's liquidity ever becomes negative, and the storage
\* of the pallet stays well-typed, whatever calls succeed.
THEOREM TypeCorrect == Spec => []TypeOK
<1>1. IndInv => TypeOK
  BY Zenon DEF IndInv
<1> QED
  BY <1>1, IndInvHolds, PTL

\* The recorded liquidity of every pool is the number of its share tokens in
\* circulation, also after the pool was destroyed and created again.
THEOREM SharesMatch == Spec => []SharesMatchLiquidity
<1>1. IndInv => SharesMatchLiquidity
  BY Zenon DEF IndInv
<1> QED
  BY <1>1, IndInvHolds, PTL

\* No two pools ever have the same share token.
THEOREM SharesFresh == Spec => []ShareTokensAreFresh
<1>1. IndInv => ShareTokensAreFresh
  BY Zenon DEF IndInv
<1> QED
  BY <1>1, IndInvHolds, PTL
=============================================================================
