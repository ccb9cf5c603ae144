----------------------------- MODULE Currencies -----------------------------
(***************************************************************************)
(* The multi-currency ledger the pallets call through the traits           *)
(* MultiCurrency and MultiReservableCurrency (orml_currencies over         *)
(* orml_tokens, with the native asset in the balances pallet).  External   *)
(* to this repository except for the native part; modelled by what the     *)
(* pallets rely on.                                                        *)
(*                                                                         *)
(* A ledger is a value, so that a handler can be written as a composition  *)
(* of ledger operations.  Each operation Op comes with CanOp, the          *)
(* condition under which the call returns Ok.                              *)
(***************************************************************************)
EXTENDS Primitives, FiniteSets, Functions

CONSTANTS
  Users,     \* accounts that sign extrinsics
  Assets,    \* asset ids, the native one and share tokens included
  Pools,     \* ordered asset pairs that may get a pool; also pool accounts
  Frozen     \* native balance of each user that locks keep from being spent

ASSUME LedgerAssumption ==
  /\ Assets \subseteq Nat
  /\ CORE_ASSET_ID \in Assets
  /\ Pools \subseteq {p \in Assets \X Assets : p[1] < p[2]}
  /\ Users \intersect Pools = {}
  /\ IsFiniteSet(Users) /\ IsFiniteSet(Pools)
  /\ Frozen \in [Users -> Nat]

Accounts == Users \union Pools

Ledger == [free     : [Assets -> [Accounts -> Nat]],
           reserved : [Assets -> [Accounts -> Nat]],
           issuance : [Assets -> Int]]

FreeBalance(L, asset, who) == L.free[asset][who]

\* What all accounts together hold of an asset.
HeldIn(L, asset) ==
  SumFunction([w \in Accounts |-> L.free[asset][w] + L.reserved[asset][w]])

\* The balances with `delta` added to one of them.
AddTo(balances, asset, who, delta) ==
  [balances EXCEPT ![asset] = [balances[asset] EXCEPT ![who] = @ + delta]]

\* Locks exist only on the native asset, and never on a pool account.
FrozenBalance(asset, who) ==
  IF asset = CORE_ASSET_ID /\ who \in Users THEN Frozen[who] ELSE 0

(***************************************************************************)
(* ensure_can_withdraw: the balance that remains covers the locks.         *)
(***************************************************************************)
CanWithdraw(L, asset, who, amount) ==
  \/ amount = 0
  \/ FreeBalance(L, asset, who) - amount >= FrozenBalance(asset, who)

Withdraw(L, asset, who, amount) ==
  [free     |-> AddTo(L.free, asset, who, -amount),
   reserved |-> L.reserved,
   issuance |-> [L.issuance EXCEPT ![asset] = @ - amount]]

CanDeposit(L, asset, amount) == L.issuance[asset] + amount <= MaxBalance

Deposit(L, asset, who, amount) ==
  [free     |-> AddTo(L.free, asset, who, amount),
   reserved |-> L.reserved,
   issuance |-> [L.issuance EXCEPT ![asset] = @ + amount]]

CanTransfer(L, asset, from, to, amount) ==
  \/ from = to
  \/ CanWithdraw(L, asset, from, amount)

Transfer(L, asset, from, to, amount) ==
  [free     |-> AddTo(AddTo(L.free, asset, from, -amount), asset, to, amount),
   reserved |-> L.reserved,
   issuance |-> L.issuance]

-----------------------------------------------------------------------------
(* MultiReservableCurrency                                                 *)

CanReserve(L, asset, who, amount) == CanWithdraw(L, asset, who, amount)

\* Moves `amount` between the free and the reserved balance of an account.
SetAside(L, asset, who, amount) ==
  [free     |-> AddTo(L.free, asset, who, -amount),
   reserved |-> AddTo(L.reserved, asset, who, amount),
   issuance |-> L.issuance]

\* unreserve and repatriate_reserved take what is there when it is less.
Available(L, asset, who, amount) ==
  IF amount <= L.reserved[asset][who] THEN amount ELSE L.reserved[asset][who]

Unreserve(L, asset, who, amount) ==
  SetAside(L, asset, who, -Available(L, asset, who, amount))

\* The balances pallet has no entry for an account without balance and locks.
IsDead(L, who) ==
  /\ L.free[CORE_ASSET_ID][who] = 0
  /\ L.reserved[CORE_ASSET_ID][who] = 0
  /\ FrozenBalance(CORE_ASSET_ID, who) = 0

\* Only the native asset is kept in the balances pallet, which pays no
\* reserved amount to a dead account.
CanRepatriate(L, asset, from, to, amount) ==
  amount = 0 \/ from = to \/ asset # CORE_ASSET_ID \/ ~IsDead(L, to)

RepatriateReserved(L, asset, from, to, amount) ==
  LET actual == Available(L, asset, from, amount)
  IN  [free     |-> AddTo(L.free, asset, to, actual),
       reserved |-> AddTo(L.reserved, asset, from, -actual),
       issuance |-> L.issuance]
=============================================================================
