------------------------------ MODULE Exchange ------------------------------
(***************************************************************************)
(* The exchange pallet, composed with the pools of the xyk pallet.  During *)
(* a block users register intentions to sell or to buy; on_finalize        *)
(* matches intentions of opposite directions, trades them directly between *)
(* the accounts where it can, and sends the rest to the pool.              *)
(*                                                                         *)
(* on_finalize is cut into one step per pair, per main intention, per      *)
(* matched intention and per leftover.  Nothing else runs while it does:   *)
(* phase is "finalize" from its first step to its last.  It is never       *)
(* rolled back, so each failure path leaves what was done before it.       *)
(*                                                                         *)
(* As in Xyk, an operator directly before the one it resembles, with a     *)
(* suffix to its name, is a faulty variant that no action uses.            *)
(*                                                                         *)
(* Arithmetic that the code leaves unchecked wraps, as it does in the      *)
(* release build (WrapSub).                                                *)
(***************************************************************************)
EXTENDS Xyk, SequencesExt

CONSTANTS
  IntentionAmounts,  \* amounts that occur in intentions
  IntentionLimits,   \* trade limits that occur in intentions
  Discounts          \* values of the discount flag that occur

ASSUME ExchangeAssumption ==
  /\ IntentionAmounts \subseteq Nat
  /\ IntentionLimits \subseteq Nat
  /\ Discounts \subseteq BOOLEAN

VARIABLES
  IntentionCount,  \* ExchangeAssetsIntentionCount, by ordered pair
  Intentions,      \* ExchangeAssetsIntentions, by (asset_in, asset_out)
  phase,           \* "extrinsics", "finalize" or "panicked"
  todo,            \* pairs on_finalize has yet to visit
  work,            \* the pair it is at, or None
  fills            \* history: what each intention of the block gave and got

exchangeVars == <<xykVars, IntentionCount, Intentions, phase, todo, work, fills>>

Directions == {<<p[1], p[2]>> : p \in Pools} \union {<<p[2], p[1]>> : p \in Pools}

Intention ==
  [who : Users, asset_in : Assets, asset_out : Assets, amount_in : Balance,
   amount_out : Balance, trade_limit : Nat, discount : BOOLEAN,
   sell_or_buy : {"SELL", "BUY"}, intention_id : Pools \X Nat]

\* The work of on_finalize on one pair: main intentions to come, intentions of
\* the other direction not yet matched, and the main one being resolved (what
\* is left of it, and its trade limit at the start) with the intentions matched
\* to it that are still to come.
Work == [pool : Pools, mains : Seq(Intention), others : Seq(Intention),
         main : Intention \union {None}, limit : Nat, matched : Seq(Intention)]

WrapSub(x, y) == (x - y) % (MaxBalance + 1)

SaturatingSub(x, y) == IF x >= y THEN x - y ELSE 0

-----------------------------------------------------------------------------
(* Registration                                                            *)

ExchangeInit ==
  /\ IntentionCount = [p \in Pools |-> 0]
  /\ Intentions = [d \in Directions |-> <<>>]
  /\ phase = "extrinsics"
  /\ todo = {}
  /\ work = None
  /\ fills = <<>>

\* register_intention.  The id is a hash of the pair, the count and values
\* that these determine or that are the same for all intentions of the block.
RegisterIntention(who, type, a_in, a_out, amount_in, amount_out, limit, discount) ==
  LET pool == OrderedPair(a_in, a_out)
      id   == <<pool, IntentionCount[pool]>>
      intention ==
        [who |-> who, asset_in |-> a_in, asset_out |-> a_out,
         amount_in |-> amount_in, amount_out |-> amount_out,
         trade_limit |-> limit, discount |-> discount, sell_or_buy |-> type,
         intention_id |-> id]
  IN  /\ Intentions' = [Intentions EXCEPT ![<<a_in, a_out>>] = Append(@, intention)]
      /\ IntentionCount' = [IntentionCount EXCEPT ![pool] = @ + 1]
      /\ fills' = [i \in DOMAIN fills \union {id} |->
                     IF i = id THEN [sold |-> 0, got |-> 0, taken |-> 0] ELSE fills[i]]
      /\ UNCHANGED <<xykVars, phase, todo, work>>

SellIntention(who, asset_sell, asset_buy, amount_sell, min_bought, discount) ==
  LET amount_buy == GetSpotPriceUnchecked(ledger, asset_sell, asset_buy, amount_sell)
  IN  /\ phase = "extrinsics"
      /\ amount_sell >= MIN_TRADING_LIMIT
      /\ Exists(asset_sell, asset_buy)
      /\ FreeBalance(ledger, asset_sell, who) >= amount_sell
      /\ amount_buy # 0
      /\ RegisterIntention(who, "SELL", asset_sell, asset_buy, amount_sell,
                           amount_buy, min_bought, discount)

BuyIntention(who, asset_buy, asset_sell, amount_buy, max_sold, discount) ==
  LET amount_sell == GetSpotPriceUnchecked(ledger, asset_buy, asset_sell, amount_buy)
  IN  /\ phase = "extrinsics"
      /\ amount_buy >= MIN_TRADING_LIMIT
      /\ Exists(asset_sell, asset_buy)
      /\ amount_sell # 0
      /\ FreeBalance(ledger, asset_sell, who) >= amount_sell
      /\ RegisterIntention(who, "BUY", asset_sell, asset_buy, amount_sell,
                           amount_buy, max_sold, discount)

\* Calls of the xyk pallet and transfers, between registrations.
OtherExtrinsic ==
  /\ phase = "extrinsics"
  /\ Next
  /\ UNCHANGED <<IntentionCount, Intentions, phase, todo, work, fills>>

-----------------------------------------------------------------------------
(* Trading with the pool                                                   *)

\* What an intention asks of the pool: its amount_in when it sells, its
\* amount_out when it buys.
AmmAmount(i) == IF i.sell_or_buy = "SELL" THEN i.amount_in ELSE i.amount_out

\* validate_sell or validate_buy of `amount` for intention i.
Validates(L, i, amount, limit) ==
  IF i.sell_or_buy = "SELL"
  THEN ValidateSell(L, i.who, i.asset_in, i.asset_out, amount, limit, i.discount)
  ELSE ValidateBuy(L, i.who, i.asset_in, i.asset_out, amount, limit, i.discount)

AmmTransfer(L, i, amount) ==
  IF i.sell_or_buy = "SELL"
  THEN SellTransfer(L, i.who, i.asset_in, i.asset_out, amount, i.discount)
  ELSE BuyTransfer(L, i.who, i.asset_in, i.asset_out, amount, i.discount)

\* execute_amm_transfer.
CanExecuteAmm(L, i, t) ==
  IF i.sell_or_buy = "SELL" THEN CanExecuteSell(L, t) ELSE CanExecuteBuy(L, t)

ExecuteAmm(L, i, t) ==
  IF i.sell_or_buy = "SELL" THEN ExecuteSell(L, t) ELSE ExecuteBuy(L, t)

VerifyIntentionUnlimited(L, i) ==
  Validates(L, i, AmmAmount(i), IF i.sell_or_buy = "SELL" THEN 0 ELSE MaxBalance)

VerifyIntention(L, i) == Validates(L, i, AmmAmount(i), i.trade_limit)

\* History: intention i gave `sold` of its asset_in and got `got` of its
\* asset_out, fees apart.
Fill(f, i, sold, got) ==
  [f EXCEPT ![i.intention_id].sold = @ + sold, ![i.intention_id].got = @ + got]

FillAmm(f, i, t) ==
  IF i.sell_or_buy = "SELL" THEN Fill(f, i, t.amount, t.amount_out)
                            ELSE Fill(f, i, t.amount_out, t.amount)

Taken(f, i) == [f EXCEPT ![i.intention_id].taken = @ + 1]

\* resolve_single_intention: an error in either step only emits an event.
ResolveSingle(L, f, i) ==
  LET t == AmmTransfer(L, i, AmmAmount(i))
  IN  IF VerifyIntention(L, i) /\ CanExecuteAmm(L, i, t)
      THEN [ledger |-> ExecuteAmm(L, i, t), fills |-> FillAmm(f, i, t)]
      ELSE [ledger |-> L, fills |-> f]

-----------------------------------------------------------------------------
(* Direct trades (direct.rs)                                               *)

Leg(asset, from, to, amount) ==
  [asset |-> asset, from |-> from, to |-> to, amount |-> amount]

\* The transfers of a direct trade, in the order in which prepare reserves and
\* execute makes them.  The last two are fees, paid to the pool.
Legs(a, b, from_a, from_b) ==
  LET pool   == GetPairId(a.asset_in, a.asset_out)
      fee_a  == JustFee(from_a, DefaultFee)
      fee_b  == JustFee(from_b, DefaultFee)
      a_sells == a.sell_or_buy = "SELL"
      b_sells == b.sell_or_buy = "SELL"
  IN  << Leg(a.asset_in, a.who, b.who, from_a),
         Leg(a.asset_out, b.who, a.who, from_b),
         Leg(IF a_sells THEN a.asset_out ELSE a.asset_in, a.who, pool,
             IF a_sells /\ b_sells THEN fee_b ELSE fee_a),
         Leg(IF b_sells THEN b.asset_out ELSE b.asset_in, b.who, pool,
             IF a_sells /\ b_sells THEN fee_a ELSE fee_b) >>

ReserveLeg(L, leg)    == SetAside(L, leg.asset, leg.from, leg.amount)
UnreserveLeg(L, leg)  == Unreserve(L, leg.asset, leg.from, leg.amount)
RepatriateLeg(L, leg) == RepatriateReserved(L, leg.asset, leg.from, leg.to, leg.amount)

\* The ledger after the first n legs.
ReserveLegs(L, legs, n)    == FoldLeft(ReserveLeg, L, SubSeq(legs, 1, n))
UnreserveLegs(L, legs, n)  == FoldLeft(UnreserveLeg, L, SubSeq(legs, 1, n))
RepatriateLegs(L, legs, n) == FoldLeft(RepatriateLeg, L, SubSeq(legs, 1, n))

\* How many reservations prepare makes before it returns.
LegsReserved(L, legs) ==
  LET Possible(n) == \A k \in 1 .. n :
        LET leg == legs[k]
        IN  CanReserve(ReserveLegs(L, legs, k - 1), leg.asset, leg.from, leg.amount)
      FeesOk == FeeOk(legs[1].amount, DefaultFee) /\ FeeOk(legs[2].amount, DefaultFee)
  IN  IF \A k \in 1 .. 2 :
           FreeBalance(L, legs[k].asset, legs[k].from) >= legs[k].amount
      THEN Max({n \in 0 .. IF FeesOk THEN 4 ELSE 2 : Possible(n)})
      ELSE 0

CanPrepare(L, legs) == LegsReserved(L, legs) = 4

Prepare(L, legs) == ReserveLegs(L, legs, 4)

RevertPrepareAll(L, legs) ==
  UnreserveLegs(ReserveLegs(L, legs, LegsReserved(L, legs)), legs, 4)

\* The ledger after a failed prepare and the revert that follows.  revert
\* knows the transfers prepare has pushed, two at a time, each pair after
\* both its reservations: one that was made alone is not reverted.
RevertPrepare(L, legs) ==
  LET n == LegsReserved(L, legs)
  IN  UnreserveLegs(ReserveLegs(L, legs, n), legs, 2 * (n \div 2))

\* execute: it panics when a transfer is refused.
CanExecuteDirect(L, legs) ==
  \A k \in 1 .. 4 :
    LET leg == legs[k]
    IN  CanRepatriate(RepatriateLegs(L, legs, k - 1), leg.asset, leg.from, leg.to,
                      leg.amount)

ExecuteDirect(L, legs) == RepatriateLegs(L, legs, 4)

FillDirect(f, a, b, from_a, from_b) ==
  Fill(Fill(f, a, from_a, from_b), b, from_b, from_a)

-----------------------------------------------------------------------------
(* on_finalize: process_exchange_intentions                                *)

\* Stable sort by descending amount_in.
Sorted(s) ==
  LET Rank(i) == 1 + Cardinality({j \in DOMAIN s :
                   \/ s[j].amount_in > s[i].amount_in
                   \/ s[j].amount_in = s[i].amount_in /\ j < i})
  IN  [r \in DOMAIN s |-> s[CHOOSE i \in DOMAIN s : Rank(i) = r]]

StartFinalizeOffByOne ==
  /\ phase = "extrinsics"
  /\ phase' = "finalize"
  /\ todo' = {p \in Pools : IntentionCount[p] > 1}
  /\ UNCHANGED <<xykVars, IntentionCount, Intentions, work, fills>>

StartFinalize ==
  /\ phase = "extrinsics"
  /\ phase' = "finalize"
  /\ todo' = {p \in Pools : IntentionCount[p] # 0}
  /\ UNCHANGED <<xykVars, IntentionCount, Intentions, work, fills>>

\* The map is iterated in the order of hashed keys: any order.
NextPair(p) ==
  /\ phase = "finalize"
  /\ work = None
  /\ p \in todo
  /\ todo' = todo \ {p}
  /\ work' = [pool |-> p, mains |-> Sorted(Intentions[<<p[2], p[1]>>]),
              others |-> Sorted(Intentions[p]), main |-> None, limit |-> 0,
              matched |-> <<>>]
  /\ UNCHANGED <<xykVars, IntentionCount, Intentions, phase, fills>>

MatchCountPast(others, amount_in) ==
  LET total(n) == FoldLeft(LAMBDA sum, i : (sum + i.amount_in) % (MaxBalance + 1),
                           0, SubSeq(others, 1, n))
  IN  Min({n \in 1 .. Len(others) : total(n) > amount_in} \union {Len(others)})

\* How many of the other intentions are matched to one of `amount_in`: they
\* are taken until their amounts_in, summed, reach it.
MatchCount(others, amount_in) ==
  LET total(n) == FoldLeft(LAMBDA sum, i : (sum + i.amount_in) % (MaxBalance + 1),
                           0, SubSeq(others, 1, n))
  IN  Min({n \in 1 .. Len(others) : total(n) >= amount_in} \union {Len(others)})

TakeMainUnverified ==
  /\ phase = "finalize"
  /\ work # None
  /\ work.main = None
  /\ work.mains # <<>>
  /\ LET a == Head(work.mains)
         n == MatchCount(work.others, a.amount_in)
     IN  /\ work' = [work EXCEPT !.mains   = Tail(@),
                                 !.main    = a,
                                 !.limit   = a.trade_limit,
                                 !.matched = SubSeq(work.others, 1, n),
                                 !.others  = SubSeq(@, n + 1, Len(@))]
         /\ fills' = Taken(fills, a)
  /\ UNCHANGED <<xykVars, IntentionCount, Intentions, phase, todo>>

\* The next main intention is verified; an invalid one is passed over.
TakeMain ==
  /\ phase = "finalize"
  /\ work # None
  /\ work.main = None
  /\ work.mains # <<>>
  /\ LET a == Head(work.mains)
         n == MatchCount(work.others, a.amount_in)
     IN  /\ IF VerifyIntention(ledger, a)
            THEN work' = [work EXCEPT !.mains   = Tail(@),
                                      !.main    = a,
                                      !.limit   = a.trade_limit,
                                      !.matched = SubSeq(work.others, 1, n),
                                      !.others  = SubSeq(@, n + 1, Len(@))]
            ELSE work' = [work EXCEPT !.mains = Tail(@)]
         /\ fills' = Taken(fills, a)
  /\ UNCHANGED <<xykVars, IntentionCount, Intentions, phase, todo>>

\* What the steps of on_finalize that trade leave alone.
OnlyLedger ==
  UNCHANGED <<ShareToken, TotalLiquidity, PoolAssets, AssetIds, NextAssetId,
              IntentionCount, Intentions, todo>>

-----------------------------------------------------------------------------
(* on_finalize: resolve_matched_intentions                                 *)

WithinLimitUnchecked(type, amount, limit) == TRUE

\* Whether `amount` meets the trade limit of an intention of the given type.
WithinLimit(type, amount, limit) ==
  IF type = "SELL" THEN amount >= limit ELSE amount <= limit

\* The matched intention b is done with, and `main` is left of the main one.
MatchDone(main) == work' = [work EXCEPT !.main = main, !.matched = Tail(@)]

\* `continue`: b is dropped, and L is the ledger.
PassOver(b, L) ==
  /\ ledger' = L
  /\ MatchDone(work.main)
  /\ fills' = Taken(fills, b)
  /\ UNCHANGED phase

\* The prepared transfers are made, or on_finalize panics.
MakeTransfers(L, legs, b, main, f) ==
  IF CanExecuteDirect(L, legs)
  THEN /\ ledger' = ExecuteDirect(L, legs)
       /\ MatchDone(main)
       /\ fills' = Taken(f, b)
       /\ UNCHANGED phase
  ELSE phase' = "panicked" /\ UNCHANGED <<ledger, work, fills>>

Matching ==
  /\ phase = "finalize"
  /\ work # None
  /\ work.main # None
  /\ work.matched # <<>>

MainAfterStale(a, b) ==
  [a EXCEPT !.trade_limit = SaturatingSub(@, b.amount_in)]

\* What is left of the main intention a after b was traded in full.
MainAfter(a, b) ==
  [a EXCEPT !.amount_in   = @ - b.amount_out,
            !.amount_out  = WrapSub(@, b.amount_in),
            !.trade_limit = IF a.sell_or_buy = "SELL"
                            THEN SaturatingSub(@, b.amount_in)
                            ELSE WrapSub(@, b.amount_in)]

MainEmpty(a) == [a EXCEPT !.amount_in = 0]

\* Scenario 1: the matched intention can be completely direct traded.
MatchedFits ==
  LET a    == work.main
      b    == Head(work.matched)
      legs == Legs(a, b, b.amount_out, b.amount_in)
  IN  /\ Matching
      /\ a.amount_in > b.amount_out
      /\ IF ~WithinLimit(b.sell_or_buy, b.amount_out, b.trade_limit)
         THEN PassOver(b, ledger)
         ELSE IF ~CanPrepare(ledger, legs)
         THEN PassOver(b, RevertPrepare(ledger, legs))
         ELSE MakeTransfers(Prepare(ledger, legs), legs, b, MainAfter(a, b),
                            FillDirect(fills, a, b, b.amount_out, b.amount_in))
      /\ OnlyLedger

RestWhole(a, b) == AmmAmount(b)

\* What the main intention a leaves of b for the pool.
Rest(a, b) ==
  IF b.sell_or_buy = "SELL" THEN b.amount_in - a.amount_out
                            ELSE b.amount_out - a.amount_in

\* Scenario 2: the matched intention cannot be completely direct traded; the
\* pool takes the rest, before the direct transfers are made.
MatchedExceeds ==
  LET a        == work.main
      b        == Head(work.matched)
      rest     == Rest(a, b)
      t        == AmmTransfer(ledger, b, rest)
      legs     == Legs(a, b, a.amount_in, a.amount_out)
      prepared == Prepare(ledger, legs)
  IN  /\ Matching
      /\ a.amount_in < b.amount_out
      /\ IF \/ b.amount_in < a.amount_out
            \/ ~Validates(ledger, b, rest, SaturatingSub(b.trade_limit, a.amount_in))
            \/ ~WithinLimit(b.sell_or_buy, a.amount_out,
                            WrapSub(b.trade_limit, t.amount_out))
         THEN PassOver(b, ledger)
         ELSE IF ~CanPrepare(ledger, legs)
         THEN PassOver(b, RevertPrepare(ledger, legs))
         ELSE IF ~CanExecuteAmm(prepared, b, t)
         THEN PassOver(b, UnreserveLegs(prepared, legs, 4))
         ELSE MakeTransfers(ExecuteAmm(prepared, b, t), legs, b, MainEmpty(a),
                            FillDirect(FillAmm(fills, b, t), a, b,
                                       a.amount_in, a.amount_out))
      /\ OnlyLedger

\* Scenario 3: exact match.
MatchedEquals ==
  LET a    == work.main
      b    == Head(work.matched)
      legs == Legs(a, b, a.amount_in, b.amount_in)
  IN  /\ Matching
      /\ a.amount_in = b.amount_out
      /\ IF \/ ~WithinLimit(a.sell_or_buy, b.amount_in, work.limit)
            \/ ~WithinLimit(b.sell_or_buy, a.amount_in, b.trade_limit)
         THEN PassOver(b, ledger)
         ELSE IF ~CanPrepare(ledger, legs)
         THEN PassOver(b, RevertPrepare(ledger, legs))
         ELSE MakeTransfers(Prepare(ledger, legs), legs, b, MainEmpty(a),
                            FillDirect(fills, a, b, a.amount_in, b.amount_in))
      /\ OnlyLedger

\* All matched intentions are done with: what is left goes to the pool.
ResolveMain ==
  /\ phase = "finalize"
  /\ work # None
  /\ work.main # None
  /\ work.matched = <<>>
  /\ LET r == IF work.main.amount_in > 0
              THEN ResolveSingle(ledger, fills, work.main)
              ELSE [ledger |-> ledger, fills |-> fills]
     IN  ledger' = r.ledger /\ fills' = r.fills
  /\ work' = [work EXCEPT !.main = None]
  /\ OnlyLedger
  /\ UNCHANGED phase

ResolveLeftoverPeeks ==
  /\ phase = "finalize"
  /\ work # None
  /\ work.main = None
  /\ work.mains = <<>>
  /\ work.others # <<>>
  /\ LET r == ResolveSingle(ledger, fills, Head(work.others))
     IN  ledger' = r.ledger /\ fills' = r.fills
  /\ work' = work
  /\ OnlyLedger
  /\ UNCHANGED phase

\* The main intentions are done with: the others left go to the pool.
ResolveLeftover ==
  /\ phase = "finalize"
  /\ work # None
  /\ work.main = None
  /\ work.mains = <<>>
  /\ work.others # <<>>
  /\ LET b == Head(work.others)
         r == ResolveSingle(ledger, Taken(fills, b), b)
     IN  ledger' = r.ledger /\ fills' = r.fills
  /\ work' = [work EXCEPT !.others = Tail(@)]
  /\ OnlyLedger
  /\ UNCHANGED phase

EndPair ==
  /\ phase = "finalize"
  /\ work # None
  /\ work.main = None
  /\ work.mains = <<>>
  /\ work.others = <<>>
  /\ work' = None
  /\ UNCHANGED <<xykVars, IntentionCount, Intentions, phase, todo, fills>>

\* Both maps are cleared, and the next block begins.
EndBlock ==
  /\ phase = "finalize"
  /\ work = None
  /\ todo = {}
  /\ phase' = "extrinsics"
  /\ IntentionCount' = [p \in Pools |-> 0]
  /\ Intentions' = [d \in Directions |-> <<>>]
  /\ fills' = <<>>
  /\ UNCHANGED <<xykVars, todo, work>>

Register ==
  \E who \in Users, d \in Directions, amount \in IntentionAmounts,
     limit \in IntentionLimits, discount \in Discounts :
    \/ SellIntention(who, d[1], d[2], amount, limit, discount)
    \/ BuyIntention(who, d[1], d[2], amount, limit, discount)

Resolve ==
  \/ \E p \in Pools : NextPair(p)
  \/ TakeMain
  \/ MatchedFits
  \/ MatchedExceeds
  \/ MatchedEquals
  \/ ResolveMain
  \/ ResolveLeftover
  \/ EndPair
  \/ EndBlock

ExchangeNext == Register \/ OtherExtrinsic \/ StartFinalize \/ Resolve

ExchangeSpec == Init /\ ExchangeInit /\ [][ExchangeNext]_exchangeVars

-----------------------------------------------------------------------------
(* Invariants                                                              *)

\* The intentions registered in the block, and those of them that on_finalize
\* matches to main ones: their asset_in is the smaller one of the pair.
Registered == UNION {ToSet(Intentions[d]) : d \in Directions}
NonMain == {i \in Registered : i.asset_in < i.asset_out}

\* A sell intention never gives more than the amount it was registered with,
\* however many direct trades and pool trades resolve_matched_intentions
\* splits it into, and whichever of them fail.
SellNeverOversells ==
  \A i \in Registered :
    i.sell_or_buy = "SELL" => fills[i.intention_id].sold <= i.amount_in

\* An intention that is matched to a main one, or left over, is resolved as a
\* whole or not at all: no path through prepare, execute_amm_transfer and
\* revert leaves its direct part done and its pool part not.  A sell that was
\* resolved got at least its min_bought, from its direct trade and the pool
\* together.
MatchedServedInFull ==
  \A i \in NonMain :
    LET f == fills[i.intention_id]
    IN  IF i.sell_or_buy = "SELL"
        THEN f.sold = 0 \/ (f.sold = i.amount_in /\ f.got >= i.trade_limit)
        ELSE f.got \in {0, i.amount_out}

\* A main sell intention that was sold in full got at least its min_bought in
\* all, from any mix of direct trades and the pool, although scenario 2 pays
\* it what was computed at registration and does not look at its limit: the
\* limit was no more than that amount.
MainSellMeetsLimit ==
  \A i \in Registered \ NonMain :
    LET f == fills[i.intention_id]
    IN  i.sell_or_buy = "SELL" /\ i.trade_limit <= i.amount_out /\ f.sold = i.amount_in =>
          f.got >= i.trade_limit

-----------------------------------------------------------------------------
(* Action properties and liveness                                          *)

\* on_finalize takes up every registered intention exactly once before it
\* clears the storage: none is lost between the two directions of a pair, and
\* none is resolved twice.
EachIntentionTakenOnce ==
  [][phase = "finalize" /\ phase' = "extrinsics" =>
       \A i \in Registered : fills[i.intention_id].taken = 1]_exchangeVars

\* A pool that was removed after intentions for it were registered gets no
\* trade and no fee: on_finalize never moves tokens into a pair account that
\* no liquidity provider can redeem.
NothingPaidToRemovedPool ==
  [][\A p \in Pools, a \in Assets :
       phase = "finalize" /\ ShareToken[p] = None =>
         FreeBalance(ledger', a, p) = FreeBalance(ledger, a, p)]_exchangeVars

\* Every block's on_finalize comes to its end, or panics: the resolution of
\* intentions never goes around in circles.
FinalizeTerminates == phase = "finalize" ~> phase # "finalize"

-----------------------------------------------------------------------------
(* What the source says of itself                                          *)

\* direct.rs on revert: "Revert all reserved amounts."  Between blocks the
\* exchange holds nothing reserved; no other user of the ledger in this model
\* reserves anything.
NothingLeftReserved ==
  [][phase = "finalize" /\ phase' = "extrinsics" =>
       \A a \in Assets, u \in Users : ledger.reserved[a][u] = 0]_exchangeVars

\* direct.rs in execute: "Cannot fail. Checks should have been done prior to
\* this."  A prepared direct trade never makes on_finalize panic.
NeverPanics == phase # "panicked"

\* lib.rs in resolve_matched_intentions: "Main intention is empty at this
\* point - just set amount to 0."  An empty main intention trades no more.
EmptyMainTradesNoMore ==
  [][phase = "finalize" /\ phase' = "finalize" /\ work # None =>
       LET a == work.main
       IN  a # None /\ a.amount_in = 0 =>
             fills'[a.intention_id] = fills[a.intention_id]]_exchangeVars

\* lib.rs in resolve_matched_intentions: "we need to check the trade limit for
\* the matched intention".  A matched buy intention that was resolved gave at
\* most its max_sold.
MatchedBuyMeetsLimit ==
  \A i \in NonMain :
    i.sell_or_buy = "BUY" => fills[i.intention_id].sold <= i.trade_limit
=============================================================================
