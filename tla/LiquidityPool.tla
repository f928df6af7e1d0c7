---------------------------- MODULE LiquidityPool ----------------------------
(***************************************************************************)
(* The LASSECASH:HBD pool: reserves and shares, loyalty-weighted tranches, *)
(* the accumulator that pays them, swaps, and the eviction of tranches     *)
(* whose owner has gone silent.                                            *)
(*                                                                         *)
(* LASSECASH is the contract's own ledger.  HBD is real: the contract      *)
(* books it in fine units but moves whole milli-HBD only, rounding a draw  *)
(* up and a payment down.  On MAGI the HBD of an account is also its meter *)
(* of resource credits: a draw spends the meter milli for milli, beside    *)
(* what the call reserves for itself.  The meter also falls with every     *)
(* other call of the account and refills with time, so it is external here *)
(* and may read anything up to its capacity.                               *)
(*                                                                         *)
(* Every action is one successful call; a call that fails is reverted and  *)
(* is an action that is not enabled.  The least output a trader asks for   *)
(* only makes a swap fail, and so do too few credits for a call that draws *)
(* nothing, which Signer models.                                           *)
(***************************************************************************)
EXTENDS Engine, Sequences

CONSTANTS
  Accounts,
  HbdUnitsPerMilli,
  RcFree,              \* resource credits beyond the HBD held, in milli-HBD
  RcLimit,             \* resource credits a call reserves for itself
  LoyaltyMaxDays, LoyaltyPerDay,   \* the bonus of a day, in MultScale units
  TrancheDormantDays,
  MaxAccrualDays,
  DayReward,           \* the liquidity part of every day's emission
  Funds,               \* what every account starts with: [lc, hbd]
  WalkMayStall,        \* whether matured mints can exhaust a walk's budget
  Heights,             \* BOUND: the heights at which calls are made
  LcAmounts,           \* BOUND: LASSECASH deposited or sold
  HbdAmounts,          \* BOUND: HBD limits of deposits, and HBD sold
  Gifts,               \* BOUND: what is given to the reward pool
  MaxTranches,         \* BOUND: tranches of each account
  LastDay,             \* BOUND: no height lies beyond it
  MaxSwaps             \* BOUND: swaps and gifts of a behaviour

ASSUME LiquidityPoolAssumption ==
  /\ IsFiniteSet(Accounts)
  /\ HbdUnitsPerMilli \in Nat \ {0}
  /\ RcFree \in Nat /\ RcLimit \in 0 .. RcFree
  /\ LoyaltyMaxDays \in Nat /\ LoyaltyPerDay \in Nat
  /\ TrancheDormantDays \in Nat \ {0} /\ MaxAccrualDays \in Nat \ {0}
  /\ Funds \in [lc : Nat, hbd : Nat]
  /\ WalkMayStall \in BOOLEAN
  /\ Heights \subseteq Nat /\ GenesisHeight \in Heights
  /\ LcAmounts \subseteq Nat \ {0} /\ HbdAmounts \subseteq Nat \ {0}
  /\ Gifts \subseteq Nat \ {0}
  /\ MaxTranches \in Nat /\ MaxSwaps \in Nat

VARIABLES
  height,              \* the block height of the next call
  acc_day,             \* the day the accrual walk has reached
  pool_liq,            \* the reward pool of liquidity providers
  amm,                 \* amm_*: reserves, totals and the reward accumulator
  lp,                  \* lp_<account>_<id>: a sequence of tranches per account
  bal,                 \* LASSECASH balances
  hbd,                 \* HBD of the accounts, in book units
  custody,             \* HBD the contract really holds, in book units
  swaps                \* BOUND: swaps and gifts made

vars == <<height, acc_day, pool_liq, amm, lp, bal, hbd, custody, swaps>>

Tranche == [shares : Nat, start : Nat, weight : Nat, closed : BOOLEAN,
            accStart : Nat, lastTouch : Nat]

DayOf(h) == IF h <= GenesisHeight THEN 0 ELSE (h - GenesisHeight) \div HeightsPerDay

HeightOfDay(day) == GenesisHeight + day * HeightsPerDay

Days == 0 .. LastDay

ASSUME LastDayAssumption ==
  /\ LastDay \in Nat /\ \A h \in Heights : DayOf(h) <= LastDay
  /\ DayReward \in [Days -> Nat]

-----------------------------------------------------------------------------
(* Pricing.                                                                *)

Ceil(a, b) == (a + b - 1) \div b

\* What the chain moves for a draw and for a payment of so many units.
Drawn(units) == Ceil(units, HbdUnitsPerMilli) * HbdUnitsPerMilli

Paid(units) == (units \div HbdUnitsPerMilli) * HbdUnitsPerMilli

\* The meter carries a draw and the call that makes it.
Carries(rc, units) == rc >= Ceil(units, HbdUnitsPerMilli) + RcLimit

SwapOut(reserveIn, reserveOut, amountIn) == MulDiv(reserveOut, amountIn, reserveIn + amountIn)

MaySwap(reserveIn, reserveOut, amountIn) ==
  /\ reserveIn > 0
  /\ SwapOut(reserveIn, reserveOut, amountIn) \in 1 .. reserveOut - 1

LPSharesFor(lcIn, lcReserve, total) ==
  IF total = 0 \/ lcReserve = 0 THEN lcIn ELSE MulDiv(total, lcIn, lcReserve)

\* One unit more when the floored price would buy less than is deposited.
HbdRequiredFor(lcIn, lcReserve, hbdReserve) ==
  LET need == MulDiv(hbdReserve, lcIn, lcReserve)
  IN  IF MulDiv(need, lcReserve, hbdReserve) < lcIn THEN need + 1 ELSE need

TrancheWeight(shares, ageDays) ==
  MulDiv(shares, MultScale + AtMost(ageDays, LoyaltyMaxDays) * LoyaltyPerDay, MultScale)

AgeDays(start) == (height - start) \div HeightsPerDay

IsDormant(t) == height >= t.lastTouch + TrancheDormantDays * HeightsPerDay

-----------------------------------------------------------------------------
(* Rewards.                                                                *)

(***************************************************************************)
(* The days a walk may reach: as many as one call crosses, or none when    *)
(* it runs out of its retire budget, which LasseMint models.               *)
(***************************************************************************)
Walks ==
  LET far == AtMost(DayOf(height), acc_day + MaxAccrualDays)
  IN  IF WalkMayStall THEN {acc_day, far} ELSE {far}

LiquidityEmission(from, to) == Total(DayReward, from .. to - 1)

\* Mutant: the inflow seen last time is folded in again.
SyncUnseen(m, pool) ==
  LET step == AccumulatorStep(m.acc, pool, m.held, m.weight)
  IN  [m EXCEPT !.acc = step.acc, !.held = step.held, !.seen = pool]

\* What reached the reward pool since the last look goes to the weight that
\* is registered now.
SyncPoolAccumulator(m, pool) ==
  LET step == AccumulatorStep(m.acc, pool - m.seen, m.held, m.weight)
  IN  IF pool > m.seen THEN [m EXCEPT !.acc = step.acc, !.held = step.held, !.seen = pool]
      ELSE [m EXCEPT !.seen = pool]

\* A tranche is paid what it earned and registered anew at its present age,
\* after a walk to the given day.
SettleTranche(owner, id, day) ==
  LET t    == lp[owner][id]
      pool == pool_liq + LiquidityEmission(acc_day, day)
      m    == SyncPoolAccumulator(amm, pool)
      owed == AtMost(Entitlement(t.weight, t.accStart, m.acc), pool)
      w    == TrancheWeight(t.shares, AgeDays(t.start))
  IN  [amm  |-> [m EXCEPT !.weight = @ - t.weight + w, !.seen = pool - owed],
       pool |-> pool - owed,
       owed |-> owed,
       t    |-> [t EXCEPT !.weight = w, !.accStart = m.acc]]

-----------------------------------------------------------------------------
Init ==
  /\ height = GenesisHeight /\ acc_day = 0 /\ pool_liq = 0
  /\ amm = [lc |-> 0, hbd |-> 0, shares |-> 0, weight |-> 0, acc |-> 0, held |-> 0, seen |-> 0]
  /\ lp = [a \in Accounts |-> <<>>]
  /\ bal = [a \in Accounts |-> Funds.lc]
  /\ hbd = [a \in Accounts |-> Funds.hbd]
  /\ custody = 0 /\ swaps = 0

Tick ==
  /\ \E h \in Heights : h > height /\ height' = h
  /\ UNCHANGED <<acc_day, pool_liq, amm, lp, bal, hbd, custody, swaps>>

\* The walk of any call, and gifts to the pool: rewards arrive.
Settle(day) ==
  /\ day \in Walks
  /\ acc_day' = day
  /\ pool_liq' = pool_liq + LiquidityEmission(acc_day, day)
  /\ UNCHANGED <<height, amm, lp, bal, hbd, custody, swaps>>

FundLiquidity(a, amount) ==
  /\ swaps < MaxSwaps /\ swaps' = swaps + 1
  /\ bal[a] >= amount
  /\ bal' = [bal EXCEPT ![a] = @ - amount]
  /\ pool_liq' = pool_liq + amount
  /\ UNCHANGED <<height, acc_day, amm, lp, hbd, custody>>

\* What the meter of an account can hold, and what it may read.
Capacity(a) == hbd[a] \div HbdUnitsPerMilli + RcFree

Readings(a) == 0 .. Capacity(a)

IsFirstDeposit == amm.shares = 0 \/ amm.lc = 0 \/ amm.hbd = 0

HbdFor(lcIn, maxHbd) ==
  IF IsFirstDeposit THEN maxHbd ELSE HbdRequiredFor(lcIn, amm.lc, amm.hbd)

MayAdd(a, lcIn, maxHbd, rc) ==
  /\ bal[a] >= lcIn
  /\ HbdFor(lcIn, maxHbd) \in 1 .. maxHbd
  /\ LPSharesFor(lcIn, amm.lc, amm.shares) > 0
  /\ hbd[a] >= Drawn(HbdFor(lcIn, maxHbd))
  /\ Carries(rc, HbdFor(lcIn, maxHbd))

\* Whether the walk caught up is not looked at.
AddLiquidity(a, lcIn, maxHbd, day) ==
  LET hbdIn  == HbdFor(lcIn, maxHbd)
      shares == LPSharesFor(lcIn, amm.lc, amm.shares)
      weight == TrancheWeight(shares, 0)
      pool   == pool_liq + LiquidityEmission(acc_day, day)
      m      == SyncPoolAccumulator(amm, pool)
  IN  /\ day \in Walks
      /\ Len(lp[a]) < MaxTranches
      /\ \E rc \in Readings(a) : MayAdd(a, lcIn, maxHbd, rc)
      /\ hbd' = [hbd EXCEPT ![a] = @ - Drawn(hbdIn)]
      /\ custody' = custody + Drawn(hbdIn)
      /\ bal' = [bal EXCEPT ![a] = @ - lcIn]
      /\ acc_day' = day
      /\ pool_liq' = pool
      /\ amm' = [m EXCEPT !.lc = @ + lcIn, !.hbd = @ + hbdIn,
                          !.shares = @ + shares, !.weight = @ + weight]
      /\ lp' = [lp EXCEPT ![a] = Append(@, [shares |-> shares, start |-> height, weight |-> weight,
                                            closed |-> FALSE, accStart |-> m.acc,
                                            lastTouch |-> height])]
      /\ UNCHANGED <<height, swaps>>

\* Claiming is the proof of life.
ClaimPoolRewards(a, id, day) ==
  LET s == SettleTranche(a, id, day)
  IN  /\ day \in Walks
      /\ ~ lp[a][id].closed
      /\ acc_day' = day
      /\ pool_liq' = s.pool
      /\ amm' = s.amm
      /\ bal' = [bal EXCEPT ![a] = @ + s.owed]
      /\ lp' = [lp EXCEPT ![a][id] = [s.t EXCEPT !.lastTouch = height]]
      /\ UNCHANGED <<height, hbd, custody, swaps>>

\* Mutant: a share that no milli-HBD can pay makes the withdrawal fail.
LeavesDustRefused(hbdOut) == IF Paid(hbdOut) = 0 THEN amm.hbd + 1 ELSE hbdOut

\* An amount too small to pay stays in the reserve.
LeavesDust(hbdOut) == IF Paid(hbdOut) = 0 THEN 0 ELSE hbdOut

\* WithdrawAmounts has an answer and the transfer it asks for succeeds.
CanWithdraw(t) ==
  LET hbdOut == LeavesDust(MulDiv(amm.hbd, t.shares, amm.shares))
  IN  /\ t.shares \in 1 .. amm.shares
      /\ Paid(hbdOut) <= custody
      /\ hbdOut <= amm.hbd

\* The tranche's rewards and its part of both reserves go to the payee.
Dissolve(owner, id, payee, day) ==
  LET s      == SettleTranche(owner, id, day)
      lcOut  == MulDiv(amm.lc, s.t.shares, amm.shares)
      hbdOut == LeavesDust(MulDiv(amm.hbd, s.t.shares, amm.shares))
  IN  /\ day \in Walks
      /\ ~ lp[owner][id].closed
      /\ CanWithdraw(s.t)
      /\ acc_day' = day
      /\ pool_liq' = s.pool
      /\ amm' = [s.amm EXCEPT !.lc = @ - lcOut, !.hbd = @ - hbdOut,
                              !.shares = @ - s.t.shares, !.weight = @ - s.t.weight]
      /\ custody' = custody - Paid(hbdOut)
      /\ hbd' = [hbd EXCEPT ![payee] = @ + Paid(hbdOut)]
      /\ bal' = [bal EXCEPT ![payee] = @ + lcOut + s.owed]
      /\ lp' = [lp EXCEPT ![owner][id] = [s.t EXCEPT !.closed = TRUE, !.weight = 0]]
      /\ UNCHANGED <<height, swaps>>

\* Mutant: whoever calls is paid.
CloseForCaller(caller, owner, id, day) == Dissolve(owner, id, caller, day)

\* Everything goes to the owner, whoever calls.
CloseTranche(caller, owner, id, day) == Dissolve(owner, id, owner, day)

RemoveLiquidity(a, id, day) == CloseTranche(a, a, id, day)

\* Anyone evicts a tranche nobody has claimed for too long.
SweepTranche(caller, owner, id, day) ==
  /\ IsDormant(lp[owner][id])
  /\ CloseTranche(caller, owner, id, day)

MaySell(a, lcIn) ==
  /\ bal[a] >= lcIn
  /\ MaySwap(amm.lc, amm.hbd, lcIn)
  /\ Paid(SwapOut(amm.lc, amm.hbd, lcIn)) \in 1 .. custody

SwapLCForHBD(a, lcIn) ==
  LET out == SwapOut(amm.lc, amm.hbd, lcIn)
  IN  /\ swaps < MaxSwaps /\ swaps' = swaps + 1
      /\ MaySell(a, lcIn)
      /\ bal' = [bal EXCEPT ![a] = @ - lcIn]
      /\ hbd' = [hbd EXCEPT ![a] = @ + Paid(out)]
      /\ custody' = custody - Paid(out)
      /\ amm' = [amm EXCEPT !.lc = @ + lcIn, !.hbd = @ - out]
      /\ UNCHANGED <<height, acc_day, pool_liq, lp>>

MayBuy(a, hbdIn, rc) ==
  /\ MaySwap(amm.hbd, amm.lc, hbdIn)
  /\ hbd[a] >= Drawn(hbdIn)
  /\ Carries(rc, hbdIn)

SwapHBDForLC(a, hbdIn) ==
  LET out == SwapOut(amm.hbd, amm.lc, hbdIn)
  IN  /\ swaps < MaxSwaps /\ swaps' = swaps + 1
      /\ \E rc \in Readings(a) : MayBuy(a, hbdIn, rc)
      /\ hbd' = [hbd EXCEPT ![a] = @ - Drawn(hbdIn)]
      /\ custody' = custody + Drawn(hbdIn)
      /\ bal' = [bal EXCEPT ![a] = @ + out]
      /\ amm' = [amm EXCEPT !.hbd = @ + hbdIn, !.lc = @ - out]
      /\ UNCHANGED <<height, acc_day, pool_liq, lp>>

Next ==
  \/ Tick
  \/ \E day \in Walks :
       \/ Settle(day)
       \/ \E a \in Accounts :
            \/ \E n \in LcAmounts, h \in HbdAmounts : AddLiquidity(a, n, h, day)
            \/ \E id \in DOMAIN lp[a] :
                 \/ ClaimPoolRewards(a, id, day)
                 \/ RemoveLiquidity(a, id, day)
                 \/ \E c \in Accounts : SweepTranche(c, a, id, day)
  \/ \E a \in Accounts :
       \/ \E n \in Gifts : FundLiquidity(a, n)
       \/ \E n \in LcAmounts : SwapLCForHBD(a, n)
       \/ \E n \in HbdAmounts : SwapHBDForLC(a, n)

Spec == Init /\ [][Next]_vars

-----------------------------------------------------------------------------
\* Open tranches, and what each has earned by the accumulator as it stands.
Open == UNION {{<<a, id>> : id \in {i \in DOMAIN lp[a] : ~ lp[a][i].closed}} : a \in Accounts}

T(k) == lp[k[1]][k[2]]

Owed(k) == Entitlement(T(k).weight, T(k).accStart, amm.acc)

\* The same, counting what the pool has received since the last look.
OwedNow(k) == Entitlement(T(k).weight, T(k).accStart, SyncPoolAccumulator(amm, pool_liq).acc)

TypeOK ==
  /\ height \in Heights /\ acc_day \in Days /\ pool_liq \in Nat
  /\ amm \in [lc : Nat, hbd : Nat, shares : Nat, weight : Nat, acc : Nat, held : Nat, seen : Nat]
  /\ lp \in [Accounts -> Seq(Tranche)]
  /\ bal \in [Accounts -> Nat] /\ hbd \in [Accounts -> Nat]
  /\ custody \in Nat /\ swaps \in 0 .. MaxSwaps

(* The totals every price and every reward is divided by are those of the  *)
(* open tranches, through deposits, re-registrations at a new loyalty age, *)
(* withdrawals and evictions.                                              *)
TotalsAreOpenTranches ==
  /\ amm.shares = Total([k \in Open |-> T(k).shares], Open)
  /\ amm.weight = Total([k \in Open |-> T(k).weight], Open)

(* The reward pool holds what all open tranches have earned and what waits *)
(* for a weight, so that "never overdraw; flooring should make this        *)
(* unreachable" (settleTranche) is true and the last claimer is paid.      *)
RewardsCovered ==
  /\ amm.seen <= pool_liq
  /\ Total([k \in Open |-> Owed(k)], Open) + amm.held <= amm.seen

(* Rewards are divided by the weight that is there, and what they add up   *)
(* to is there (settleTranche).                                            *)
RewardsAreSound == TypeOK /\ TotalsAreOpenTranches /\ RewardsCovered

(* The HBD the contract holds covers the reserve it books, to the unit,    *)
(* although draws and payments are rounded and dust stays behind; and no   *)
(* HBD comes or goes but between accounts and custody.                     *)
CustodyCoversReserve ==
  /\ custody >= amm.hbd
  /\ custody + Total(hbd, Accounts) = Cardinality(Accounts) * Funds.hbd

(* LASSECASH in balances, in the reserve and in the reward pool is what    *)
(* there was and what has been emitted.                                    *)
LasseCashConserved ==
  Total(bal, Accounts) + amm.lc + pool_liq
    = Cardinality(Accounts) * Funds.lc + LiquidityEmission(0, acc_day)

(* No withdrawal is bricked, whatever rounds up or down and however little *)
(* a tranche is worth (closeTranche).                                      *)
OwnerCanLeave == \A k \in Open : CanWithdraw(T(k))

(* No call of the pool creates or loses either asset, or locks one up for  *)
(* good (pool.go).                                                         *)
NothingIsLostOrStuck == CustodyCoversReserve /\ LasseCashConserved /\ OwnerCanLeave

\* Reserves' product per share squared.
ShareValueNeverFalls ==
  amm.shares > 0 /\ amm.shares' > 0 =>
    amm.lc' * amm.hbd' * amm.shares * amm.shares >= amm.lc * amm.hbd * amm.shares' * amm.shares'

OnlyTheOwnerIsPaid ==
  \A k \in Open : k \notin Open' =>
    \A a \in Accounts \ {k[1]} : bal'[a] <= bal[a] /\ hbd'[a] <= hbd[a]

(* Nobody loses to a call of another: a share of the pool never falls in   *)
(* value by deposits, swaps or withdrawals, and when a tranche is closed,  *)
(* by whomever, nobody but its owner gains: a permissionless sweep is not  *)
(* permissionless robbery (closeTranche).                                  *)
OthersCannotHarm == [][ShareValueNeverFalls /\ OnlyTheOwnerIsPaid]_vars

(* "Fold in everything earned so far BEFORE this weight joins, so the new  *)
(* tranche starts from today's accumulator reading and owns none of it"    *)
(* (pool.go:246-247): the emission of days that were over when a tranche   *)
(* was opened adds nothing to it.                                          *)
NothingFromEarlierDays ==
  [][\A k \in Open :
       (k \in Open' /\ acc_day' > acc_day /\ HeightOfDay(acc_day') <= T(k).start
          /\ T(k)' = T(k)) =>
         OwedNow(k)' <= OwedNow(k)]_vars
=============================================================================
