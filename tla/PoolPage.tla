------------------------------ MODULE PoolPage ------------------------------
(***************************************************************************)
(* What the pool page shows and lets a user press: the view of a tranche,  *)
(* the quotes, the swap and deposit forms with their reasons for staying   *)
(* closed, and "Max" (pool/+page.svelte, over the views of magi-backend.ts *)
(* and, for the development chain, chain.go).                              *)
(*                                                                         *)
(* Everything is a function of the state of LiquidityPool and of what the  *)
(* user typed; the properties compare it with the calls of LiquidityPool   *)
(* taken from the same state.  The meter of resource credits is read when  *)
(* an account signs in, a number of milli-HBD or nothing at all, and what  *)
(* the page then knows of it grows old.                                    *)
(***************************************************************************)
EXTENDS LiquidityPool

CONSTANTS
  TrancheWarningDays,
  Unit,                \* the scale of amounts
  RcReserveMilli,      \* what the page leaves on the meter for the call itself
  Meters,              \* BOUND: readings of the meter, or NoReading
  NoReading,
  SearchSteps,         \* steps of each of the two searches of reverseLcForHbd
  Typed                \* BOUND: amounts and prices typed into the forms

ASSUME PoolPageAssumption ==
  /\ TrancheWarningDays \in 0 .. TrancheDormantDays
  /\ Unit \in Nat \ {0} /\ RcReserveMilli \in Nat /\ SearchSteps \in Nat
  /\ Meters \ {NoReading} \subseteq Nat /\ Typed \subseteq Nat \ {0}

\* The reserve of the page is no less than what the call sets aside.
ASSUME ReserveCoversTheCall == RcLimit <= RcReserveMilli

\* How far the searches look: 2^SearchSteps.
Doubling == [n \in Nat |-> 2 * n]

Reach == Iterate(Doubling, 1, SearchSteps)

(***************************************************************************)
(* What the page relies on.  HBD comes to an account in whole milli-HBD,   *)
(* because the chain moves nothing smaller; and all LASSECASH there can be *)
(* lies within reach of the searches, as every int64 does of 64 steps.     *)
(***************************************************************************)
ASSUME WholeMillis == Funds.hbd % HbdUnitsPerMilli = 0

ASSUME SearchReaches ==
  Cardinality(Accounts) * Funds.lc + LiquidityEmission(0, LastDay) < Reach

Reserves == [lc |-> amm.lc, hbd |-> amm.hbd, shares |-> amm.shares]

PoolReady == amm.lc # 0 /\ amm.hbd # 0

-----------------------------------------------------------------------------
(* The engine's quotes.                                                    *)

SwapQuote(reserveIn, reserveOut, n) ==
  [ok |-> MaySwap(reserveIn, reserveOut, n), out |-> SwapOut(reserveIn, reserveOut, n)]

LiquidityQuote(lcIn, r) ==
  IF 0 \in {r.shares, r.lc, r.hbd} THEN [ok |-> TRUE, first |-> TRUE, hbd |-> 0, shares |-> lcIn]
  ELSE LET shares == LPSharesFor(lcIn, r.lc, r.shares)
       IN  [ok |-> lcIn > 0 /\ shares > 0, first |-> FALSE,
            hbd |-> IF lcIn > 0 THEN HbdRequiredFor(lcIn, r.lc, r.hbd) ELSE 0, shares |-> shares]

WithdrawQuote(shares, r) ==
  IF shares \in 1 .. r.shares
  THEN [lc |-> MulDiv(r.lc, shares, r.shares), hbd |-> MulDiv(r.hbd, shares, r.shares)]
  ELSE [lc |-> 0, hbd |-> 0]

\* Mutant: the inflow that waits for the next look is left out.
RewardsOwedAtLastLook(t) == AtMost(Entitlement(t.weight, t.accStart, amm.acc), pool_liq)

PoolRewardsOwed(t) ==
  AtMost(Entitlement(t.weight, t.accStart, SyncPoolAccumulator(amm, pool_liq).acc), pool_liq)

TrancheHealthAt(t) ==
  LET evictAt == t.lastTouch + TrancheDormantDays * HeightsPerDay
      left    == (evictAt - height) \div HeightsPerDay
  IN  IF height >= evictAt THEN [phase |-> 2, daysUntilEvict |-> 0]
      ELSE [phase |-> IF left <= TrancheWarningDays THEN 1 ELSE 0, daysUntilEvict |-> left]

TrancheView(t) ==
  LET w == WithdrawQuote(t.shares, Reserves)
  IN  [value_lc |-> w.lc, value_hbd |-> w.hbd, pending_reward |-> PoolRewardsOwed(t)]

\* The button of a tranche's row: claiming is also the proof of life.
MayClaim(t) == PoolRewardsOwed(t) # 0 \/ TrancheHealthAt(t).phase # 0

-----------------------------------------------------------------------------
(* Swaps.                                                                  *)

Quote(selling, n) ==
  IF selling THEN SwapQuote(amm.lc, amm.hbd, n) ELSE SwapQuote(amm.hbd, amm.lc, n)

OutBelowHbdStep(selling, n) ==
  selling /\ Quote(selling, n).ok /\ Quote(selling, n).out < HbdUnitsPerMilli

SwapDisabledReason(a, selling, n) ==
  CASE ~ PoolReady                      -> "Pool is empty"
    [] PoolReady /\ selling /\ n > bal[a]   -> "Not enough LASSECASH"
    [] PoolReady /\ ~ selling /\ n > hbd[a] -> "Not enough HBD on MAGI"
    [] OTHER ->
         IF ~ Quote(selling, n).ok THEN "No quote"
         ELSE IF OutBelowHbdStep(selling, n) THEN "Too small" ELSE ""

-----------------------------------------------------------------------------
(* Deposits.  A form is [driver, lc, hbd, price]: which field drives the    *)
(* other, what is typed there, and the opening price of a first deposit.    *)

\* One whole LASSECASH at the price the user proposes.
Synthetic(price) == [lc |-> Unit, hbd |-> price, shares |-> Unit]

ActiveReserves(form) == IF PoolReady THEN Reserves ELSE Synthetic(form.price)

\* Mutant: the first crossing is taken, not the last amount that fits.
FitsStrictly(n, target, r) ==
  n = 0 \/ LiquidityQuote(n, r).hbd < target

Fits(n, target, r) ==
  LET q == LiquidityQuote(n, r)
  IN  n > 0 /\ q.ok /\ ~ q.first => q.hbd <= target

Interval == [lo : Nat, hi : Nat]

\* Doubling until an amount no longer fits, then halving the interval.
ReverseLcForHbd(target, r) ==
  LET double == [n \in Nat |-> IF Fits(n, target, r) THEN 2 * n ELSE n]
      halve  == [s \in Interval |->
                   LET mid == (s.lo + s.hi) \div 2
                   IN  IF s.hi - s.lo <= 1 THEN s
                       ELSE IF Fits(mid, target, r) THEN [s EXCEPT !.lo = mid]
                       ELSE [s EXCEPT !.hi = mid]]
      top    == Iterate(double, 1, SearchSteps)
  IN  IF target = 0 THEN 0 ELSE Iterate(halve, [lo |-> 0, hi |-> top], SearchSteps).lo

\* What a form sends: its LASSECASH, the HBD it shows, and the limit.
Deposit(form) ==
  LET r   == ActiveReserves(form)
      n   == IF form.driver = "hbd" THEN ReverseLcForHbd(form.hbd, r) ELSE form.lc
      q   == LiquidityQuote(n, r)
      own == IF form.driver = "hbd" THEN form.hbd ELSE q.hbd
  IN  [ok |-> q.ok, lc |-> n, hbd |-> IF PoolReady THEN q.hbd ELSE own,
       maxHbd |-> IF PoolReady THEN q.hbd + q.hbd \div 100 ELSE own]

\* What the account can put into one deposit: its HBD is its meter too.
HbdSpendable(a, meter) ==
  IF meter = NoReading THEN hbd[a]
  ELSE IF meter <= RcReserveMilli THEN 0
  ELSE AtMost(hbd[a], (meter - RcReserveMilli) * HbdUnitsPerMilli)

\* What the meter may be by the time of a call, when nothing has been spent
\* since it read so much.  A page that could not read it hopes for a full one.
MetersSince(a, meter) ==
  IF meter = NoReading THEN {Capacity(a)} ELSE {rc \in Readings(a) : rc >= meter}

InsufficientReason(a, d, meter) ==
  CASE ~ d.ok \/ d.lc = 0 \/ d.hbd = 0 -> "Enter an amount"
    [] d.ok /\ d.lc > 0 /\ d.hbd > 0 /\ d.lc > bal[a] -> "Not enough LASSECASH"
    [] OTHER ->
         IF d.hbd <= HbdSpendable(a, meter) THEN ""
         ELSE IF HbdSpendable(a, meter) = 0 THEN "Not enough resource credits"
         ELSE IF HbdSpendable(a, meter) < hbd[a] THEN "Too much for one deposit"
         ELSE "Not enough HBD on MAGI"

AffordableDeposit(a, price, meter) ==
  LET r == IF PoolReady THEN Reserves ELSE Synthetic(price)
      n == AtMost(ReverseLcForHbd(HbdSpendable(a, meter), r), bal[a])
      q == LiquidityQuote(n, r)
  IN  [lc |-> n, hbd |-> IF q.ok THEN q.hbd ELSE 0]

\* What is not the driver is overwritten, and a price is asked for only when
\* there is none.
Prices == IF PoolReady THEN {0} ELSE Typed

LcForm(n, price) == [driver |-> "lc", lc |-> n, hbd |-> 0, price |-> price]

HbdForm(n, price) == [driver |-> "hbd", lc |-> 0, hbd |-> n, price |-> price]

-----------------------------------------------------------------------------
(* The page opens a form for what the calls then do.  A sale is offered     *)
(* exactly when the contract takes it, and a purchase when it would on a   *)
(* full meter: its button looks at the balance alone, and what the meter   *)
(* refuses is in OfferedPurchasesGoThrough.  Whatever of a purchase is     *)
(* within its Max, and every deposit offered, typed in either asset, goes  *)
(* through as long as the meter has not fallen since it was read, the HBD  *)
(* rounded up to a milli included; a deposit the account can pay is        *)
(* offered; Max reached from the LASSECASH field is taken and nothing      *)
(* larger is; the clock shows eviction when a stranger may evict, and a    *)
(* pool that looks ready is never one a first deposit would reopen.        *)
PageTellsTheTruth ==
  /\ PoolReady <=> ~ IsFirstDeposit
  /\ \A k \in Open : TrancheHealthAt(T(k)).phase = 2 <=> IsDormant(T(k))
  /\ \A a \in Accounts :
       /\ \A n \in Typed :
            /\ (SwapDisabledReason(a, TRUE, n) = "") <=> MaySell(a, n)
            /\ (SwapDisabledReason(a, FALSE, n) = "") <=> MayBuy(a, n, Capacity(a))
            /\ \A meter \in Meters :
                 SwapDisabledReason(a, FALSE, n) = "" /\ n <= HbdSpendable(a, meter) =>
                   \A rc \in MetersSince(a, meter) : MayBuy(a, n, rc)
       /\ \A price \in Prices, meter \in Meters :
            LET max  == AffordableDeposit(a, price, meter)
                best == Deposit(LcForm(max.lc, price))
            IN  /\ InsufficientReason(a, best, meter) \in {"", "Enter an amount"}
                /\ \A n \in Typed :
                     LET d == Deposit(LcForm(n, price))
                     IN  /\ InsufficientReason(a, d, meter) = "" =>
                              /\ n <= max.lc
                              /\ \A rc \in MetersSince(a, meter) : MayAdd(a, d.lc, d.maxHbd, rc)
                         /\ MayAdd(a, n, d.hbd, Capacity(a)) /\ meter = NoReading =>
                              InsufficientReason(a, d, meter) = ""
                /\ \A n \in Typed :
                     LET d == Deposit(HbdForm(n, price))
                     IN  InsufficientReason(a, d, meter) = "" =>
                           \A rc \in MetersSince(a, meter) : MayAdd(a, d.lc, d.maxHbd, rc)

(* "Max on the buy side is RC-capped exactly like a deposit:                *)
(* swap_hbd_lassecash draws HBD, and on MAGI the balance is not the        *)
(* ceiling, the meter is" (pool/+page.svelte:702-704): a purchase that is  *)
(* offered goes through, as every deposit does, unless the meter has       *)
(* fallen since it was read.  It does not: the button compares with the    *)
(* balance (swapDisabledReason).                                           *)
OfferedPurchasesGoThrough ==
  \A a \in Accounts, n \in Typed, meter \in Meters \ {NoReading} :
    SwapDisabledReason(a, FALSE, n) = "" => \A rc \in MetersSince(a, meter) : MayBuy(a, n, rc)

\* What a call does to an open tranche, and to an account that deposits.
PaidAsShown(k) ==
  LET walked == acc_day' > acc_day
      t    == T(k)
      v    == TrancheView(t)
      paid == bal'[k[1]] - bal[k[1]]
      want == v.pending_reward + IF k \in Open' THEN 0 ELSE v.value_lc
  IN  T(k)' # t =>
        /\ paid >= want /\ (~ walked => paid = want)
        /\ ~ MayClaim(t) /\ ~ walked /\ k \in Open' => paid = 0
        /\ k \notin Open' => hbd'[k[1]] - hbd[k[1]] = Paid(v.value_hbd)

GivenAsShown(a) ==
  Len(lp'[a]) > Len(lp[a]) =>
    LET q == LiquidityQuote(bal[a] - bal'[a], Reserves)
    IN  /\ lp'[a][Len(lp'[a])].shares = q.shares
        /\ ~ q.first => hbd[a] - hbd'[a] = Drawn(q.hbd)

AsShown == (\A k \in Open : PaidAsShown(k)) /\ (\A a \in Accounts : GivenAsShown(a))

(* A call pays what the page showed before it, and more only by what its   *)
(* own walk brings: a closed tranche its worth, HBD to the milli, and its  *)
(* rewards, a claim its rewards, a deposit the shares quoted for the HBD   *)
(* quoted; and a claim the page offers no button for would have paid       *)
(* nothing (pool/+page.svelte, trancheView).                               *)
PoolPaysWhatIsShown == [][AsShown]_vars
=============================================================================
