------------------------------ MODULE MintViews ------------------------------
(***************************************************************************)
(* What the site tells the owner of a mint, and what the chain then does:  *)
(* the account view the backends assemble (magi-backend.ts, and chain.go   *)
(* for the development chain), the card, the timeline and the dashboard    *)
(* drawn from it, "Claim all", and the preview of a new mint.              *)
(*                                                                         *)
(* A view is a function of the state it was read from, so the module adds  *)
(* no variable: its properties compare a view with the calls of LasseMint  *)
(* taken from the same state.                                              *)
(***************************************************************************)
EXTENDS LasseMint

CONSTANT MaxClaimAllBatch

ASSUME MintViewsAssumption == MaxClaimAllBatch \in Nat

Today == DayOf(height)

-----------------------------------------------------------------------------
(* The account view.                                                       *)

\* Mutant: claimable only once the walk has closed the day, as it first was.
ClaimableOnceWalked(m) == IsMature(m, height) /\ store.acc_day > MaturityDay(m)

\* The claim performs the walk itself, so the day must be over, not walked.
Claimable(m) == IsMature(m, height) /\ Today > MaturityDay(m)

\* Mutant: a closed day's mint is shown at the live accumulator.
LiveAccEnd(m) == store.acc_per

\* The checkpoint once there is one, until then the live accumulator.
AccEnd(m) ==
  IF IsMature(m, height) /\ Retired(m) THEN store.accAt[MaturityDay(m)] ELSE store.acc_per

\* The engine's preview of closing a position now.
MintPreview(m, accrued) ==
  LET s == SettleMint(m, height, accrued)
  IN  [toOwner |-> s.toOwner, toRewardPool |-> s.toRewardPool,
       canArm |-> CanArmGoodAccounting(m, height), bleed |-> BleedRemaining(m, height)]

View(m, accrued, claimable) ==
  LET p == MintPreview(m, accrued)
  IN  [mature |-> IsMature(m, height), claimable |-> claimable, ended |-> m.ended,
       canArm |-> p.canArm /\ ~ m.ended, yield |-> IF m.ended THEN 0 ELSE accrued,
       ifClaimedNow |-> p.toOwner, slashed |-> p.toRewardPool,
       bleed |-> p.bleed]

MintView(m) == View(m, Entitlement(m.shares, m.accStart, AccEnd(m)), Claimable(m))

\* The development chain's own figure: nothing while the day is open.
PendingYield(m) ==
  IF m.ended \/ (IsMature(m, height) /\ ~ Retired(m)) THEN 0
  ELSE Entitlement(m.shares, m.accStart, AccEnd(m))

DevMintView(m) == View(m, PendingYield(m), Claimable(m))

-----------------------------------------------------------------------------
(* The pages.                                                              *)

Bleeding(v) == v.bleed \notin {0, MultScale}

\* What the card's button says; it can be pressed unless it says "nothing
\* left" or "waiting".
Button(v) ==
  CASE v.bleed = 0                -> "nothing left"
    [] v.bleed # 0 /\ ~ v.mature  -> "end early"
    [] v.bleed # 0 /\ v.mature /\ ~ v.claimable -> "waiting"
    [] OTHER                      -> "claim"

\* The timeline under the card.
Phase(m) ==
  LET graceEnd == MaturityHeight(m) + GraceDaysFor(m) * HeightsPerDay
      zeroAt   == graceEnd + BleedDays * HeightsPerDay
  IN  CASE height < MaturityHeight(m)                         -> "lock"
        [] height \in MaturityHeight(m) .. graceEnd           -> "grace"
        [] height > graceEnd /\ height < zeroAt               -> "bleed"
        [] OTHER                                              -> "liquidated"

OpenMints(a) == {id \in DOMAIN mint[a] : ~ mint[a][id].ended}

NeedAttention(a) ==
  {id \in OpenMints(a) : MintView(mint[a][id]).mature \/ MintView(mint[a][id]).bleed # MultScale}

ClaimableNow(a) == {id \in OpenMints(a) : MintView(mint[a][id]).claimable}

ClosingToday(a) ==
  {id \in OpenMints(a) : MintView(mint[a][id]).mature /\ ~ MintView(mint[a][id]).claimable}

\* When the dashboard says the mints of ClosingToday become claimable.
DayCloses == GenesisHeight + ((height - GenesisHeight) \div HeightsPerDay + 1) * HeightsPerDay

\* The emission the dashboard announces for today.
DailyRewards ==
  LET from  == HeightOfDay(Today)
      alloc == Split(EmissionBetween(from, from + HeightsPerDay))
  IN  [lshare |-> alloc.lshare, liquidity |-> alloc.liquidity,
       viral |-> SplitPoB(alloc.pob).viral, deep |-> SplitPoB(alloc.pob).deep]

-----------------------------------------------------------------------------
(* "Claim all" and the preview of a new mint.                              *)

\* A claim is taken on the store `walked' that its own walk leaves, unless the
\* mint is mature and its day still open: what the dry run asks.
Accepted(m, walked) == IsMature(m, height) => walked.acc_day > MaturityDay(m)

\* The matured mints, in order, up to the first the dry run refuses.
ClaimAllBatch(a, walked) ==
  LET matured == {id \in NeedAttention(a) : MintView(mint[a][id]).mature}
      first   == {id \in matured : Cardinality({i \in matured : i <= id}) <= MaxClaimAllBatch}
      refused == {id \in first : ~ Accepted(mint[a][id], walked)}
  IN  {id \in first : \A r \in refused : id < r}

-----------------------------------------------------------------------------
(* The button of a card tells the truth: what the chain would take is      *)
(* offered, what waits is refused, what is offered for a matured mint is    *)
(* taken once one walk reaches today, and a mint with nothing left pays     *)
(* nothing; the timeline never calls safe a mint that bleeds, a waiting     *)
(* mint is claimable exactly when the dashboard says, and "Claim all" takes *)
(* every claimable mint unless one is waiting or the walk lags.  The day    *)
(* that is walked pays the pools what the dashboard announced for it        *)
(* (MintCard.svelte, MintTimeline.svelte, mint/+page.svelte, client.ts).    *)
DashboardTellsTheTruth ==
  LET walked == Accrue(store, height)
      caught == CaughtUp(walked, height)
      next   == AccrueWalk(store, HeightOfDay(Today + 1), 1, Cardinality(LiveIds))
  IN  /\ \A a \in Accounts :
           /\ \A id \in OpenMints(a) :
                LET m  == mint[a][id]
                    v  == MintView(m)
                    b  == Button(v)
                    ok == Accepted(m, walked)
                IN  /\ ok => b = "end early" \/ v.claimable
                    /\ v.claimable /\ caught => ok
                    /\ b = "waiting" => ~ ok
                    /\ b = "nothing left" => v.ifClaimedNow = 0
                    /\ Phase(m) = "lock" <=> b = "end early"
                    /\ Phase(m) = "liquidated" => b = "nothing left"
                    /\ Bleeding(v) => Phase(m) = "bleed"
                    /\ id \in ClosingToday(a) =>
                         /\ DayOf(DayCloses) > MaturityDay(m)
                         /\ DayOf(DayCloses - 1) = MaturityDay(m)
           /\ caught /\ ClosingToday(a) = {} /\ Cardinality(ClaimableNow(a)) <= MaxClaimAllBatch
                => ClaimAllBatch(a, walked) = ClaimableNow(a)
      /\ CaughtUp(store, height) /\ Today < LastDay =>
           DailyRewards = [lshare    |-> next.pool_lshare - store.pool_lshare,
                           liquidity |-> next.pool_liq - store.pool_liq,
                           viral     |-> next.pool_viral - store.pool_viral,
                           deep      |-> next.pool_deep - store.pool_deep]

(* Closing a mint pays at least what its card shows for that height, and    *)
(* exactly that once its maturity day is closed; the development chain      *)
(* never shows more, and the same once the day is closed (magi-backend.ts,  *)
(* "the claim pays at least this"; mint.go, PendingYield).                  *)
ClosingPaysWhatIsShown ==
  [][\A a \in Accounts : \A id \in OpenMints(a) :
       LET m    == mint[a][id]
           v    == MintView(m)
           dev  == DevMintView(m)
           paid == bal'[a] - bal[a]
       IN  /\ mint'[a][id].ended =>
                /\ paid >= v.ifClaimedNow
                /\ Retired(m) => paid = v.ifClaimedNow
           /\ dev.ifClaimedNow <= v.ifClaimedNow
           /\ Retired(m) \/ ~ v.mature => dev = v]_vars
=============================================================================
