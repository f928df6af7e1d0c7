------------------------------- MODULE Engine -------------------------------
(***************************************************************************)
(* The pure arithmetic of the engine package: the emission schedule and    *)
(* its split, the share rate and the shares a position receives, the       *)
(* settlement of a position, and the reward-per-share accumulator.         *)
(*                                                                         *)
(* Every constant of the code is a CONSTANT here, so that the checks can   *)
(* scale days, eras and fixed-point units down.                            *)
(***************************************************************************)
EXTENDS Loops

CONSTANTS
  GenesisHeight,        \* cfg_genesis: the Hive height at which emission starts
  HeightsPerDay, HeightsPerYear, HeightsPerEra,
  EmissionCap,          \* 20M LC in base units
  MaxAmount,            \* the largest int64
  MultScale,            \* 1.0 in the fixed-point multipliers
  ShareUnit,            \* one L-Share in the fixed-point share unit
  GenesisShareRate, ShareRateRatchetPct,
  MinMintDays, MaxMintDays,
  MaxDurationBonus, MaxVolumeBonus, MinEarlyEndRecovery,
  GraceDays, BleedDays, GoodAccountingGraceDays,
  AccScale, MinSharesForAccrual

(***************************************************************************)
(* What the code relies on.  Eight heights-per-day quanta make the daily   *)
(* floors of the 25 % splits exact, and an era never ends inside a day.    *)
(***************************************************************************)
ASSUME EngineAssumption ==
  /\ GenesisHeight \in Nat \ {0}
  /\ HeightsPerDay \in Nat \ {0} /\ HeightsPerDay % 8 = 0
  /\ HeightsPerYear \in Nat \ {0}
  /\ HeightsPerEra \in Nat \ {0} /\ HeightsPerEra % HeightsPerDay = 0
  /\ EmissionCap \in Nat
  /\ MaxAmount \in Nat
  /\ MultScale \in Nat \ {0}
  /\ ShareUnit \in Nat \ {0}
  /\ GenesisShareRate \in Nat \ {0}
  /\ ShareRateRatchetPct \in Nat
  /\ MinMintDays \in Nat \ {0} /\ MaxMintDays \in Nat /\ MinMintDays < MaxMintDays
  /\ MaxDurationBonus \in Nat /\ MaxVolumeBonus \in Nat
  /\ MinEarlyEndRecovery \in 0..MultScale
  /\ GraceDays \in Nat /\ BleedDays \in Nat \ {0} /\ GoodAccountingGraceDays \in Nat
  /\ AccScale \in Nat \ {0} /\ MinSharesForAccrual \in Nat \ {0}

\* Floored a * num / den, on the non-negative amounts the contract holds.
MulDiv(a, num, den) == (a * num) \div den

\* Subtraction that stops at zero: the "defensive" floors of the walk.
Monus(a, b) == IF a > b THEN a - b ELSE 0

AtMost(a, b) == IF a > b THEN b ELSE a

-----------------------------------------------------------------------------
(* Emission: half of what remains of the cap in every era, in equal rewards *)
(* per height.                                                             *)

EraState == [budget : Nat, total : Nat]

NextEra ==
  [e \in EraState |-> [budget |-> MulDiv(e.budget, 1, 2),
                       total  |-> e.total + (e.budget \div HeightsPerEra) * HeightsPerEra]]

\* After n eras: the budget of the next one, and what those n emitted.
Eras(n) == Iterate(NextEra, [budget |-> MulDiv(EmissionCap, 1, 2), total |-> 0], n)

EraBudget(n) == Eras(n).budget

RewardPerHeight(n) == EraBudget(n) \div HeightsPerEra

TotalEmittedAt(height) ==
  IF height <= GenesisHeight THEN 0
  ELSE LET elapsed  == height - GenesisHeight
           fullEras == elapsed \div HeightsPerEra
       IN  Eras(fullEras).total + RewardPerHeight(fullEras) * (elapsed % HeightsPerEra)

\* Mutant: the whole interval is paid at the rate of its end.
EmissionAtEndRate(from, to) ==
  IF to <= from THEN 0 ELSE RewardPerHeight((to - GenesisHeight) \div HeightsPerEra) * (to - from)

EmissionBetween(from, to) ==
  IF to <= from THEN 0 ELSE TotalEmittedAt(to) - TotalEmittedAt(from)

\* 25 % to L-Share, 25 % to liquidity, the rest to Proof of Brain.
Split(amount) ==
  LET quarter == MulDiv(amount, 25, 100)
  IN  [lshare |-> quarter, liquidity |-> quarter, pob |-> amount - quarter - quarter]

\* Mutant: 30 % to the viral window, for which daily floors do not add up.
SplitPoBThirty(pob) ==
  LET viral == MulDiv(pob, 30, 100)
  IN  [viral |-> viral, deep |-> pob - viral]

SplitPoB(pob) ==
  LET viral == MulDiv(pob, 25, 100)
  IN  [viral |-> viral, deep |-> pob - viral]

-----------------------------------------------------------------------------
(* Shares of a position.                                                   *)

RateOfYear(n) ==
  Iterate([rate \in Nat |-> MulDiv(rate, 100 + ShareRateRatchetPct, 100)], GenesisShareRate, n)

\* The upward-only share rate, interpolated inside the year.
ShareRate(height) ==
  IF height <= GenesisHeight THEN GenesisShareRate
  ELSE LET elapsed == height - GenesisHeight
           rate    == RateOfYear(elapsed \div HeightsPerYear)
       IN  rate + MulDiv(rate, ShareRateRatchetPct * (elapsed % HeightsPerYear),
                         100 * HeightsPerYear)

DurationMultiplier(days) ==
  IF days <= MinMintDays THEN MultScale
  ELSE IF days >= MaxMintDays THEN MultScale + MaxDurationBonus
  ELSE MultScale + ((days - MinMintDays) * MaxDurationBonus)
                      \div (MaxMintDays - MinMintDays)

VolumeMultiplier(principal, start, end) ==
  IF end <= start \/ principal <= start THEN MultScale
  ELSE IF principal >= end THEN MultScale + MaxVolumeBonus
  ELSE MultScale + MulDiv(principal - start, MaxVolumeBonus, end - start)

ComputeShares(principal, days, p) ==
  LET base         == MulDiv(principal, ShareUnit, p.shareRate)
      withDuration == MulDiv(base, DurationMultiplier(days), MultScale)
  IN  MulDiv(withDuration, VolumeMultiplier(principal, p.volumeStart, p.volumeEnd), MultScale)

-----------------------------------------------------------------------------
(* The life of a position.  A mint is a record                             *)
(* [principal, shares, start, days, goodAccounting, ended, accStart,       *)
(* expChunk].                                                              *)

MaturityHeight(m) == m.start + m.days * HeightsPerDay

IsMature(m, height) == height >= MaturityHeight(m)

CanArmGoodAccounting(m, height) ==
  /\ ~ m.ended
  /\ ~ m.goodAccounting
  /\ height \in MaturityHeight(m) .. (MaturityHeight(m) + GraceDays * HeightsPerDay)

\* The part of the principal an early end recovers: from the floor at the
\* start, linearly, to all of it at maturity.
EarlyEndRecovery(m, height) ==
  IF height <= m.start THEN MinEarlyEndRecovery
  ELSE IF IsMature(m, height) THEN MultScale
  ELSE MinEarlyEndRecovery
         + ((height - m.start) * (MultScale - MinEarlyEndRecovery))
             \div (m.days * HeightsPerDay)

GraceDaysFor(m) == IF m.goodAccounting THEN GoodAccountingGraceDays ELSE GraceDays

\* What survives of a matured position: all of it during grace, then linearly
\* less until nothing is left.
BleedRemaining(m, height) ==
  LET graceEnd == MaturityHeight(m) + GraceDaysFor(m) * HeightsPerDay
      span     == BleedDays * HeightsPerDay
  IN  IF height <= graceEnd THEN MultScale
      ELSE IF height - graceEnd >= span THEN 0
      ELSE ((span - (height - graceEnd)) * MultScale) \div span

\* Mutant: the yield an early end forfeits is recycled nowhere.
SettleMintYieldLost(m, height, accrued) ==
  LET total == m.principal + accrued
      owner == IF IsMature(m, height)
               THEN MulDiv(total, BleedRemaining(m, height), MultScale)
               ELSE MulDiv(m.principal, EarlyEndRecovery(m, height), MultScale)
  IN  [toOwner |-> owner,
       toRewardPool |-> (IF IsMature(m, height) THEN total ELSE m.principal) - owner]

SettleMint(m, height, accrued) ==
  LET total == m.principal + accrued
      owner == IF IsMature(m, height)
               THEN MulDiv(total, BleedRemaining(m, height), MultScale)
               ELSE MulDiv(m.principal, EarlyEndRecovery(m, height), MultScale)
  IN  [toOwner |-> owner, toRewardPool |-> total - owner]

-----------------------------------------------------------------------------
(* The accumulator: either the whole inflow is distributed over the active *)
(* shares or all of it is held for the next step.                          *)

\* Mutant: what was distributed is still held.
AccumulatorStepHeldKept(acc, inflow, held, active) ==
  LET total == inflow + held
      rise  == MulDiv(total, AccScale, active)
  IN  IF active < MinSharesForAccrual \/ rise = 0 \/ acc + rise > MaxAmount
      THEN [acc |-> acc, held |-> total]
      ELSE [acc |-> acc + rise, held |-> held]

AccumulatorStep(acc, inflow, held, active) ==
  LET total == inflow + held
      rise  == MulDiv(total, AccScale, active)
  IN  IF total = 0 THEN [acc |-> acc, held |-> 0]
      ELSE IF active < MinSharesForAccrual \/ rise = 0 \/ acc + rise > MaxAmount
      THEN [acc |-> acc, held |-> total]
      ELSE [acc |-> acc + rise, held |-> 0]

Entitlement(shares, accStart, accEnd) ==
  IF accEnd <= accStart THEN 0 ELSE MulDiv(accEnd - accStart, shares, AccScale)
=============================================================================
