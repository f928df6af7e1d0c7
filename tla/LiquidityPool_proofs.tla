------------------------- MODULE LiquidityPool_proofs -------------------------
(***************************************************************************)
(* The safety theorems of LiquidityPool, for every value of its constants. *)
(*                                                                         *)
(* That the floored rewards are covered (RewardsCovered) is no invariant   *)
(* of one step at a time: what a tranche earns twice may floor to one unit *)
(* more than twice its floor.  Sound states it before flooring, in units   *)
(* of the accumulator, where every step keeps it exactly.                  *)
(***************************************************************************)
EXTENDS PoolHistory, Engine_proofs, SequenceTheorems

\* Open tranches of a table of tranches, and their shares, their weights and
\* what they have earned, in units of the accumulator.
OpenOf(p) == UNION {{<<a, id>> : id \in {i \in DOMAIN p[a] : ~ p[a][i].closed}} : a \in Accounts}

SharesOf(p) == [k \in OpenOf(p) |-> p[k[1]][k[2]].shares]

WeightsOf(p) == [k \in OpenOf(p) |-> p[k[1]][k[2]].weight]

EarnedOf(p, acc) == [k \in OpenOf(p) |-> p[k[1]][k[2]].weight * (acc - p[k[1]][k[2]].accStart)]

Amm == [lc : Nat, hbd : Nat, shares : Nat, weight : Nat, acc : Nat, held : Nat, seen : Nat]

\* The totals and the accumulator fit the open tranches.
Sound(p, m) ==
  /\ p \in [Accounts -> Seq(Tranche)] /\ IsFiniteSet(OpenOf(p)) /\ m \in Amm
  /\ \A k \in OpenOf(p) : p[k[1]][k[2]].shares # 0 /\ p[k[1]][k[2]].accStart <= m.acc
  /\ m.shares = Total(SharesOf(p), OpenOf(p))
  /\ m.weight = Total(WeightsOf(p), OpenOf(p))
  /\ Total(EarnedOf(p, m.acc), OpenOf(p)) + AccScale * m.held <= AccScale * m.seen

\* The inductive invariant.
PoolInv ==
  /\ TypeOK
  /\ acc_day <= DayOf(height)
  /\ amm.seen <= pool_liq
  /\ \A k \in Open : T(k).start <= height
  /\ Sound(lp, amm)
  /\ CustodyCoversReserve
  /\ LasseCashConserved

-----------------------------------------------------------------------------
(* Constants, days and prices.                                             *)

LEMMA ConstantTypes ==
  /\ IsFiniteSet(Accounts)
  /\ GenesisHeight \in Nat /\ HeightsPerDay \in Nat \ {0} /\ AccScale \in Nat \ {0}
  /\ MultScale \in Nat \ {0}
  /\ HbdUnitsPerMilli \in Nat \ {0} /\ LoyaltyMaxDays \in Nat /\ LoyaltyPerDay \in Nat
  /\ MaxAccrualDays \in Nat \ {0} /\ Heights \subseteq Nat /\ GenesisHeight \in Heights
  /\ Funds.lc \in Nat /\ Funds.hbd \in Nat /\ MaxSwaps \in Nat
  /\ LcAmounts \subseteq Nat \ {0} /\ HbdAmounts \subseteq Nat \ {0} /\ Gifts \subseteq Nat \ {0}
  /\ LastDay \in Nat /\ DayReward \in [Days -> Nat]
BY EngineAssumption, LiquidityPoolAssumption, LastDayAssumption

\* Days do not run backwards (dayOf).
LEMMA DayOfMono ==
  ASSUME NEW g \in Nat, NEW h \in Nat, g <= h
  PROVE  DayOf(g) \in Nat /\ DayOf(g) <= DayOf(h)
<1> DEFINE x == g - GenesisHeight
           y == h - GenesisHeight
           p == x \div HeightsPerDay
           q == y \div HeightsPerDay
<1>1. CASE g <= GenesisHeight
  <2>1. DayOf(g) = 0
    BY <1>1 DEF DayOf
  <2>2. DayOf(h) \in Nat
    BY ConstantTypes DEF DayOf
  <2> QED BY <2>1, <2>2
<1>2. CASE g > GenesisHeight
  <2>1. x \in Nat /\ y \in Nat /\ x <= y /\ DayOf(g) = p /\ DayOf(h) = q
    BY <1>2, ConstantTypes DEF DayOf
  <2> HIDE DEF x, y
  <2>2. /\ p \in Nat /\ x % HeightsPerDay \in 0 .. HeightsPerDay - 1
        /\ x = HeightsPerDay * p + (x % HeightsPerDay)
        /\ q \in Nat /\ y % HeightsPerDay \in 0 .. HeightsPerDay - 1
        /\ y = HeightsPerDay * q + (y % HeightsPerDay)
    BY <2>1, ConstantTypes, DivMod
  <2> HIDE DEF p, q
  <2>3. ASSUME q + 1 <= p PROVE FALSE
    <3>1. HeightsPerDay * (q + 1) <= HeightsPerDay * p
      BY <2>2, <2>3, ConstantTypes, ProductMono
    <3>2. HeightsPerDay * (q + 1) = HeightsPerDay * q + HeightsPerDay
      BY <2>2, ConstantTypes
    <3>3. HeightsPerDay * q \in Nat /\ HeightsPerDay * p \in Nat
      BY <2>2, ConstantTypes, ProductNat
    <3> QED BY <2>1, <2>2, <3>1, <3>2, <3>3, ConstantTypes
  <2> QED BY <2>1, <2>2, <2>3
<1> QED BY <1>1, <1>2, ConstantTypes

\* A draw is rounded up and a payment down (DrawHBD, PayHBD).
LEMMA Rounding ==
  ASSUME NEW u \in Nat
  PROVE  Drawn(u) \in Nat /\ u <= Drawn(u) /\ Paid(u) \in Nat /\ Paid(u) <= u
<1> DEFINE d == HbdUnitsPerMilli
           v == u + d - 1
           p == v \div d
           q == u \div d
<1>1. d \in Nat \ {0} /\ v \in Nat
  BY ConstantTypes
<1>2. Drawn(u) = p * d /\ Paid(u) = q * d
  BY DEF Drawn, Paid, Ceil
<1> HIDE DEF d
<1>3. /\ p \in Nat /\ v % d \in 0 .. d - 1 /\ v = d * p + (v % d)
      /\ q \in Nat /\ u % d \in 0 .. d - 1 /\ u = d * q + (u % d)
  BY <1>1, DivMod
<1> HIDE DEF p, q
<1>4. p * d = d * p /\ q * d = d * q /\ d * p \in Nat /\ d * q \in Nat
  BY <1>1, <1>3, ProductNat
<1> QED BY <1>1, <1>2, <1>3, <1>4

\* A weight is never negative (TrancheWeight).
LEMMA WeightNat ==
  ASSUME NEW shares \in Nat, NEW age \in Nat
  PROVE  TrancheWeight(shares, age) \in Nat
<1>1. AtMost(age, LoyaltyMaxDays) \in Nat
  BY ConstantTypes DEF AtMost
<1>2. AtMost(age, LoyaltyMaxDays) * LoyaltyPerDay \in Nat
  BY <1>1, ConstantTypes, ProductNat
<1>3. MultScale + AtMost(age, LoyaltyMaxDays) * LoyaltyPerDay \in Nat
  BY <1>2, ConstantTypes
<1> QED BY <1>3, ConstantTypes, MulDivBounds DEF TrancheWeight

\* The days a call's walk reaches lie between the last day walked and today
\* (accrueTo).
LEMMA WalkForward ==
  ASSUME PoolInv, NEW day \in Walks
  PROVE  day \in Days /\ acc_day <= day /\ day <= DayOf(height)
<1>1. acc_day \in Nat /\ height \in Heights /\ height \in Nat /\ acc_day <= DayOf(height)
  BY ConstantTypes DEF PoolInv, TypeOK, Days
<1>2. DayOf(height) \in Nat /\ DayOf(height) <= LastDay
  BY <1>1, DayOfMono, LastDayAssumption
<1>3. day = acc_day \/ day = AtMost(DayOf(height), acc_day + MaxAccrualDays)
  BY DEF Walks
<1> QED BY <1>1, <1>2, <1>3, ConstantTypes DEF AtMost, Days

\* What the days of a walk emit comes on top of what was emitted before
\* (LiquidityEmission).
LEMMA EmissionAdds ==
  ASSUME NEW from \in Days, NEW to \in Days, from <= to
  PROVE  /\ LiquidityEmission(from, to) \in Nat
         /\ LiquidityEmission(0, from) \in Nat
         /\ LiquidityEmission(0, to) = LiquidityEmission(0, from) + LiquidityEmission(from, to)
<1> DEFINE early == 0 .. from - 1
           late  == from .. to - 1
<1>1. from \in Nat /\ to \in Nat
  BY ConstantTypes DEF Days
<1>2. IsFiniteSet(early) /\ IsFiniteSet(late)
  BY <1>1, FS_Interval
<1>3. early \intersect late = {} /\ early \union late = 0 .. to - 1
  BY <1>1
<1>4. \A d \in early \union late : DayReward[d] \in Nat
  <2>1. early \union late \subseteq Days
    BY <1>1, <1>3, ConstantTypes DEF Days
  <2> QED BY <2>1, ConstantTypes
<1> HIDE DEF early, late
<1>5. Total(DayReward, early \union late) = Total(DayReward, early) + Total(DayReward, late)
  BY <1>2, <1>3, <1>4, TotalUnion
<1>6. Total(DayReward, early) \in Nat /\ Total(DayReward, late) \in Nat
  BY <1>2, <1>4, TotalIsNat
<1> QED BY <1>3, <1>5, <1>6 DEF LiquidityEmission, early, late

-----------------------------------------------------------------------------
(* Tranches and what they add up to.                                       *)

LEMMA OpenKeys ==
  ASSUME NEW p \in [Accounts -> Seq(Tranche)]
  PROVE  /\ \A a \in Accounts : \A id :
              <<a, id>> \in OpenOf(p) <=> id \in DOMAIN p[a] /\ ~ p[a][id].closed
         /\ \A k \in OpenOf(p) :
              /\ k[1] \in Accounts /\ k[2] \in DOMAIN p[k[1]] /\ k = <<k[1], k[2]>>
              /\ p[k[1]][k[2]] \in Tranche /\ ~ p[k[1]][k[2]].closed
<1>1. \A a \in Accounts : p[a] \in Seq(Tranche) /\ \A id \in DOMAIN p[a] : p[a][id] \in Tranche
  OBVIOUS
<1> QED BY <1>1 DEF OpenOf

\* What Sound says of one open tranche and of the totals.
LEMMA SoundFields ==
  ASSUME NEW p, NEW m, Sound(p, m)
  PROVE  /\ \A k \in OpenOf(p) :
              /\ SharesOf(p)[k] \in Nat /\ SharesOf(p)[k] = p[k[1]][k[2]].shares
              /\ SharesOf(p)[k] # 0
              /\ WeightsOf(p)[k] \in Nat /\ WeightsOf(p)[k] = p[k[1]][k[2]].weight
              /\ p[k[1]][k[2]].accStart \in Nat /\ p[k[1]][k[2]].accStart <= m.acc
              /\ EarnedOf(p, m.acc)[k] \in Nat
              /\ EarnedOf(p, m.acc)[k] = p[k[1]][k[2]].weight * (m.acc - p[k[1]][k[2]].accStart)
         /\ Total(EarnedOf(p, m.acc), OpenOf(p)) \in Nat
<1>1. p \in [Accounts -> Seq(Tranche)] /\ IsFiniteSet(OpenOf(p)) /\ m.acc \in Nat
  BY DEF Sound, Amm
<1>2. ASSUME NEW k \in OpenOf(p)
      PROVE  /\ SharesOf(p)[k] \in Nat /\ SharesOf(p)[k] = p[k[1]][k[2]].shares
             /\ SharesOf(p)[k] # 0
             /\ WeightsOf(p)[k] \in Nat /\ WeightsOf(p)[k] = p[k[1]][k[2]].weight
             /\ p[k[1]][k[2]].accStart \in Nat /\ p[k[1]][k[2]].accStart <= m.acc
             /\ EarnedOf(p, m.acc)[k] \in Nat
             /\ EarnedOf(p, m.acc)[k] = p[k[1]][k[2]].weight * (m.acc - p[k[1]][k[2]].accStart)
  <2> DEFINE t == p[k[1]][k[2]]
  <2>1. t \in Tranche
    BY <1>1, OpenKeys
  <2>2. t.shares # 0 /\ t.accStart <= m.acc
    BY DEF Sound
  <2>3. t.shares \in Nat /\ t.weight \in Nat /\ t.accStart \in Nat
    BY <2>1 DEF Tranche
  <2>4. SharesOf(p)[k] = t.shares /\ WeightsOf(p)[k] = t.weight
        /\ EarnedOf(p, m.acc)[k] = t.weight * (m.acc - t.accStart)
    BY DEF SharesOf, WeightsOf, EarnedOf
  <2> HIDE DEF t
  <2>5. m.acc - t.accStart \in Nat
    BY <1>1, <2>2, <2>3
  <2>6. t.weight * (m.acc - t.accStart) \in Nat
    BY <2>3, <2>5, ProductNat
  <2> QED BY <2>2, <2>3, <2>4, <2>6 DEF t
<1>3. Total(EarnedOf(p, m.acc), OpenOf(p)) \in Nat
  <2>1. \A k \in OpenOf(p) : EarnedOf(p, m.acc)[k] \in Nat
    BY <1>2
  <2> QED BY <1>1, <2>1, TotalIsNat
<1> QED BY <1>2, <1>3, Zenon

\* What a tranche has earned is in the pool (settleTranche).
LEMMA OwedIsThere ==
  ASSUME NEW p, NEW m, Sound(p, m), NEW k \in OpenOf(p)
  PROVE  LET t == p[k[1]][k[2]]
             owed == Entitlement(t.weight, t.accStart, m.acc)
         IN  /\ owed \in Nat /\ owed <= m.seen
             /\ AccScale * owed <= EarnedOf(p, m.acc)[k]
             /\ AtMost(owed, m.seen) = owed
<1> DEFINE t == p[k[1]][k[2]]
           d == m.acc - t.accStart
           owed == Entitlement(t.weight, t.accStart, m.acc)
           e == EarnedOf(p, m.acc)
<1>1. /\ t.weight \in Nat /\ t.accStart \in Nat /\ m.acc \in Nat /\ d \in Nat
      /\ e[k] \in Nat /\ e[k] = t.weight * d
      /\ m.seen \in Nat /\ m.held \in Nat /\ IsFiniteSet(OpenOf(p))
      /\ \A x \in OpenOf(p) : e[x] \in Nat
      /\ Total(e, OpenOf(p)) \in Nat
  <2>1. m \in Amm /\ IsFiniteSet(OpenOf(p))
    BY DEF Sound
  <2>2. m.acc \in Nat /\ m.seen \in Nat /\ m.held \in Nat
    BY <2>1 DEF Amm
  <2>3. t.weight \in Nat /\ t.accStart \in Nat /\ t.accStart <= m.acc /\ e[k] = t.weight * d
    BY SoundFields
  <2>4. d \in Nat
    BY <2>2, <2>3
  <2> QED BY <2>1, <2>2, <2>3, <2>4, SoundFields
<1>2. owed \in Nat /\ AccScale * owed <= e[k]
  <2>1. CASE m.acc <= t.accStart
    <3>1. owed = 0
      BY <2>1 DEF Entitlement
    <3> QED BY <1>1, <3>1, ConstantTypes
  <2>2. CASE ~ (m.acc <= t.accStart)
    <3>1. owed = MulDiv(d, t.weight, AccScale)
      BY <2>2 DEF Entitlement
    <3> HIDE DEF d
    <3>2. owed \in Nat /\ AccScale * owed <= d * t.weight
      BY <1>1, <3>1, ConstantTypes, MulDivBounds
    <3> QED BY <1>1, <3>2
  <2> QED BY <2>1, <2>2
<1>3. e[k] <= Total(e, OpenOf(p))
  <2> HIDE DEF e
  <2> QED BY <1>1, TotalRemove
<1>4. Total(e, OpenOf(p)) + AccScale * m.held <= AccScale * m.seen
  BY DEF Sound
<1> HIDE DEF t, d, owed, e
<1>5. AccScale * owed <= AccScale * m.seen
  <2>1. AccScale * m.held \in Nat /\ AccScale * m.seen \in Nat /\ AccScale * owed \in Nat
    BY <1>1, <1>2, ConstantTypes, ProductNat
  <2> QED BY <1>1, <1>2, <1>3, <1>4, <2>1
<1>6. owed <= m.seen
  <2>1. ASSUME m.seen + 1 <= owed PROVE FALSE
    <3>1. AccScale * (m.seen + 1) <= AccScale * owed
      BY <1>1, <1>2, <2>1, ConstantTypes, ProductMono
    <3>2. AccScale * (m.seen + 1) = AccScale * m.seen + AccScale
      BY <1>1, ConstantTypes
    <3>3. AccScale * m.seen \in Nat /\ AccScale * owed \in Nat
      BY <1>1, <1>2, ConstantTypes, ProductNat
    <3> QED BY <1>5, <3>1, <3>2, <3>3, ConstantTypes
  <2> QED BY <1>1, <1>2, <2>1
<1>7. AtMost(owed, m.seen) = owed
  BY <1>1, <1>2, <1>6 DEF AtMost
<1> QED BY <1>2, <1>6, <1>7 DEF t, owed, e

\* Folding in what the pool received keeps the accumulator sound
\* (syncPoolAccumulator).
LEMMA SyncSound ==
  ASSUME NEW p, NEW m, Sound(p, m), NEW pool \in Nat, m.seen <= pool
  PROVE  LET n == SyncPoolAccumulator(m, pool)
         IN  /\ Sound(p, n)
             /\ n.lc = m.lc /\ n.hbd = m.hbd /\ n.shares = m.shares /\ n.weight = m.weight
             /\ n.seen = pool /\ m.acc <= n.acc
<1> DEFINE n    == SyncPoolAccumulator(m, pool)
           in   == pool - m.seen
           step == AccumulatorStep(m.acc, in, m.held, m.weight)
           K    == OpenOf(p)
           e    == EarnedOf(p, m.acc)
           f    == EarnedOf(p, n.acc)
           w    == WeightsOf(p)
<1>1. m \in Amm /\ IsFiniteSet(K) /\ m.weight = Total(w, K)
  BY DEF Sound
<1>2. /\ m.lc \in Nat /\ m.hbd \in Nat /\ m.shares \in Nat /\ m.weight \in Nat
      /\ m.acc \in Nat /\ m.held \in Nat /\ m.seen \in Nat /\ in \in Nat
  BY <1>1 DEF Amm
<1>3. CASE ~ (pool > m.seen)
  <2>1. n = [m EXCEPT !.seen = pool] /\ pool = m.seen
    BY <1>2, <1>3 DEF SyncPoolAccumulator
  <2>2. n = m
    BY <1>1, <2>1 DEF Amm
  <2> QED BY <1>2, <2>1, <2>2
<1>4. CASE pool > m.seen
  <2>1. n = [m EXCEPT !.acc = step.acc, !.held = step.held, !.seen = pool]
    BY <1>4, Zenon DEF SyncPoolAccumulator
  <2> HIDE DEF in
  <2>2. /\ step.acc \in Nat /\ step.held \in Nat /\ step.acc >= m.acc
        /\ m.weight * (step.acc - m.acc) <= (in + m.held - step.held) * AccScale
    <3>1. m.weight \in Int
      BY <1>2
    <3> QED BY <1>2, <3>1, AccumulatorStepSound
  <2> HIDE DEF step, n
  <2>3. /\ n \in Amm /\ n.lc = m.lc /\ n.hbd = m.hbd /\ n.shares = m.shares
        /\ n.weight = m.weight /\ n.acc = step.acc /\ n.held = step.held /\ n.seen = pool
    <3>1. m \in Amm /\ step.acc \in Nat /\ step.held \in Nat /\ pool \in Nat
      BY <1>1, <2>2
    <3> DEFINE x == step.acc
               y == step.held
    <3> HIDE DEF x, y
    <3>2. x \in Nat /\ y \in Nat
      BY <3>1 DEF x, y
    <3>3. n = [m EXCEPT !.acc = x, !.held = y, !.seen = pool]
      BY <2>1 DEF x, y
    <3>4. /\ n \in Amm /\ n.lc = m.lc /\ n.hbd = m.hbd /\ n.shares = m.shares
          /\ n.weight = m.weight /\ n.acc = x /\ n.held = y /\ n.seen = pool
      BY <3>1, <3>2, <3>3 DEF Amm
    <3> QED BY <3>4 DEF x, y
  <2> DEFINE r == step.acc - m.acc
  <2>4. r \in Nat
    BY <1>2, <2>2
  <2>5. \A k \in K : f[k] = e[k] + r * w[k] /\ e[k] \in Nat /\ w[k] \in Nat
    <3> TAKE k \in K
    <3> DEFINE t == p[k[1]][k[2]]
               d == m.acc - t.accStart
    <3>1. t.weight \in Nat /\ w[k] = t.weight /\ t.accStart \in Nat /\ e[k] = t.weight * d
          /\ e[k] \in Nat
      BY SoundFields
    <3>2. f[k] = t.weight * (step.acc - t.accStart)
      BY <2>3 DEF EarnedOf
    <3> HIDE DEF t
    <3>3. step.acc - t.accStart = d + r
      BY <1>2, <2>2, <3>1
    <3>4. d \in Int
      BY <1>2, <3>1
    <3> HIDE DEF d, r
    <3>5. t.weight * (d + r) = t.weight * d + r * t.weight
      BY <2>4, <3>1, <3>4
    <3> QED BY <3>1, <3>2, <3>3, <3>5
  <2> HIDE DEF e, f, w, K
  <2>6. Total(f, K) = Total(e, K) + r * m.weight
    <3> HIDE DEF r
    <3> QED BY <1>1, <2>4, <2>5, TotalScale
  <2>7. Total(e, K) \in Nat /\ Total(e, K) + AccScale * m.held <= AccScale * m.seen
    BY SoundFields DEF Sound, e, K
  <2>8. Total(f, K) + AccScale * step.held <= AccScale * pool
    <3> DEFINE te == Total(e, K)
               tf == Total(f, K)
               ah == AccScale * m.held
               sc == AccScale * m.seen
               ai == AccScale * in
               an == AccScale * step.held
               rw == m.weight * r
    <3>1. /\ te \in Nat /\ ah \in Nat /\ sc \in Nat /\ ai \in Nat /\ an \in Nat /\ rw \in Nat
      BY <1>2, <2>2, <2>4, <2>7, ConstantTypes, ProductNat
    <3>2. rw <= ai + ah - an
      <4>1. (in + m.held - step.held) * AccScale = ai + ah - an
        BY <1>2, <2>2, ConstantTypes
      <4> QED BY <2>2, <4>1
    <3>3. AccScale * pool = sc + ai
      <4>1. pool = m.seen + in
        BY <1>2 DEF in
      <4> QED BY <1>2, <4>1, ConstantTypes
    <3>4. te + ah <= sc
      BY <2>7
    <3>5. tf = te + rw
      <4>1. r * m.weight = rw
        BY <1>2, <2>4
      <4> QED BY <2>6, <4>1
    <3>6. tf \in Nat
      BY <3>1, <3>5
    <3> HIDE DEF te, tf, ah, sc, ai, an, rw, r
    <3>7. tf + an <= sc + ai
      BY <3>1, <3>2, <3>4, <3>5, <3>6
    <3> QED BY <3>3, <3>7 DEF tf, an
  <2>9. Sound(p, n)
    <3>1. /\ p \in [Accounts -> Seq(Tranche)] /\ IsFiniteSet(OpenOf(p))
          /\ n.shares = Total(SharesOf(p), OpenOf(p)) /\ n.weight = Total(WeightsOf(p), OpenOf(p))
      BY <2>3 DEF Sound
    <3>2. \A k \in OpenOf(p) : p[k[1]][k[2]].shares # 0 /\ p[k[1]][k[2]].accStart <= n.acc
      <4> TAKE k \in OpenOf(p)
      <4>1. p[k[1]][k[2]].shares # 0 /\ p[k[1]][k[2]].accStart \in Nat
            /\ p[k[1]][k[2]].accStart <= m.acc
        BY SoundFields DEF Sound
      <4> QED BY <1>2, <2>2, <2>3, <4>1
    <3>3. Total(EarnedOf(p, n.acc), OpenOf(p)) + AccScale * n.held <= AccScale * n.seen
      BY <2>3, <2>8 DEF f, K
    <3> QED BY <2>3, <3>1, <3>2, <3>3 DEF Sound
  <2>10. m.acc <= n.acc
    BY <1>2, <2>2, <2>3
  <2> QED BY <2>3, <2>9, <2>10, Zenon DEF n
<1> QED BY <1>3, <1>4, <1>2

\* One open tranche is written anew.
Rewrite(p, a, id, t) == [p EXCEPT ![a][id] = t]

LEMMA TableUpdate ==
  ASSUME NEW p \in [Accounts -> Seq(Tranche)], NEW a \in Accounts, NEW id,
         <<a, id>> \in OpenOf(p), NEW t \in Tranche
  PROVE  LET q == Rewrite(p, a, id, t)
         IN  /\ q \in [Accounts -> Seq(Tranche)]
             /\ q[a][id] = t
             /\ \A k \in OpenOf(p) \ {<<a, id>>} : q[k[1]][k[2]] = p[k[1]][k[2]]
             /\ OpenOf(q) = IF t.closed THEN OpenOf(p) \ {<<a, id>>} ELSE OpenOf(p)
<1> DEFINE q == Rewrite(p, a, id, t)
           s == [p[a] EXCEPT ![id] = t]
<1>1. p[a] \in Seq(Tranche) /\ id \in DOMAIN p[a] /\ DOMAIN p[a] = 1 .. Len(p[a])
  <2>1. p[a] \in Seq(Tranche) /\ id \in DOMAIN p[a]
    BY OpenKeys
  <2> QED BY <2>1, LenProperties
<1>2. s \in Seq(Tranche) /\ DOMAIN s = DOMAIN p[a]
  <2>1. s \in Seq(Tranche) /\ Len(s) = Len(p[a])
    BY <1>1, ExceptSeq
  <2> QED BY <1>1, <2>1, LenProperties
<1>3. q = [p EXCEPT ![a] = s]
  BY DEF Rewrite
<1>4. s[id] = t /\ \A i \in DOMAIN p[a] : i # id => s[i] = p[a][i]
  BY <1>1
<1> HIDE DEF s, q
<1>5. q[a] = s /\ \A b \in Accounts : b # a => q[b] = p[b]
  BY <1>3
<1>6. q \in [Accounts -> Seq(Tranche)]
  BY <1>2, <1>3
<1>7. \A k \in OpenOf(p) \ {<<a, id>>} : q[k[1]][k[2]] = p[k[1]][k[2]]
  <2> TAKE k \in OpenOf(p) \ {<<a, id>>}
  <2>1. k[1] \in Accounts /\ k[2] \in DOMAIN p[k[1]] /\ k = <<k[1], k[2]>> /\ k # <<a, id>>
    BY OpenKeys
  <2> QED BY <1>4, <1>5, <2>1
<1>8. ASSUME NEW b \in Accounts, NEW i
      PROVE  <<b, i>> \in OpenOf(q) <=>
               <<b, i>> \in OpenOf(p) /\ (t.closed => <<b, i>> # <<a, id>>)
  <2>1. <<b, i>> \in OpenOf(q) <=> i \in DOMAIN q[b] /\ ~ q[b][i].closed
    BY <1>6, OpenKeys
  <2>2. <<b, i>> \in OpenOf(p) <=> i \in DOMAIN p[b] /\ ~ p[b][i].closed
    BY OpenKeys
  <2>3. CASE b # a
    BY <1>5, <2>1, <2>2, <2>3
  <2>4. CASE b = a /\ i # id
    BY <1>2, <1>4, <1>5, <2>1, <2>2, <2>4
  <2>5. CASE b = a /\ i = id
    <3>1. <<b, i>> \in OpenOf(q) <=> ~ t.closed
      BY <1>1, <1>2, <1>4, <1>5, <2>1, <2>5
    <3>2. <<b, i>> \in OpenOf(p)
      BY <2>5
    <3> QED BY <2>5, <3>1, <3>2
  <2> QED BY <2>3, <2>4, <2>5
<1>9. /\ \A k \in OpenOf(q) : k[1] \in Accounts /\ k = <<k[1], k[2]>>
      /\ \A k \in OpenOf(p) : k[1] \in Accounts /\ k = <<k[1], k[2]>>
  BY <1>6, OpenKeys
<1>10. OpenOf(q) = IF t.closed THEN OpenOf(p) \ {<<a, id>>} ELSE OpenOf(p)
  <2>1. ASSUME NEW k, k \in OpenOf(p) \/ k \in OpenOf(q)
        PROVE  k \in OpenOf(q) <=> k \in OpenOf(p) /\ (t.closed => k # <<a, id>>)
    <3> DEFINE b == k[1]
               i == k[2]
    <3>1. b \in Accounts /\ k = <<b, i>>
      BY <1>9, <2>1
    <3> HIDE DEF b, i
    <3> QED BY <1>8, <3>1
  <2> QED BY <2>1
<1> QED BY <1>4, <1>5, <1>6, <1>7, <1>10 DEF q

\* A tranche that is paid what it earned and registered anew from the present
\* reading leaves everything sound (settleTranche).
LEMMA ReplaceSound ==
  ASSUME NEW p, NEW m, Sound(p, m), NEW a \in Accounts, NEW id, <<a, id>> \in OpenOf(p),
         NEW t \in Tranche, ~ t.closed, t.shares = p[a][id].shares, t.accStart = m.acc,
         NEW owed \in Nat, owed <= m.seen, AccScale * owed <= EarnedOf(p, m.acc)[<<a, id>>],
         NEW n \in Amm, n.shares = m.shares, n.weight = m.weight - p[a][id].weight + t.weight,
         n.acc = m.acc, n.held = m.held, n.seen = m.seen - owed
  PROVE  Sound(Rewrite(p, a, id, t), n)
<1> DEFINE q == Rewrite(p, a, id, t)
           y == <<a, id>>
           K == OpenOf(p)
           v == WeightsOf(p)
           w == WeightsOf(q)
           e == EarnedOf(p, m.acc)
           f == EarnedOf(q, n.acc)
<1>1. p \in [Accounts -> Seq(Tranche)] /\ IsFiniteSet(K) /\ m \in Amm
  BY DEF Sound
<1>2. /\ m.shares \in Nat /\ m.weight \in Nat /\ m.acc \in Nat /\ m.held \in Nat
      /\ m.seen \in Nat
  BY <1>1 DEF Amm
<1>3. /\ q \in [Accounts -> Seq(Tranche)] /\ OpenOf(q) = K
      /\ q[a][id] = t
      /\ \A k \in K \ {y} : q[k[1]][k[2]] = p[k[1]][k[2]]
  BY <1>1, TableUpdate, SMTT(60)
<1>4. t.shares \in Nat /\ t.weight \in Nat
  BY DEF Tranche
<1> HIDE DEF q, K
<1>5. y \in K /\ y[1] = a /\ y[2] = id
  BY DEF K
<1> HIDE DEF y
<1>6. \A k \in K : SharesOf(q)[k] = SharesOf(p)[k]
  BY <1>3, <1>5 DEF SharesOf, K
<1>7. (\A k \in K \ {y} : w[k] = v[k]) /\ w[y] = t.weight /\ v[y] = p[a][id].weight
  BY <1>3, <1>5 DEF WeightsOf, K
<1>8. /\ \A k \in K \ {y} : f[k] = e[k]
      /\ f[y] = 0
  <2>1. \A k \in K \ {y} : f[k] = e[k]
    BY <1>3 DEF EarnedOf, K
  <2>2. f[y] = t.weight * (m.acc - m.acc)
    BY <1>3, <1>5 DEF EarnedOf, K
  <2>3. t.weight * (m.acc - m.acc) = 0
    BY <1>2, <1>4
  <2> QED BY <2>1, <2>2, <2>3
<1>9. Total(SharesOf(q), K) = n.shares
  <2>1. Total(SharesOf(q), K) = Total(SharesOf(p), K)
    BY <1>6, TotalSame
  <2> QED BY <2>1 DEF Sound, K
<1>10. Total(w, K) = n.weight
  <2>1. (\A k \in K : v[k] \in Nat) /\ Total(v, K) = m.weight
    BY SoundFields DEF Sound, K
  <2> HIDE DEF v, w
  <2>2. Total(w, K) = Total(v, K) - v[y] + w[y]
    <3>1. w[y] \in Nat
      BY <1>4, <1>7
    <3> QED BY <1>1, <1>5, <1>7, <2>1, <3>1, TotalUpdate
  <2> QED BY <1>7, <2>1, <2>2
<1>11. Total(f, K) + AccScale * n.held <= AccScale * n.seen
  <2>1. (\A k \in K : e[k] \in Nat) /\ Total(e, K) \in Nat
    BY SoundFields DEF K
  <2>2. Total(e, K) + AccScale * m.held <= AccScale * m.seen
    BY DEF Sound, K
  <2>3. AccScale * owed <= e[y]
    BY DEF y
  <2> HIDE DEF e, f
  <2>4. Total(f, K) = Total(e, K) - e[y] + f[y]
    <3>1. (\A k \in K : e[k] \in Nat) /\ (\A k \in K \ {y} : f[k] = e[k]) /\ f[y] \in Nat
      BY <1>8, <2>1
    <3> QED BY <1>1, <1>5, <3>1, TotalUpdate, SMTT(60)
  <2> DEFINE te == Total(e, K)
             tf == Total(f, K)
             ey == e[y]
             mh == AccScale * m.held
             ms == AccScale * m.seen
             ow == AccScale * owed
  <2>5. te \in Nat /\ ey \in Nat /\ mh \in Nat /\ ms \in Nat /\ ow \in Nat
    BY <1>2, <1>5, <2>1, ConstantTypes, ProductNat
  <2>6. AccScale * n.seen = ms - ow
    BY <1>2, ConstantTypes
  <2>7. te + mh <= ms /\ ow <= ey /\ tf = te - ey
    BY <1>8, <2>2, <2>3, <2>4, <2>5
  <2>8. tf \in Int
    BY <2>5, <2>7
  <2> HIDE DEF te, tf, ey, mh, ms, ow
  <2>9. tf + mh <= ms - ow
    BY <2>5, <2>7, <2>8
  <2> QED BY <2>6, <2>9 DEF tf, mh
<1>12. \A k \in K : q[k[1]][k[2]].shares # 0 /\ q[k[1]][k[2]].accStart <= n.acc
  <2>1. \A k \in K : p[k[1]][k[2]].shares # 0 /\ p[k[1]][k[2]].accStart <= m.acc
    BY DEF Sound, K
  <2>2. p[a][id].shares # 0
    BY <1>5, <2>1
  <2>3. \A k \in K \ {y} : q[k[1]][k[2]].shares # 0 /\ q[k[1]][k[2]].accStart <= n.acc
    BY <1>3, <2>1
  <2>4. q[y[1]][y[2]].shares # 0 /\ q[y[1]][y[2]].accStart <= n.acc
    BY <1>2, <1>3, <1>5, <2>2
  <2> QED BY <2>3, <2>4
<1>13. Sound(q, n)
  BY <1>1, <1>3, <1>9, <1>10, <1>11, <1>12 DEF Sound
<1> QED BY <1>13 DEF q

\* A closed tranche leaves the table of the open ones, and nothing else of the
\* table changes (closeTranche).
LEMMA TableCloses ==
  ASSUME NEW p \in [Accounts -> Seq(Tranche)], NEW a \in Accounts, NEW id,
         <<a, id>> \in OpenOf(p), NEW t \in Tranche, t.closed
  PROVE  /\ Rewrite(p, a, id, t) \in [Accounts -> Seq(Tranche)]
         /\ OpenOf(Rewrite(p, a, id, t)) = OpenOf(p) \ {<<a, id>>}
         /\ \A k \in OpenOf(p) \ {<<a, id>>} : Rewrite(p, a, id, t)[k[1]][k[2]] = p[k[1]][k[2]]
<1> DEFINE q == Rewrite(p, a, id, t)
<1>1. /\ q \in [Accounts -> Seq(Tranche)]
      /\ OpenOf(q) = IF t.closed THEN OpenOf(p) \ {<<a, id>>} ELSE OpenOf(p)
      /\ \A k \in OpenOf(p) \ {<<a, id>>} : q[k[1]][k[2]] = p[k[1]][k[2]]
  BY TableUpdate, SMTT(60)
<1> HIDE DEF q
<1>2. OpenOf(q) = OpenOf(p) \ {<<a, id>>}
  BY <1>1
<1> QED BY <1>1, <1>2 DEF q

\* A tranche that is paid what it earned and closed leaves everything sound
\* (closeTranche).
LEMMA CloseSound ==
  ASSUME NEW p, NEW m, Sound(p, m), NEW a \in Accounts, NEW id, <<a, id>> \in OpenOf(p),
         NEW t \in Tranche, t.closed,
         NEW owed \in Nat, owed <= m.seen, AccScale * owed <= EarnedOf(p, m.acc)[<<a, id>>],
         NEW n \in Amm, n.shares = m.shares - p[a][id].shares,
         n.weight = m.weight - p[a][id].weight,
         n.acc = m.acc, n.held = m.held, n.seen = m.seen - owed
  PROVE  Sound(Rewrite(p, a, id, t), n)
<1> DEFINE q == Rewrite(p, a, id, t)
           y == <<a, id>>
           K == OpenOf(p)
           R == K \ {y}
           e == EarnedOf(p, m.acc)
           f == EarnedOf(q, n.acc)
<1>1. p \in [Accounts -> Seq(Tranche)] /\ IsFiniteSet(K) /\ m \in Amm
  BY DEF Sound
<1>2. m.held \in Nat /\ m.seen \in Nat /\ m.acc \in Nat
  BY <1>1 DEF Amm
<1>3. /\ q \in [Accounts -> Seq(Tranche)] /\ OpenOf(q) = R
      /\ \A k \in R : q[k[1]][k[2]] = p[k[1]][k[2]]
  <2>1. /\ Rewrite(p, a, id, t) \in [Accounts -> Seq(Tranche)]
        /\ OpenOf(Rewrite(p, a, id, t)) = OpenOf(p) \ {<<a, id>>}
        /\ \A k \in OpenOf(p) \ {<<a, id>>} : Rewrite(p, a, id, t)[k[1]][k[2]] = p[k[1]][k[2]]
    <3> HIDE DEF q, y, K, R, e, f
    <3>1. p \in [Accounts -> Seq(Tranche)]
      BY <1>1
    <3> QED BY ONLY <3>1, <<a, id>> \in OpenOf(p), t.closed, t \in Tranche, a \in Accounts, TableCloses, SMTT(60)
  <2> QED BY <2>1, Zenon
<1>4. IsFiniteSet(R)
  BY <1>1, FS_RemoveElement
<1> HIDE DEF q, K
<1>5. y \in K /\ y[1] = a /\ y[2] = id /\ IsFiniteSet(K) /\ R = K \ {y}
  BY <1>1 DEF K
<1> HIDE DEF y, R
<1>6. Total(SharesOf(q), R) = n.shares
  <2>1. \A k \in R : SharesOf(q)[k] = SharesOf(p)[k]
    BY <1>3 DEF SharesOf, K, R
  <2>2. (\A k \in K : SharesOf(p)[k] \in Nat) /\ SharesOf(p)[y] = p[a][id].shares
    BY <1>5, SoundFields DEF K
  <2>3. Total(SharesOf(q), R) = Total(SharesOf(p), K) - SharesOf(p)[y]
    BY <1>5, <2>1, <2>2, TotalLoses
  <2>4. Total(SharesOf(p), K) = m.shares
    BY DEF Sound, K
  <2> QED BY <2>2, <2>3, <2>4
<1>7. Total(WeightsOf(q), R) = n.weight
  <2>1. \A k \in R : WeightsOf(q)[k] = WeightsOf(p)[k]
    BY <1>3 DEF WeightsOf, K, R
  <2>2. (\A k \in K : WeightsOf(p)[k] \in Nat) /\ WeightsOf(p)[y] = p[a][id].weight
    BY <1>5, SoundFields DEF K
  <2>3. Total(WeightsOf(q), R) = Total(WeightsOf(p), K) - WeightsOf(p)[y]
    BY <1>5, <2>1, <2>2, TotalLoses
  <2>4. Total(WeightsOf(p), K) = m.weight
    BY DEF Sound, K
  <2> QED BY <2>2, <2>3, <2>4
<1>8. Total(f, R) + AccScale * n.held <= AccScale * n.seen
  <2>1. (\A k \in K : e[k] \in Nat) /\ Total(e, K) \in Nat
    BY SoundFields DEF K
  <2>2. Total(e, K) + AccScale * m.held <= AccScale * m.seen
    BY DEF Sound, K
  <2>3. AccScale * owed <= e[y]
    BY DEF y
  <2>4. \A k \in R : f[k] = e[k]
    BY <1>3 DEF EarnedOf, K, R
  <2> HIDE DEF e, f
  <2>5. Total(f, R) = Total(e, K) - e[y]
    BY <1>5, <2>1, <2>4, TotalLoses
  <2> DEFINE te == Total(e, K)
             tf == Total(f, R)
             ey == e[y]
             mh == AccScale * m.held
             ms == AccScale * m.seen
             ow == AccScale * owed
  <2>6. te \in Nat /\ ey \in Nat /\ mh \in Nat /\ ms \in Nat /\ ow \in Nat
    BY <1>2, <1>5, <2>1, ConstantTypes, ProductNat
  <2>7. AccScale * n.seen = ms - ow
    BY <1>2, ConstantTypes
  <2>8. te + mh <= ms /\ ow <= ey /\ tf = te - ey
    BY <2>2, <2>3, <2>5
  <2>9. tf \in Int
    BY <2>6, <2>8
  <2> HIDE DEF te, tf, ey, mh, ms, ow
  <2>10. tf + mh <= ms - ow
    BY <2>6, <2>8, <2>9
  <2> QED BY <2>7, <2>10 DEF tf, mh
<1>9. \A k \in R : q[k[1]][k[2]].shares # 0 /\ q[k[1]][k[2]].accStart <= n.acc
  <2>1. \A k \in K : p[k[1]][k[2]].shares # 0 /\ p[k[1]][k[2]].accStart <= m.acc
    BY DEF Sound, K
  <2> QED BY <1>3, <2>1 DEF R
<1>10. Sound(q, n)
  BY <1>3, <1>4, <1>6, <1>7, <1>8, <1>9 DEF Sound
<1> QED BY <1>10 DEF q

\* One more tranche of an account.
Enlarge(p, a, t) == [p EXCEPT ![a] = Append(@, t)]

LEMMA TableAppend ==
  ASSUME NEW p \in [Accounts -> Seq(Tranche)], NEW a \in Accounts,
         NEW t \in Tranche, ~ t.closed
  PROVE  LET q == Enlarge(p, a, t)
             y == <<a, Len(p[a]) + 1>>
         IN  /\ q \in [Accounts -> Seq(Tranche)]
             /\ y \notin OpenOf(p)
             /\ q[a][Len(p[a]) + 1] = t
             /\ \A k \in OpenOf(p) : q[k[1]][k[2]] = p[k[1]][k[2]]
             /\ OpenOf(q) = OpenOf(p) \union {y}
<1> DEFINE q == Enlarge(p, a, t)
           l == Len(p[a])
           s == Append(p[a], t)
           y == <<a, l + 1>>
<1>1. l \in Nat /\ DOMAIN p[a] = 1 .. l
  BY LenProperties
<1>2. /\ s \in Seq(Tranche) /\ DOMAIN s = 1 .. l + 1 /\ s[l + 1] = t
      /\ \A i \in 1 .. l : s[i] = p[a][i]
  <2>1. /\ s \in Seq(Tranche) /\ Len(s) = l + 1 /\ s[l + 1] = t
        /\ \A i \in 1 .. l : s[i] = p[a][i]
    BY AppendProperties
  <2> QED BY <2>1, LenProperties
<1>3. q = [p EXCEPT ![a] = s]
  BY DEF Enlarge
<1> HIDE DEF s, q, l
<1>4. q[a] = s /\ (\A b \in Accounts : b # a => q[b] = p[b]) /\ q \in [Accounts -> Seq(Tranche)]
  BY <1>2, <1>3
<1>5. ASSUME NEW b \in Accounts, NEW i
      PROVE  <<b, i>> \in OpenOf(q) <=> <<b, i>> \in OpenOf(p) \/ <<b, i>> = y
  <2>1. <<b, i>> \in OpenOf(q) <=> i \in DOMAIN q[b] /\ ~ q[b][i].closed
    BY <1>4, OpenKeys
  <2>2. <<b, i>> \in OpenOf(p) <=> i \in DOMAIN p[b] /\ ~ p[b][i].closed
    BY OpenKeys
  <2>3. CASE b # a
    BY <1>4, <2>1, <2>2, <2>3
  <2>4. CASE b = a /\ i # l + 1
    <3>1. i \in DOMAIN s <=> i \in DOMAIN p[a]
      BY <1>1, <1>2, <2>4
    <3>2. i \in DOMAIN p[a] => s[i] = p[a][i]
      BY <1>1, <1>2
    <3> QED BY <1>4, <2>1, <2>2, <2>4, <3>1, <3>2
  <2>5. CASE b = a /\ i = l + 1
    <3>1. i \in DOMAIN s /\ s[i] = t
      BY <1>1, <1>2, <2>5
    <3> QED BY <1>4, <2>1, <2>5, <3>1
  <2> QED BY <2>3, <2>4, <2>5
<1>6. /\ \A k \in OpenOf(q) : k[1] \in Accounts /\ k = <<k[1], k[2]>>
      /\ \A k \in OpenOf(p) : k[1] \in Accounts /\ k[2] \in DOMAIN p[k[1]] /\ k = <<k[1], k[2]>>
  BY <1>4, OpenKeys
<1>7. OpenOf(q) = OpenOf(p) \union {y}
  <2>1. ASSUME NEW k, k \in OpenOf(p) \/ k \in OpenOf(q)
        PROVE  k \in OpenOf(q) <=> k \in OpenOf(p) \/ k = y
    <3> DEFINE b == k[1]
               i == k[2]
    <3>1. b \in Accounts /\ k = <<b, i>>
      BY <1>6, <2>1
    <3> HIDE DEF b, i, y
    <3> QED BY <1>5, <3>1
  <2>2. y \in OpenOf(q)
    BY <1>5
  <2> HIDE DEF y
  <2> QED BY <2>1, <2>2
<1>8. y \notin OpenOf(p)
  <2>1. ~ (l + 1 \in DOMAIN p[a])
    BY <1>1
  <2> QED BY <2>1, OpenKeys
<1>9. \A k \in OpenOf(p) : q[k[1]][k[2]] = p[k[1]][k[2]]
  <2> TAKE k \in OpenOf(p)
  <2>1. CASE k[1] = a
    BY <1>1, <1>2, <1>4, <1>6, <2>1
  <2>2. CASE k[1] # a
    BY <1>4, <1>6, <2>2
  <2> QED BY <2>1, <2>2
<1>10. q[a][l + 1] = t
  BY <1>2, <1>4
<1> QED BY <1>4, <1>7, <1>8, <1>9, <1>10 DEF q, l

\* A tranche that joins at the present reading has earned nothing yet and
\* leaves everything sound (AddLiquidity).
LEMMA AddSound ==
  ASSUME NEW p, NEW m, Sound(p, m), NEW a \in Accounts,
         NEW t \in Tranche, ~ t.closed, t.shares # 0, t.accStart = m.acc,
         NEW n \in Amm, n.shares = m.shares + t.shares, n.weight = m.weight + t.weight,
         n.acc = m.acc, n.held = m.held, n.seen = m.seen
  PROVE  Sound(Enlarge(p, a, t), n)
<1> DEFINE q == Enlarge(p, a, t)
           l == Len(p[a]) + 1
           y == <<a, l>>
           K == OpenOf(p)
           J == K \union {y}
           e == EarnedOf(p, m.acc)
           f == EarnedOf(q, n.acc)
<1>1. p \in [Accounts -> Seq(Tranche)] /\ IsFiniteSet(K) /\ m \in Amm
  BY DEF Sound
<1>2. m.acc \in Nat /\ t.shares \in Nat /\ t.weight \in Nat
  BY <1>1 DEF Amm, Tranche
<1>3. /\ q \in [Accounts -> Seq(Tranche)] /\ y \notin K /\ OpenOf(q) = J /\ q[a][l] = t
      /\ \A k \in K : q[k[1]][k[2]] = p[k[1]][k[2]]
  BY <1>1, TableAppend
<1>4. IsFiniteSet(J)
  BY <1>1, FS_AddElement
<1> HIDE DEF q, K, l
<1>5. y[1] = a /\ y[2] = l /\ y \notin K /\ IsFiniteSet(K) /\ J = K \union {y}
  BY <1>1, <1>3
<1> HIDE DEF y, J
<1>6. Total(SharesOf(q), J) = n.shares
  <2>1. (\A k \in K : SharesOf(q)[k] = SharesOf(p)[k]) /\ SharesOf(q)[y] = t.shares
    BY <1>3, <1>5 DEF SharesOf, K
  <2>2. (\A k \in K : SharesOf(p)[k] \in Nat) /\ SharesOf(q)[y] \in Nat
    BY <1>2, <2>1, SoundFields DEF K
  <2>3. Total(SharesOf(q), J) = Total(SharesOf(p), K) + SharesOf(q)[y]
    BY <1>5, <2>1, <2>2, TotalGains
  <2>4. Total(SharesOf(p), K) = m.shares
    BY DEF Sound, K
  <2> QED BY <2>1, <2>3, <2>4
<1>7. Total(WeightsOf(q), J) = n.weight
  <2>1. (\A k \in K : WeightsOf(q)[k] = WeightsOf(p)[k]) /\ WeightsOf(q)[y] = t.weight
    BY <1>3, <1>5 DEF WeightsOf, K
  <2>2. (\A k \in K : WeightsOf(p)[k] \in Nat) /\ WeightsOf(q)[y] \in Nat
    BY <1>2, <2>1, SoundFields DEF K
  <2>3. Total(WeightsOf(q), J) = Total(WeightsOf(p), K) + WeightsOf(q)[y]
    BY <1>5, <2>1, <2>2, TotalGains
  <2>4. Total(WeightsOf(p), K) = m.weight
    BY DEF Sound, K
  <2> QED BY <2>1, <2>3, <2>4
<1>8. Total(f, J) + AccScale * n.held <= AccScale * n.seen
  <2>1. (\A k \in K : e[k] \in Nat) /\ Total(e, K) \in Nat
    BY SoundFields DEF K
  <2>2. Total(e, K) + AccScale * m.held <= AccScale * m.seen
    BY DEF Sound, K
  <2>3. (\A k \in K : f[k] = e[k]) /\ f[y] = t.weight * (m.acc - m.acc)
    BY <1>3, <1>5 DEF EarnedOf, K
  <2>4. t.weight * (m.acc - m.acc) = 0
    BY <1>2
  <2> HIDE DEF e, f
  <2>5. Total(f, J) = Total(e, K) + f[y]
    <3>1. f[y] \in Nat
      BY <2>3, <2>4
    <3> QED BY <1>5, <2>1, <2>3, <3>1, TotalGains
  <2>6. Total(f, J) = Total(e, K)
    BY <2>1, <2>3, <2>4, <2>5
  <2> QED BY <2>2, <2>6
<1>9. \A k \in J : q[k[1]][k[2]].shares # 0 /\ q[k[1]][k[2]].accStart <= n.acc
  <2>1. \A k \in K : p[k[1]][k[2]].shares # 0 /\ p[k[1]][k[2]].accStart <= m.acc
    BY DEF Sound, K
  <2>2. \A k \in K : q[k[1]][k[2]].shares # 0 /\ q[k[1]][k[2]].accStart <= n.acc
    BY <1>3, <2>1
  <2>3. q[y[1]][y[2]].shares # 0 /\ q[y[1]][y[2]].accStart <= n.acc
    BY <1>2, <1>3, <1>5
  <2> QED BY <1>5, <2>2, <2>3
<1>10. Sound(q, n)
  BY <1>3, <1>4, <1>6, <1>7, <1>8, <1>9 DEF Sound
<1> QED BY <1>10 DEF q

-----------------------------------------------------------------------------
(* What the actions are made of.                                           *)

\* No tranche has more than all of them together.
LEMMA OnePart ==
  ASSUME NEW p, NEW m, Sound(p, m), NEW a \in Accounts, NEW id, <<a, id>> \in OpenOf(p)
  PROVE  /\ p[a][id] \in Tranche /\ p[a][id].shares \in 1 .. m.shares
         /\ p[a][id].weight \in 0 .. m.weight
<1> DEFINE y == <<a, id>>
           t == p[y[1]][y[2]]
           K == OpenOf(p)
           v == SharesOf(p)
           w == WeightsOf(p)
<1>1. t = p[a][id] /\ y \in K /\ IsFiniteSet(K) /\ p \in [Accounts -> Seq(Tranche)]
  BY DEF Sound
<1>2. p[a][id] \in Tranche
  BY <1>1, OpenKeys
<1>3. /\ (\A k \in K : v[k] \in Nat) /\ (\A k \in K : w[k] \in Nat)
      /\ v[y] = t.shares /\ v[y] # 0 /\ w[y] = t.weight
  BY <1>1, SoundFields
<1>4. m.shares = Total(v, K) /\ m.weight = Total(w, K)
  BY DEF Sound
<1> HIDE DEF y, t, K, v, w
<1>5. Total(v, K) >= v[y] /\ Total(w, K) >= w[y]
  BY <1>1, <1>3, TotalRemove
<1>6. Total(v, K) \in Nat /\ Total(w, K) \in Nat
  BY <1>1, <1>3, TotalIsNat
<1> QED BY <1>1, <1>2, <1>3, <1>4, <1>5, <1>6

\* One account's balance changes.
Put(f, a, v) == [f EXCEPT ![a] = v]

LEMMA OneAccount ==
  ASSUME NEW f \in [Accounts -> Nat], NEW a \in Accounts, NEW v \in Nat
  PROVE  LET g == Put(f, a, v)
         IN  /\ g \in [Accounts -> Nat]
             /\ Total(f, Accounts) \in Nat /\ Total(g, Accounts) \in Nat
             /\ Total(g, Accounts) = Total(f, Accounts) - f[a] + v
<1> DEFINE g == Put(f, a, v)
<1>1. g \in [Accounts -> Nat] /\ g[a] = v /\ \A b \in Accounts \ {a} : g[b] = f[b]
  BY DEF Put
<1>2. (\A b \in Accounts : f[b] \in Nat) /\ (\A b \in Accounts : g[b] \in Nat)
  BY <1>1
<1> HIDE DEF g
<1>3. Total(g, Accounts) = Total(f, Accounts) - f[a] + g[a]
  BY <1>1, <1>2, ConstantTypes, TotalUpdate
<1>4. Total(f, Accounts) \in Nat /\ Total(g, Accounts) \in Nat
  BY <1>2, ConstantTypes, TotalIsNat
<1> QED BY <1>1, <1>3, <1>4 DEF g

\* The fields of the state, one by one.
LEMMA StateFields ==
  ASSUME PoolInv
  PROVE  /\ height \in Nat /\ acc_day \in Days /\ pool_liq \in Nat
         /\ amm \in Amm
         /\ amm.lc \in Nat /\ amm.hbd \in Nat /\ amm.shares \in Nat /\ amm.weight \in Nat
         /\ amm.acc \in Nat /\ amm.held \in Nat /\ amm.seen \in Nat /\ amm.seen <= pool_liq
         /\ lp \in [Accounts -> Seq(Tranche)]
         /\ bal \in [Accounts -> Nat] /\ hbd \in [Accounts -> Nat]
         /\ custody \in Nat /\ amm.hbd <= custody /\ swaps \in 0 .. MaxSwaps
<1>1. TypeOK /\ amm.seen <= pool_liq /\ amm.hbd <= custody
  BY DEF PoolInv, CustodyCoversReserve, TypeOK
<1> QED BY <1>1, ConstantTypes DEF TypeOK, Amm

\* The pool as a walk leaves it, after the accumulator has looked at it
\* (accrue, syncPoolAccumulator).
LEMMA WalkSound ==
  ASSUME PoolInv, NEW day \in Walks
  PROVE  LET pool == pool_liq + LiquidityEmission(acc_day, day)
             m    == SyncPoolAccumulator(amm, pool)
         IN  /\ pool \in Nat /\ pool_liq <= pool
             /\ Sound(lp, m) /\ m \in Amm
             /\ m.lc = amm.lc /\ m.hbd = amm.hbd /\ m.shares = amm.shares
             /\ m.weight = amm.weight /\ m.seen = pool
             /\ LiquidityEmission(0, day) = LiquidityEmission(0, acc_day) + pool - pool_liq
             /\ LiquidityEmission(0, acc_day) \in Nat
<1> DEFINE from == acc_day
           more == LiquidityEmission(from, day)
           pool == pool_liq + more
<1>1. /\ more \in Nat /\ LiquidityEmission(0, from) \in Nat
      /\ LiquidityEmission(0, day) = LiquidityEmission(0, from) + more
  <2>1. from \in Days /\ day \in Days /\ from <= day
    BY StateFields, WalkForward
  <2> HIDE DEF from
  <2> QED BY <2>1, EmissionAdds
<1> HIDE DEF more
<1>2. pool \in Nat /\ pool_liq \in Nat /\ amm.seen <= pool_liq /\ amm.seen \in Nat
  BY <1>1, StateFields, SMTT(60)
<1>3. Sound(lp, amm) /\ amm.seen <= pool
  BY <1>1, <1>2 DEF PoolInv
<1> DEFINE m == SyncPoolAccumulator(amm, pool)
<1>4. LiquidityEmission(0, day) = LiquidityEmission(0, acc_day) + pool - pool_liq
      /\ pool_liq <= pool
  BY <1>1, <1>2
<1> HIDE DEF pool
<1>5. /\ Sound(lp, m) /\ m.lc = amm.lc /\ m.hbd = amm.hbd /\ m.shares = amm.shares
      /\ m.weight = amm.weight /\ m.seen = pool
  BY <1>2, <1>3, SyncSound
<1>6. m \in Amm
  BY <1>5 DEF Sound
<1> QED BY <1>1, <1>2, <1>4, <1>5, <1>6 DEF pool, more

\* What settling an open tranche comes to (settleTranche).
LEMMA SettleSound ==
  ASSUME PoolInv, NEW day \in Walks, NEW a \in Accounts, NEW id \in DOMAIN lp[a],
         ~ lp[a][id].closed
  PROVE  LET pool == pool_liq + LiquidityEmission(acc_day, day)
             m    == SyncPoolAccumulator(amm, pool)
             t    == lp[a][id]
             s    == SettleTranche(a, id, day)
         IN  /\ <<a, id>> \in OpenOf(lp)
             /\ t.shares \in 1 .. m.shares /\ t.weight \in 0 .. m.weight
             /\ s.owed \in Nat /\ s.owed <= pool
             /\ AccScale * s.owed <= EarnedOf(lp, m.acc)[<<a, id>>]
             /\ s.pool = pool - s.owed
             /\ s.t \in Tranche /\ ~ s.t.closed /\ s.t.shares = t.shares
             /\ s.t.start = t.start /\ s.t.accStart = m.acc
             /\ s.amm \in Amm /\ s.amm.lc = m.lc /\ s.amm.hbd = m.hbd
             /\ s.amm.shares = m.shares /\ s.amm.acc = m.acc /\ s.amm.held = m.held
             /\ s.amm.weight = m.weight - t.weight + s.t.weight
             /\ s.amm.seen = m.seen - s.owed
<1> DEFINE pool == pool_liq + LiquidityEmission(acc_day, day)
           m    == SyncPoolAccumulator(amm, pool)
           t    == lp[a][id]
           w    == TrancheWeight(t.shares, AgeDays(t.start))
           ent  == Entitlement(t.weight, t.accStart, m.acc)
           owed == AtMost(ent, pool)
           s    == SettleTranche(a, id, day)
<1>1. pool \in Nat /\ Sound(lp, m) /\ m \in Amm /\ m.seen = pool
  BY WalkSound
<1>2. <<a, id>> \in OpenOf(lp)
  BY StateFields, OpenKeys
<1>3. s = [amm  |-> [m EXCEPT !.weight = @ - t.weight + w, !.seen = pool - owed],
           pool |-> pool - owed,
           owed |-> owed,
           t    |-> [t EXCEPT !.weight = w, !.accStart = m.acc]]
  BY DEF SettleTranche
<1> HIDE DEF m, pool, s
<1>4. t \in Tranche /\ t.shares \in 1 .. m.shares /\ t.weight \in 0 .. m.weight
  BY <1>1, <1>2, OnePart
<1>5. /\ m.weight \in Nat /\ m.acc \in Nat /\ m.held \in Nat /\ m.shares \in Nat
      /\ t.shares \in Nat /\ t.weight \in Nat /\ t.start \in Nat
  BY <1>1, <1>4 DEF Amm, Tranche
<1>6. w \in Nat
  <2>1. t.start <= height /\ height \in Nat
    BY <1>2, StateFields DEF PoolInv, Open, OpenOf, T
  <2>2. height - t.start \in Nat
    BY <1>5, <2>1
  <2>3. AgeDays(t.start) \in Nat
    BY <2>2, ConstantTypes DEF AgeDays
  <2> QED BY <1>5, <2>3, WeightNat
<1>7. owed = ent /\ owed \in Nat /\ owed <= pool
      /\ AccScale * owed <= EarnedOf(lp, m.acc)[<<a, id>>]
  <2> DEFINE k == <<a, id>>
  <2>1. k \in OpenOf(lp) /\ t = lp[k[1]][k[2]]
    BY <1>2
  <2> HIDE DEF k, t
  <2>2. ent \in Nat /\ ent <= m.seen /\ AccScale * ent <= EarnedOf(lp, m.acc)[k]
        /\ AtMost(ent, m.seen) = ent
    BY <1>1, <2>1, OwedIsThere
  <2> QED BY <1>1, <2>2 DEF k
<1> HIDE DEF t, w, owed
<1>8. m.weight - t.weight + w \in Nat /\ pool - owed \in Nat
  BY <1>1, <1>4, <1>5, <1>6, <1>7
<1>9. /\ s.amm \in Amm /\ s.amm.lc = m.lc /\ s.amm.hbd = m.hbd
      /\ s.amm.shares = m.shares /\ s.amm.acc = m.acc /\ s.amm.held = m.held
      /\ s.amm.weight = m.weight - t.weight + w
      /\ s.amm.seen = pool - owed
  <2> DEFINE n == [m EXCEPT !.weight = @ - t.weight + w, !.seen = pool - owed]
  <2>1. /\ n \in Amm /\ n.lc = m.lc /\ n.hbd = m.hbd
        /\ n.shares = m.shares /\ n.acc = m.acc /\ n.held = m.held
        /\ n.weight = m.weight - t.weight + w
        /\ n.seen = pool - owed
    BY <1>1, <1>8 DEF Amm
  <2>2. s.amm = n
    BY <1>3
  <2> HIDE DEF n
  <2> QED BY <2>1, <2>2
<1>10. /\ s.t \in Tranche /\ s.t.shares = t.shares /\ s.t.closed = t.closed
       /\ s.t.start = t.start /\ s.t.accStart = m.acc /\ s.t.weight = w
  <2> DEFINE n == [t EXCEPT !.weight = w, !.accStart = m.acc]
  <2>1. /\ n \in Tranche /\ n.shares = t.shares /\ n.closed = t.closed
        /\ n.start = t.start /\ n.accStart = m.acc /\ n.weight = w
    BY <1>4, <1>5, <1>6 DEF Tranche
  <2>2. s.t = n
    BY <1>3
  <2> HIDE DEF n
  <2> QED BY <2>1, <2>2
<1>11. s.pool = pool - owed /\ s.owed = owed
  BY <1>3
<1>12. t = lp[a][id]
  BY DEF t
<1> QED BY <1>1, <1>2, <1>4, <1>7, <1>9, <1>10, <1>11, <1>12 DEF s, m, pool

\* HBD that moves between one account and custody (DrawHBD, PayHBD).
LEMMA HbdMoves ==
  ASSUME PoolInv, NEW a \in Accounts, NEW v \in Nat
  PROVE  /\ hbd' = [hbd EXCEPT ![a] = v]
         /\ custody' = custody + hbd[a] - v
         /\ amm'.hbd <= custody'
         => hbd' \in [Accounts -> Nat] /\ CustodyCoversReserve'
<1> DEFINE g == Put(hbd, a, v)
           c == Cardinality(Accounts) * Funds.hbd
           x == hbd[a]
           before == Total(hbd, Accounts)
           after  == Total(g, Accounts)
<1>1. hbd \in [Accounts -> Nat] /\ custody \in Nat /\ x \in Nat
  BY StateFields
<1>2. g \in [Accounts -> Nat] /\ before \in Nat /\ after \in Nat /\ after = before - x + v
  BY <1>1, OneAccount
<1>3. custody + before = c
  BY DEF PoolInv, CustodyCoversReserve
<1>4. custody + x - v + after = c
  <2> HIDE DEF g, c, x, before, after
  <2> QED BY <1>1, <1>2, <1>3
<1> QED BY <1>2, <1>4 DEF CustodyCoversReserve, Put

\* LASSECASH that moves between one account, the reserve and the reward pool.
LEMMA LcMoves ==
  ASSUME PoolInv, NEW a \in Accounts, NEW v \in Nat
  PROVE  /\ bal' = [bal EXCEPT ![a] = v]
         /\ amm'.lc \in Nat /\ pool_liq' \in Nat /\ acc_day' \in Days
         /\ LiquidityEmission(0, acc_day') \in Nat
         /\ v + amm'.lc + pool_liq' + LiquidityEmission(0, acc_day)
              = bal[a] + amm.lc + pool_liq + LiquidityEmission(0, acc_day')
         => bal' \in [Accounts -> Nat] /\ LasseCashConserved'
<1> DEFINE g  == Put(bal, a, v)
           c  == Cardinality(Accounts) * Funds.lc
           e0 == LiquidityEmission(0, acc_day)
           e1 == LiquidityEmission(0, acc_day')
           x  == bal[a]
           r0 == amm.lc
           r1 == amm'.lc
           before == Total(bal, Accounts)
           after  == Total(g, Accounts)
<1>1. bal \in [Accounts -> Nat] /\ x \in Nat /\ r0 \in Nat /\ pool_liq \in Nat
  BY StateFields
<1>2. g \in [Accounts -> Nat] /\ before \in Nat /\ after \in Nat /\ after = before - x + v
  BY <1>1, OneAccount
<1>3. before + r0 + pool_liq = c + e0
  BY DEF PoolInv, LasseCashConserved
<1>4. e0 \in Nat /\ c \in Nat
  <2>1. e0 \in Nat
    <3>1. acc_day \in Days /\ acc_day <= acc_day
      BY StateFields, ConstantTypes DEF Days
    <3> QED BY <3>1, EmissionAdds
  <2>2. Cardinality(Accounts) \in Nat
    BY ConstantTypes, FS_CardinalityType
  <2> QED BY <2>1, <2>2, ConstantTypes, ProductNat
<1>5. /\ r1 \in Nat /\ pool_liq' \in Nat /\ e1 \in Nat
      /\ v + r1 + pool_liq' + e0 = x + r0 + pool_liq + e1
      => after + r1 + pool_liq' = c + e1
  <2> DEFINE p0 == pool_liq
             p1 == pool_liq'
  <2>1. p0 \in Nat /\ before + r0 + p0 = c + e0
    BY <1>1, <1>3
  <2> SUFFICES ASSUME r1 \in Nat, p1 \in Nat, e1 \in Nat,
                      v + r1 + p1 + e0 = x + r0 + p0 + e1
               PROVE  after + r1 + p1 = c + e1
    OBVIOUS
  <2> HIDE DEF g, c, e0, e1, x, r0, r1, p0, p1, before, after
  <2> QED BY <1>1, <1>2, <1>4, <2>1
<1> QED BY <1>2, <1>5 DEF LasseCashConserved, Put

\* The same when no day is walked.
LEMMA LcMovesToday ==
  ASSUME PoolInv, NEW a \in Accounts, NEW v \in Nat
  PROVE  /\ bal' = [bal EXCEPT ![a] = v]
         /\ amm'.lc \in Nat /\ pool_liq' \in Nat /\ acc_day' = acc_day
         /\ v + amm'.lc + pool_liq' = bal[a] + amm.lc + pool_liq
         => bal' \in [Accounts -> Nat] /\ LasseCashConserved'
<1> SUFFICES ASSUME bal' = [bal EXCEPT ![a] = v],
                    amm'.lc \in Nat, pool_liq' \in Nat, acc_day' = acc_day,
                    v + amm'.lc + pool_liq' = bal[a] + amm.lc + pool_liq
             PROVE  bal' \in [Accounts -> Nat] /\ LasseCashConserved'
  OBVIOUS
<1>1. acc_day \in Days /\ LiquidityEmission(0, acc_day) \in Nat
  <2>1. acc_day \in Days /\ acc_day <= acc_day
    BY StateFields, ConstantTypes DEF Days
  <2> QED BY <2>1, EmissionAdds
<1>2. acc_day' \in Days /\ LiquidityEmission(0, acc_day') = LiquidityEmission(0, acc_day)
  BY <1>1
<1>3. v + amm'.lc + pool_liq' + LiquidityEmission(0, acc_day)
        = bal[a] + amm.lc + pool_liq + LiquidityEmission(0, acc_day')
  BY <1>2
<1> QED BY <1>1, <1>2, <1>3, LcMoves

\* One more swap or gift.
LEMMA SwapCounted ==
  ASSUME PoolInv
  PROVE  swaps < MaxSwaps /\ swaps' = swaps + 1 => swaps' \in 0 .. MaxSwaps
BY ConstantTypes DEF PoolInv, TypeOK

\* A tranche that is settled keeps its start, and time only moves forward.
LEMMA StartsKept ==
  ASSUME PoolInv, NEW a \in Accounts, NEW id, <<a, id>> \in OpenOf(lp), NEW t \in Tranche,
         t.start = lp[a][id].start
  PROVE  lp' = Rewrite(lp, a, id, t) /\ height' = height
           => \A k \in Open' : T(k)'.start <= height'
<1> DEFINE q == Rewrite(lp, a, id, t)
<1>1. /\ OpenOf(q) \subseteq OpenOf(lp)
      /\ q[a][id] = t
      /\ \A k \in OpenOf(lp) \ {<<a, id>>} : q[k[1]][k[2]] = lp[k[1]][k[2]]
  <2>1. /\ OpenOf(q) = IF t.closed THEN OpenOf(lp) \ {<<a, id>>} ELSE OpenOf(lp)
        /\ q[a][id] = t
        /\ \A k \in OpenOf(lp) \ {<<a, id>>} : q[k[1]][k[2]] = lp[k[1]][k[2]]
    <3>1. lp \in [Accounts -> Seq(Tranche)]
      BY StateFields
    <3> QED BY <3>1, TableUpdate, SMTT(60)
  <2> QED BY <2>1
<1>2. \A k \in OpenOf(lp) : lp[k[1]][k[2]].start <= height
  BY DEF PoolInv, Open, OpenOf, T
<1> HIDE DEF q
<1>3. ASSUME NEW k \in OpenOf(q) PROVE q[k[1]][k[2]].start <= height
  <2>1. CASE k = <<a, id>>
    BY <1>1, <1>2, <2>1
  <2>2. CASE k # <<a, id>>
    BY <1>1, <1>2, <2>2
  <2> QED BY <2>1, <2>2
<1>4. lp' = q => Open' = OpenOf(q) /\ \A k : T(k)' = q[k[1]][k[2]]
  BY DEF Open, OpenOf, T
<1> QED BY <1>3, <1>4 DEF q

-----------------------------------------------------------------------------
(* The actions.                                                            *)

LEMMA InitSound == Init => PoolInv
<1> SUFFICES ASSUME Init PROVE PoolInv
  OBVIOUS
<1>1. /\ height = GenesisHeight /\ acc_day = 0 /\ pool_liq = 0
      /\ amm = [lc |-> 0, hbd |-> 0, shares |-> 0, weight |-> 0, acc |-> 0, held |-> 0,
                seen |-> 0]
      /\ lp = [a \in Accounts |-> <<>>]
      /\ bal = [a \in Accounts |-> Funds.lc]
      /\ hbd = [a \in Accounts |-> Funds.hbd]
      /\ custody = 0 /\ swaps = 0
  BY DEF Init
<1>2. lp \in [Accounts -> Seq(Tranche)] /\ OpenOf(lp) = {} /\ Open = {}
  BY <1>1 DEF OpenOf, Open
<1>3. TypeOK
  <2>1. 0 \in Days
    BY ConstantTypes DEF Days
  <2> QED BY <1>1, <1>2, <2>1, ConstantTypes DEF TypeOK
<1>4. acc_day <= DayOf(height)
  BY <1>1, ConstantTypes DEF DayOf
<1>5. Sound(lp, amm)
  <2>1. amm \in Amm
    BY <1>1 DEF Amm
  <2>2. IsFiniteSet(OpenOf(lp))
    BY <1>2, FS_EmptySet
  <2>3. /\ Total(SharesOf(lp), OpenOf(lp)) = 0
        /\ Total(WeightsOf(lp), OpenOf(lp)) = 0
        /\ Total(EarnedOf(lp, amm.acc), OpenOf(lp)) = 0
    BY <1>2, TotalEmpty
  <2>4. AccScale * 0 = 0
    BY ConstantTypes
  <2> QED BY <1>1, <1>2, <2>1, <2>2, <2>3, <2>4 DEF Sound
<1>6. CustodyCoversReserve
  <2>1. Total(hbd, Accounts) = Cardinality(Accounts) * Funds.hbd
    BY <1>1, ConstantTypes, TotalConstant
  <2>2. Cardinality(Accounts) * Funds.hbd \in Nat
    BY ConstantTypes, FS_CardinalityType, ProductNat
  <2> QED BY <1>1, <2>1, <2>2 DEF CustodyCoversReserve
<1>7. LasseCashConserved
  <2>1. Total(bal, Accounts) = Cardinality(Accounts) * Funds.lc
    BY <1>1, ConstantTypes, TotalConstant
  <2>2. Cardinality(Accounts) * Funds.lc \in Nat
    BY ConstantTypes, FS_CardinalityType, ProductNat
  <2>3. LiquidityEmission(0, acc_day) = 0
    <3>1. 0 .. 0 - 1 = {}
      OBVIOUS
    <3> QED BY <1>1, <3>1, TotalEmpty DEF LiquidityEmission
  <2> QED BY <1>1, <2>1, <2>2, <2>3 DEF LasseCashConserved
<1> QED BY <1>1, <1>2, <1>3, <1>4, <1>5, <1>6, <1>7 DEF PoolInv

LEMMA TickSound == PoolInv /\ Tick => PoolInv'
<1> SUFFICES ASSUME PoolInv, Tick PROVE PoolInv'
  OBVIOUS
<1>1. PICK h \in Heights : h > height /\ height' = h
  BY DEF Tick
<1>2. UNCHANGED <<acc_day, pool_liq, amm, lp, bal, hbd, custody, swaps>>
  BY DEF Tick
<1>3. height \in Nat /\ h \in Nat /\ acc_day \in Nat /\ acc_day <= DayOf(height)
  BY StateFields, ConstantTypes DEF PoolInv, Days
<1>4. DayOf(height) \in Nat /\ DayOf(h) \in Nat /\ DayOf(height) <= DayOf(h)
  BY <1>1, <1>3, DayOfMono
<1>5. (acc_day <= DayOf(height))'
  <2>1. acc_day' = acc_day /\ (DayOf(height))' = DayOf(h)
    BY <1>1, <1>2 DEF DayOf
  <2> QED BY <1>3, <1>4, <2>1
<1>6. TypeOK'
  BY <1>1, <1>2 DEF PoolInv, TypeOK
<1>7. Open' = Open /\ \A k \in Open : T(k)' = T(k) /\ T(k).start <= height /\ T(k).start \in Nat
  <2>1. Open' = Open /\ \A k \in Open : T(k)' = T(k) /\ T(k).start <= height
    BY <1>2 DEF PoolInv, Open, T
  <2>2. \A k \in OpenOf(lp) : lp[k[1]][k[2]] \in Tranche
    BY StateFields, OpenKeys
  <2>3. \A k \in Open : T(k).start \in Nat
    BY <2>2 DEF Open, OpenOf, T, Tranche
  <2> QED BY <2>1, <2>3
<1>8. \A k \in Open' : T(k)'.start <= height'
  BY <1>1, <1>3, <1>7
<1>9. Sound(lp', amm') /\ CustodyCoversReserve' /\ LasseCashConserved' /\ amm'.seen <= pool_liq'
  BY <1>2 DEF PoolInv, CustodyCoversReserve, LasseCashConserved
<1> QED BY <1>5, <1>6, <1>8, <1>9 DEF PoolInv

LEMMA SettleStep ==
  ASSUME PoolInv, NEW day \in Walks, Settle(day)
  PROVE  PoolInv'
<1> DEFINE more == LiquidityEmission(acc_day, day)
           pool == pool_liq + more
<1>1. /\ acc_day' = day /\ pool_liq' = pool
      /\ height' = height /\ amm' = amm /\ lp' = lp /\ bal' = bal /\ hbd' = hbd
      /\ custody' = custody /\ swaps' = swaps
  BY DEF Settle
<1>2. day \in Days /\ day <= DayOf(height)
  BY WalkForward
<1>3. /\ pool \in Nat /\ pool_liq <= pool
      /\ LiquidityEmission(0, day) = LiquidityEmission(0, acc_day) + pool - pool_liq
      /\ LiquidityEmission(0, acc_day) \in Nat
  BY WalkSound
<1>4. (acc_day <= DayOf(height))'
  BY <1>1, <1>2 DEF DayOf
<1> HIDE DEF pool
<1>5. TypeOK'
  <2>1. TypeOK
    BY DEF PoolInv
  <2> QED BY <1>1, <1>2, <1>3, <2>1 DEF TypeOK
<1>6. amm'.seen <= pool_liq'
  BY <1>1, <1>3, StateFields
<1>7. (\A k \in Open' : T(k)'.start <= height') /\ Sound(lp', amm') /\ CustodyCoversReserve'
  BY <1>1 DEF PoolInv, Open, T, CustodyCoversReserve
<1>8. LasseCashConserved'
  <2> DEFINE c == Cardinality(Accounts) * Funds.lc
             e0 == LiquidityEmission(0, acc_day)
             e1 == LiquidityEmission(0, day)
             b  == Total(bal, Accounts)
             rl == amm.lc
  <2>1. b + rl + pool_liq = c + e0
    BY DEF PoolInv, LasseCashConserved
  <2>2. c \in Nat /\ b \in Nat /\ rl \in Nat /\ pool_liq \in Nat /\ e0 \in Nat
    <3>1. c \in Nat
      BY ConstantTypes, FS_CardinalityType, ProductNat
    <3>2. b \in Nat
      BY StateFields, ConstantTypes, TotalIsNat
    <3> QED BY <1>3, <3>1, <3>2, StateFields
  <2>3. e1 = e0 + pool - pool_liq
    BY <1>3
  <2> HIDE DEF c, e0, e1, b, rl
  <2>4. b + rl + pool = c + e1
    BY <1>3, <2>1, <2>2, <2>3
  <2> QED BY <1>1, <2>4 DEF LasseCashConserved, c, e1, b, rl
<1> QED BY <1>4, <1>5, <1>6, <1>7, <1>8 DEF PoolInv

LEMMA FundStep ==
  ASSUME PoolInv, NEW a \in Accounts, NEW n \in Gifts, FundLiquidity(a, n)
  PROVE  PoolInv'
<1> DEFINE v == bal[a] - n
<1>1. /\ swaps < MaxSwaps /\ swaps' = swaps + 1 /\ bal[a] >= n
      /\ bal' = [bal EXCEPT ![a] = v]
      /\ pool_liq' = pool_liq + n
      /\ height' = height /\ acc_day' = acc_day /\ amm' = amm /\ lp' = lp
      /\ hbd' = hbd /\ custody' = custody
  BY DEF FundLiquidity
<1>2. bal[a] \in Nat /\ n \in Nat /\ pool_liq \in Nat /\ amm.lc \in Nat /\ acc_day \in Days
  BY StateFields, ConstantTypes
<1>3. v \in Nat /\ v + amm.lc + (pool_liq + n) = bal[a] + amm.lc + pool_liq
  BY <1>1, <1>2
<1> HIDE DEF v
<1>4. pool_liq + n \in Nat
  BY <1>2
<1>5. bal' \in [Accounts -> Nat] /\ LasseCashConserved'
  BY <1>1, <1>2, <1>3, <1>4, LcMovesToday
<1>6. TypeOK'
  <2>1. TypeOK
    BY DEF PoolInv
  <2>2. swaps' \in 0 .. MaxSwaps
    BY <1>1, SwapCounted
  <2> QED BY <1>1, <1>4, <1>5, <2>1, <2>2 DEF TypeOK
<1>7. amm'.seen <= pool_liq'
  BY <1>1, <1>2, StateFields
<1>8. /\ (acc_day <= DayOf(height))' /\ (\A k \in Open' : T(k)'.start <= height')
      /\ Sound(lp', amm') /\ CustodyCoversReserve'
  BY <1>1 DEF PoolInv, Open, T, CustodyCoversReserve, DayOf
<1> QED BY <1>5, <1>6, <1>7, <1>8 DEF PoolInv

\* A sale and a purchase leave the totals and the rewards alone.
LEMMA SoundFrame ==
  ASSUME NEW p, NEW m, Sound(p, m), NEW n \in Amm, n.shares = m.shares, n.weight = m.weight,
         n.acc = m.acc, n.held = m.held, n.seen = m.seen
  PROVE  Sound(p, n)
BY DEF Sound

LEMMA SellStep ==
  ASSUME PoolInv, NEW a \in Accounts, NEW n \in LcAmounts, SwapLCForHBD(a, n)
  PROVE  PoolInv'
<1> DEFINE out == SwapOut(amm.lc, amm.hbd, n)
           v   == bal[a] - n
           w   == hbd[a] + Paid(out)
           rl  == amm.lc + n
           m   == [amm EXCEPT !.lc = rl, !.hbd = @ - out]
<1>1. /\ swaps < MaxSwaps /\ swaps' = swaps + 1 /\ bal[a] >= n
      /\ out \in 1 .. amm.hbd - 1 /\ Paid(out) \in 1 .. custody
      /\ bal' = [bal EXCEPT ![a] = v]
      /\ hbd' = [hbd EXCEPT ![a] = w]
      /\ custody' = custody - Paid(out)
      /\ amm' = m
      /\ height' = height /\ acc_day' = acc_day /\ lp' = lp /\ pool_liq' = pool_liq
  BY DEF SwapLCForHBD, MaySell, MaySwap
<1>2. /\ bal[a] \in Nat /\ hbd[a] \in Nat /\ n \in Nat /\ pool_liq \in Nat /\ amm \in Amm
      /\ amm.lc \in Nat /\ amm.hbd \in Nat /\ acc_day \in Days /\ custody \in Nat
      /\ amm.hbd <= custody
  BY StateFields, ConstantTypes
<1> HIDE DEF out
<1>3. out \in Nat /\ Paid(out) \in Nat /\ Paid(out) <= out
  BY <1>1, <1>2, Rounding
<1>4. m \in Amm /\ m.lc = rl /\ m.hbd = amm.hbd - out /\ m.shares = amm.shares
      /\ m.weight = amm.weight /\ m.acc = amm.acc /\ m.held = amm.held /\ m.seen = amm.seen
  <2>1. rl \in Nat /\ amm.hbd - out \in Nat
    BY <1>1, <1>2, <1>3
  <2> HIDE DEF rl
  <2> QED BY <1>2, <2>1 DEF Amm
<1>5. /\ v \in Nat /\ w \in Nat /\ rl \in Nat
      /\ v + rl + pool_liq = bal[a] + amm.lc + pool_liq
      /\ custody - Paid(out) = custody + hbd[a] - w
      /\ amm.hbd - out <= custody - Paid(out) /\ custody - Paid(out) \in Nat
  BY <1>1, <1>2, <1>3
<1> HIDE DEF v, w, rl, m
<1>6. amm'.lc = rl /\ amm'.hbd = amm.hbd - out
  BY <1>1, <1>4
<1>7. bal' \in [Accounts -> Nat] /\ LasseCashConserved'
  BY <1>1, <1>2, <1>5, <1>6, LcMovesToday
<1>8. hbd' \in [Accounts -> Nat] /\ CustodyCoversReserve'
  <2>1. custody' = custody + hbd[a] - w /\ amm'.hbd <= custody'
    BY <1>1, <1>5, <1>6
  <2> QED BY <1>1, <1>5, <2>1, HbdMoves
<1>9. TypeOK'
  <2>1. TypeOK
    BY DEF PoolInv
  <2>2. swaps' \in 0 .. MaxSwaps
    BY <1>1, SwapCounted
  <2>3. custody' \in Nat /\ amm' \in Amm
    BY <1>1, <1>4, <1>5
  <2> QED BY <1>1, <1>7, <1>8, <2>1, <2>2, <2>3 DEF TypeOK, Amm
<1>10. Sound(lp', amm')
  <2>1. Sound(lp, amm)
    BY DEF PoolInv
  <2>2. Sound(lp, m)
    BY <1>4, <2>1, SoundFrame
  <2> QED BY <1>1, <2>2
<1>11. amm'.seen <= pool_liq'
  BY <1>1, <1>4, StateFields
<1>12. (acc_day <= DayOf(height))' /\ (\A k \in Open' : T(k)'.start <= height')
  BY <1>1 DEF PoolInv, Open, T, DayOf
<1> QED BY <1>7, <1>8, <1>9, <1>10, <1>11, <1>12 DEF PoolInv

LEMMA BuyStep ==
  ASSUME PoolInv, NEW a \in Accounts, NEW n \in HbdAmounts, SwapHBDForLC(a, n)
  PROVE  PoolInv'
<1> DEFINE out == SwapOut(amm.hbd, amm.lc, n)
           v   == bal[a] + out
           w   == hbd[a] - Drawn(n)
           rl  == amm.lc - out
           m   == [amm EXCEPT !.hbd = @ + n, !.lc = rl]
<1>1. /\ swaps < MaxSwaps /\ swaps' = swaps + 1 /\ hbd[a] >= Drawn(n)
      /\ out \in 1 .. amm.lc - 1
      /\ bal' = [bal EXCEPT ![a] = v]
      /\ hbd' = [hbd EXCEPT ![a] = w]
      /\ custody' = custody + Drawn(n)
      /\ amm' = m
      /\ height' = height /\ acc_day' = acc_day /\ lp' = lp /\ pool_liq' = pool_liq
  BY DEF SwapHBDForLC, MayBuy, MaySwap
<1>2. /\ bal[a] \in Nat /\ hbd[a] \in Nat /\ n \in Nat /\ pool_liq \in Nat /\ amm \in Amm
      /\ amm.lc \in Nat /\ amm.hbd \in Nat /\ acc_day \in Days /\ custody \in Nat
      /\ amm.hbd <= custody
  BY StateFields, ConstantTypes
<1> HIDE DEF out
<1>3. out \in Nat /\ Drawn(n) \in Nat /\ n <= Drawn(n)
  BY <1>1, <1>2, Rounding
<1>4. m \in Amm /\ m.lc = rl /\ m.hbd = amm.hbd + n /\ m.shares = amm.shares
      /\ m.weight = amm.weight /\ m.acc = amm.acc /\ m.held = amm.held /\ m.seen = amm.seen
  <2>1. rl \in Nat /\ amm.hbd + n \in Nat
    BY <1>1, <1>2, <1>3
  <2> HIDE DEF rl
  <2> QED BY <1>2, <2>1 DEF Amm
<1>5. /\ v \in Nat /\ w \in Nat /\ rl \in Nat
      /\ v + rl + pool_liq = bal[a] + amm.lc + pool_liq
      /\ custody + Drawn(n) = custody + hbd[a] - w
      /\ amm.hbd + n <= custody + Drawn(n) /\ custody + Drawn(n) \in Nat
  BY <1>1, <1>2, <1>3
<1> HIDE DEF v, w, rl, m
<1>6. amm'.lc = rl /\ amm'.hbd = amm.hbd + n
  BY <1>1, <1>4
<1>7. bal' \in [Accounts -> Nat] /\ LasseCashConserved'
  BY <1>1, <1>2, <1>5, <1>6, LcMovesToday
<1>8. hbd' \in [Accounts -> Nat] /\ CustodyCoversReserve'
  <2>1. custody' = custody + hbd[a] - w /\ amm'.hbd <= custody'
    BY <1>1, <1>5, <1>6
  <2> QED BY <1>1, <1>5, <2>1, HbdMoves
<1>9. TypeOK'
  <2>1. TypeOK
    BY DEF PoolInv
  <2>2. swaps' \in 0 .. MaxSwaps
    BY <1>1, SwapCounted
  <2>3. custody' \in Nat /\ amm' \in Amm
    BY <1>1, <1>4, <1>5
  <2> QED BY <1>1, <1>7, <1>8, <2>1, <2>2, <2>3 DEF TypeOK, Amm
<1>10. Sound(lp', amm')
  <2>1. Sound(lp, amm)
    BY DEF PoolInv
  <2>2. Sound(lp, m)
    BY <1>4, <2>1, SoundFrame
  <2> QED BY <1>1, <2>2
<1>11. amm'.seen <= pool_liq'
  BY <1>1, <1>4, StateFields
<1>12. (acc_day <= DayOf(height))' /\ (\A k \in Open' : T(k)'.start <= height')
  BY <1>1 DEF PoolInv, Open, T, DayOf
<1> QED BY <1>7, <1>8, <1>9, <1>10, <1>11, <1>12 DEF PoolInv

LEMMA ClaimStep ==
  ASSUME PoolInv, NEW day \in Walks, NEW a \in Accounts, NEW id \in DOMAIN lp[a],
         ClaimPoolRewards(a, id, day)
  PROVE  PoolInv'
<1> DEFINE pool == pool_liq + LiquidityEmission(acc_day, day)
           m    == SyncPoolAccumulator(amm, pool)
           s    == SettleTranche(a, id, day)
           t    == [s.t EXCEPT !.lastTouch = height]
           v    == bal[a] + s.owed
<1>1. /\ ~ lp[a][id].closed
      /\ acc_day' = day /\ pool_liq' = s.pool /\ amm' = s.amm
      /\ bal' = [bal EXCEPT ![a] = v]
      /\ lp' = [lp EXCEPT ![a][id] = t]
      /\ height' = height /\ hbd' = hbd /\ custody' = custody /\ swaps' = swaps
  BY DEF ClaimPoolRewards
<1>2. /\ pool \in Nat /\ pool_liq <= pool
      /\ Sound(lp, m) /\ m \in Amm
      /\ m.lc = amm.lc /\ m.hbd = amm.hbd /\ m.shares = amm.shares
      /\ m.weight = amm.weight /\ m.seen = pool
      /\ LiquidityEmission(0, day) = LiquidityEmission(0, acc_day) + pool - pool_liq
      /\ LiquidityEmission(0, acc_day) \in Nat
  BY WalkSound
<1>3. /\ <<a, id>> \in OpenOf(lp)
      /\ s.owed \in Nat /\ s.owed <= pool
      /\ AccScale * s.owed <= EarnedOf(lp, m.acc)[<<a, id>>]
      /\ s.pool = pool - s.owed
      /\ s.t \in Tranche /\ ~ s.t.closed /\ s.t.shares = lp[a][id].shares
      /\ s.t.start = lp[a][id].start /\ s.t.accStart = m.acc
      /\ s.amm \in Amm /\ s.amm.lc = m.lc /\ s.amm.hbd = m.hbd
      /\ s.amm.shares = m.shares /\ s.amm.acc = m.acc /\ s.amm.held = m.held
      /\ s.amm.weight = m.weight - lp[a][id].weight + s.t.weight
      /\ s.amm.seen = m.seen - s.owed
  BY <1>1, SettleSound
<1> HIDE DEF pool, m, s
<1>4. /\ bal[a] \in Nat /\ hbd \in [Accounts -> Nat] /\ pool_liq \in Nat /\ height \in Nat
      /\ amm.lc \in Nat /\ custody \in Nat
  BY StateFields
<1>5. t \in Tranche /\ ~ t.closed /\ t.shares = lp[a][id].shares /\ t.start = lp[a][id].start
      /\ t.accStart = m.acc /\ t.weight = s.t.weight
  BY <1>3, <1>4 DEF Tranche
<1>6. day \in Days /\ day <= DayOf(height)
  BY WalkForward
<1> HIDE DEF t
<1>7. Sound(Rewrite(lp, a, id, t), s.amm)
  BY <1>2, <1>3, <1>5, ReplaceSound
<1>8. lp' = Rewrite(lp, a, id, t)
  BY <1>1 DEF Rewrite
<1>9. Sound(lp', amm')
  BY <1>1, <1>7, <1>8
<1>10. \A k \in Open' : T(k)'.start <= height'
  BY <1>1, <1>3, <1>5, <1>8, StartsKept
<1>11. s.pool \in Nat /\ v \in Nat
  BY <1>2, <1>3, <1>4
<1>12. bal' \in [Accounts -> Nat] /\ LasseCashConserved'
  <2>1. amm'.lc = amm.lc /\ pool_liq' = s.pool /\ acc_day' = day
    BY <1>1, <1>2, <1>3
  <2>2. LiquidityEmission(0, day) \in Nat
    BY <1>2, <1>4
  <2>3. v + amm.lc + s.pool + LiquidityEmission(0, acc_day)
          = bal[a] + amm.lc + pool_liq + LiquidityEmission(0, day)
    BY <1>2, <1>3, <1>4
  <2> HIDE DEF v
  <2> QED BY <1>1, <1>4, <1>6, <1>11, <2>1, <2>2, <2>3, LcMoves
<1>13. amm'.seen <= pool_liq'
  BY <1>1, <1>2, <1>3
<1>14. (acc_day <= DayOf(height))'
  BY <1>1, <1>6 DEF DayOf
<1>15. CustodyCoversReserve'
  <2>1. amm'.hbd = amm.hbd
    BY <1>1, <1>2, <1>3
  <2> QED BY <1>1, <2>1 DEF PoolInv, CustodyCoversReserve
<1>16. TypeOK'
  <2>1. TypeOK
    BY DEF PoolInv
  <2>2. lp' \in [Accounts -> Seq(Tranche)] /\ amm' \in Amm
    BY <1>9 DEF Sound
  <2> QED BY <1>1, <1>6, <1>11, <1>12, <2>1, <2>2 DEF TypeOK, Amm
<1> QED BY <1>9, <1>10, <1>12, <1>13, <1>14, <1>15, <1>16 DEF PoolInv

\* What a withdrawal takes out of a reserve is there, and the chain can pay it
\* (WithdrawAmounts, closeTranche).
LEMMA WithdrawalFits ==
  ASSUME NEW reserve \in Nat, NEW total \in Nat, NEW shares \in 1 .. total
  PROVE  LET out  == MulDiv(reserve, shares, total)
             left == LeavesDust(out)
         IN  /\ out \in 0 .. reserve /\ left \in 0 .. reserve
             /\ total * out <= reserve * shares /\ total * left <= reserve * shares
             /\ Paid(left) \in 0 .. left
<1> DEFINE out  == MulDiv(reserve, shares, total)
           left == LeavesDust(out)
<1>1. shares \in Nat /\ shares <= total /\ total \in Nat \ {0}
  OBVIOUS
<1>2. out \in Nat /\ out <= reserve /\ total * out <= reserve * shares
  BY <1>1, MulDivBounds, MulDivShrinks
<1>3. total * 0 = 0 /\ reserve * shares \in Nat
  BY <1>1, ProductNat
<1> HIDE DEF out
<1>4. left = 0 \/ left = out
  BY DEF LeavesDust
<1>5. left \in 0 .. reserve /\ total * left <= reserve * shares
  BY <1>2, <1>3, <1>4
<1> HIDE DEF left
<1>6. Paid(left) \in Nat /\ Paid(left) <= left
  BY <1>5, Rounding
<1> QED BY <1>2, <1>5, <1>6 DEF out, left

LEMMA DissolveStep ==
  ASSUME PoolInv, NEW day \in Walks, NEW a \in Accounts, NEW id \in DOMAIN lp[a],
         Dissolve(a, id, a, day)
  PROVE  PoolInv'
<1> DEFINE pool == pool_liq + LiquidityEmission(acc_day, day)
           m    == SyncPoolAccumulator(amm, pool)
           s    == SettleTranche(a, id, day)
           lcOut  == MulDiv(amm.lc, s.t.shares, amm.shares)
           hbdOut == LeavesDust(MulDiv(amm.hbd, s.t.shares, amm.shares))
           n    == [s.amm EXCEPT !.lc = @ - lcOut, !.hbd = @ - hbdOut,
                                 !.shares = @ - s.t.shares, !.weight = @ - s.t.weight]
           t    == [s.t EXCEPT !.closed = TRUE, !.weight = 0]
           v    == bal[a] + lcOut + s.owed
           w    == hbd[a] + Paid(hbdOut)
<1>1. /\ ~ lp[a][id].closed
      /\ CanWithdraw(s.t)
      /\ acc_day' = day /\ pool_liq' = s.pool /\ amm' = n
      /\ custody' = custody - Paid(hbdOut)
      /\ hbd' = [hbd EXCEPT ![a] = w]
      /\ bal' = [bal EXCEPT ![a] = v]
      /\ lp' = [lp EXCEPT ![a][id] = t]
      /\ height' = height /\ swaps' = swaps
  BY DEF Dissolve
<1>2. /\ pool \in Nat /\ pool_liq <= pool
      /\ Sound(lp, m) /\ m \in Amm
      /\ m.lc = amm.lc /\ m.hbd = amm.hbd /\ m.shares = amm.shares
      /\ m.weight = amm.weight /\ m.seen = pool
      /\ LiquidityEmission(0, day) = LiquidityEmission(0, acc_day) + pool - pool_liq
      /\ LiquidityEmission(0, acc_day) \in Nat
  BY WalkSound
<1>3. /\ <<a, id>> \in OpenOf(lp)
      /\ lp[a][id].weight \in 0 .. m.weight
      /\ s.owed \in Nat /\ s.owed <= pool
      /\ AccScale * s.owed <= EarnedOf(lp, m.acc)[<<a, id>>]
      /\ s.pool = pool - s.owed
      /\ s.t \in Tranche /\ ~ s.t.closed /\ s.t.shares = lp[a][id].shares
      /\ s.t.start = lp[a][id].start /\ s.t.accStart = m.acc
      /\ s.amm \in Amm /\ s.amm.lc = m.lc /\ s.amm.hbd = m.hbd
      /\ s.amm.shares = m.shares /\ s.amm.acc = m.acc /\ s.amm.held = m.held
      /\ s.amm.weight = m.weight - lp[a][id].weight + s.t.weight
      /\ s.amm.seen = m.seen - s.owed
  BY <1>1, SettleSound
<1>4. /\ bal[a] \in Nat /\ hbd[a] \in Nat /\ pool_liq \in Nat /\ height \in Nat
      /\ amm.lc \in Nat /\ amm.hbd \in Nat /\ amm.shares \in Nat /\ amm.weight \in Nat
      /\ custody \in Nat /\ amm.hbd <= custody
  BY StateFields
<1>5. s.t.shares \in 1 .. amm.shares
  BY <1>1 DEF CanWithdraw
<1>6. lcOut \in 0 .. amm.lc /\ hbdOut \in 0 .. amm.hbd /\ Paid(hbdOut) \in 0 .. hbdOut
  BY <1>4, <1>5, WithdrawalFits
<1> HIDE DEF pool, m, s, lcOut, hbdOut
<1>7. t \in Tranche /\ t.closed /\ t.start = lp[a][id].start
  BY <1>3 DEF Tranche
<1>8. s.t.weight \in Nat /\ s.t.shares \in Nat
  BY <1>3 DEF Tranche
<1>9. /\ n \in Amm /\ n.lc = amm.lc - lcOut /\ n.hbd = amm.hbd - hbdOut
      /\ n.shares = m.shares - lp[a][id].shares /\ n.weight = m.weight - lp[a][id].weight
      /\ n.acc = m.acc /\ n.held = m.held /\ n.seen = m.seen - s.owed
  <2> DEFINE x == s.amm.lc - lcOut
             y == s.amm.hbd - hbdOut
             z == s.amm.shares - s.t.shares
             u == s.amm.weight - s.t.weight
  <2>1. /\ x = amm.lc - lcOut /\ y = amm.hbd - hbdOut
        /\ z = m.shares - lp[a][id].shares /\ u = m.weight - lp[a][id].weight
    BY <1>2, <1>3, <1>4, <1>8
  <2>2. x \in Nat /\ y \in Nat /\ z \in Nat /\ u \in Nat
    BY <1>2, <1>3, <1>4, <1>5, <1>6, <2>1
  <2>3. n = [s.amm EXCEPT !.lc = x, !.hbd = y, !.shares = z, !.weight = u]
    OBVIOUS
  <2> HIDE DEF x, y, z, u, n
  <2>4. /\ n \in Amm /\ n.lc = x /\ n.hbd = y /\ n.shares = z /\ n.weight = u
        /\ n.acc = s.amm.acc /\ n.held = s.amm.held /\ n.seen = s.amm.seen
    BY <1>3, <2>2, <2>3 DEF Amm
  <2> QED BY <1>3, <2>1, <2>4
<1>10. day \in Days /\ day <= DayOf(height)
  BY WalkForward
<1> HIDE DEF t, n
<1>11. Sound(Rewrite(lp, a, id, t), n)
  BY <1>2, <1>3, <1>7, <1>9, CloseSound
<1>12. lp' = Rewrite(lp, a, id, t)
  BY <1>1 DEF Rewrite
<1>13. Sound(lp', amm')
  BY <1>1, <1>11, <1>12
<1>14. \A k \in Open' : T(k)'.start <= height'
  BY <1>1, <1>3, <1>7, <1>12, StartsKept
<1>15. s.pool \in Nat /\ v \in Nat /\ w \in Nat
  BY <1>2, <1>3, <1>4, <1>6
<1>16. bal' \in [Accounts -> Nat] /\ LasseCashConserved'
  <2>1. amm'.lc = amm.lc - lcOut /\ pool_liq' = s.pool /\ acc_day' = day
    BY <1>1, <1>9
  <2>2. LiquidityEmission(0, day) \in Nat /\ amm.lc - lcOut \in Nat
    BY <1>2, <1>4, <1>6
  <2>3. v + (amm.lc - lcOut) + s.pool + LiquidityEmission(0, acc_day)
          = bal[a] + amm.lc + pool_liq + LiquidityEmission(0, day)
    BY <1>2, <1>3, <1>4, <1>6
  <2> HIDE DEF v
  <2> QED BY <1>1, <1>10, <1>15, <2>1, <2>2, <2>3, LcMoves
<1>17. hbd' \in [Accounts -> Nat] /\ CustodyCoversReserve' /\ custody' \in Nat
  <2>1. custody' = custody + hbd[a] - w /\ amm'.hbd <= custody' /\ custody' \in Nat
    BY <1>1, <1>4, <1>6, <1>9
  <2> HIDE DEF w
  <2> QED BY <1>1, <1>15, <2>1, HbdMoves
<1>18. amm'.seen <= pool_liq'
  BY <1>1, <1>2, <1>3, <1>9
<1>19. (acc_day <= DayOf(height))'
  BY <1>1, <1>10 DEF DayOf
<1>20. TypeOK'
  <2>1. TypeOK
    BY DEF PoolInv
  <2>2. lp' \in [Accounts -> Seq(Tranche)] /\ amm' \in Amm
    BY <1>13 DEF Sound
  <2> QED BY <1>1, <1>10, <1>15, <1>16, <1>17, <2>1, <2>2 DEF TypeOK, Amm
<1> QED BY <1>13, <1>14, <1>16, <1>17, <1>18, <1>19, <1>20 DEF PoolInv
\* The shares of a deposit are a natural (LPSharesFor).
LEMMA SharesNat ==
  ASSUME NEW n \in Nat, NEW reserve \in Nat, NEW total \in Nat
  PROVE  LPSharesFor(n, reserve, total) \in Nat
<1>1. CASE total = 0 \/ reserve = 0
  BY <1>1 DEF LPSharesFor
<1>2. CASE ~ (total = 0 \/ reserve = 0)
  <2>1. LPSharesFor(n, reserve, total) = MulDiv(total, n, reserve)
    BY <1>2 DEF LPSharesFor
  <2> QED BY <1>2, <2>1, MulDivBounds
<1> QED BY <1>1, <1>2

\* A tranche that is opened starts at the present height.
LEMMA StartsJoin ==
  ASSUME PoolInv, NEW a \in Accounts, NEW t \in Tranche, ~ t.closed, t.start = height
  PROVE  lp' = Enlarge(lp, a, t) /\ height' = height
           => \A k \in Open' : T(k)'.start <= height'
<1> DEFINE q == Enlarge(lp, a, t)
           l == Len(lp[a]) + 1
           y == <<a, l>>
<1>1. /\ OpenOf(q) = OpenOf(lp) \union {y} /\ q[a][l] = t
      /\ \A k \in OpenOf(lp) : q[k[1]][k[2]] = lp[k[1]][k[2]]
  <2>1. lp \in [Accounts -> Seq(Tranche)]
    BY StateFields
  <2>2. LET r == Enlarge(lp, a, t)
            z == <<a, Len(lp[a]) + 1>>
        IN  /\ r \in [Accounts -> Seq(Tranche)]
            /\ z \notin OpenOf(lp)
            /\ r[a][Len(lp[a]) + 1] = t
            /\ \A k \in OpenOf(lp) : r[k[1]][k[2]] = lp[k[1]][k[2]]
            /\ OpenOf(r) = OpenOf(lp) \union {z}
    BY <2>1, TableAppend
  <2> QED BY <2>2
<1>2. \A k \in OpenOf(lp) : lp[k[1]][k[2]].start <= height
  BY DEF PoolInv, Open, OpenOf, T
<1>3. height \in Nat
  BY StateFields
<1> HIDE DEF q, l
<1>4. ASSUME NEW k \in OpenOf(q) PROVE q[k[1]][k[2]].start <= height
  <2>1. CASE k = y
    BY <1>1, <1>3, <2>1
  <2>2. CASE k \in OpenOf(lp)
    BY <1>1, <1>2, <2>2
  <2> QED BY <1>1, <2>1, <2>2
<1>5. lp' = q => Open' = OpenOf(q) /\ \A k : T(k)' = q[k[1]][k[2]]
  BY DEF Open, OpenOf, T
<1> QED BY <1>4, <1>5 DEF q

LEMMA AddStep ==
  ASSUME PoolInv, NEW day \in Walks, NEW a \in Accounts,
         NEW n \in LcAmounts, NEW h \in HbdAmounts, AddLiquidity(a, n, h, day)
  PROVE  PoolInv'
<1> DEFINE hbdIn  == HbdFor(n, h)
           shares == LPSharesFor(n, amm.lc, amm.shares)
           weight == TrancheWeight(shares, 0)
           pool   == pool_liq + LiquidityEmission(acc_day, day)
           m      == SyncPoolAccumulator(amm, pool)
           g      == [m EXCEPT !.lc = @ + n, !.hbd = @ + hbdIn,
                               !.shares = @ + shares, !.weight = @ + weight]
           t      == [shares |-> shares, start |-> height, weight |-> weight,
                      closed |-> FALSE, accStart |-> m.acc, lastTouch |-> height]
           v      == bal[a] - n
           w      == hbd[a] - Drawn(hbdIn)
<1>1. /\ bal[a] >= n /\ hbdIn \in 1 .. h /\ shares > 0 /\ hbd[a] >= Drawn(hbdIn)
      /\ hbd' = [hbd EXCEPT ![a] = w]
      /\ custody' = custody + Drawn(hbdIn)
      /\ bal' = [bal EXCEPT ![a] = v]
      /\ acc_day' = day /\ pool_liq' = pool /\ amm' = g
      /\ lp' = Enlarge(lp, a, t)
      /\ height' = height /\ swaps' = swaps
  BY DEF AddLiquidity, MayAdd, Enlarge
<1>2. /\ pool \in Nat /\ pool_liq <= pool
      /\ Sound(lp, m) /\ m \in Amm
      /\ m.lc = amm.lc /\ m.hbd = amm.hbd /\ m.shares = amm.shares
      /\ m.weight = amm.weight /\ m.seen = pool
      /\ LiquidityEmission(0, day) = LiquidityEmission(0, acc_day) + pool - pool_liq
      /\ LiquidityEmission(0, acc_day) \in Nat
  BY WalkSound
<1>3. /\ bal[a] \in Nat /\ hbd[a] \in Nat /\ pool_liq \in Nat /\ height \in Nat
      /\ amm.lc \in Nat /\ amm.hbd \in Nat /\ amm.shares \in Nat /\ amm.weight \in Nat
      /\ custody \in Nat /\ amm.hbd <= custody /\ n \in Nat /\ h \in Nat
  BY StateFields, ConstantTypes
<1>4. shares \in Nat /\ weight \in Nat
  BY <1>3, SharesNat, WeightNat
<1> HIDE DEF hbdIn, shares, weight, pool, m
<1>5. hbdIn \in Nat /\ Drawn(hbdIn) \in Nat /\ hbdIn <= Drawn(hbdIn)
  BY <1>1, <1>3, Rounding
<1>6. /\ t \in Tranche /\ ~ t.closed /\ t.shares = shares /\ t.shares # 0
      /\ t.weight = weight /\ t.accStart = m.acc /\ t.start = height
  <2>1. m.acc \in Nat
    BY <1>2 DEF Amm
  <2> QED BY <1>1, <1>3, <1>4, <2>1 DEF Tranche
<1>7. /\ g \in Amm /\ g.lc = amm.lc + n /\ g.hbd = amm.hbd + hbdIn
      /\ g.shares = m.shares + shares /\ g.weight = m.weight + weight
      /\ g.acc = m.acc /\ g.held = m.held /\ g.seen = m.seen
  <2> DEFINE x == m.lc + n
             y == m.hbd + hbdIn
             z == m.shares + shares
             u == m.weight + weight
  <2>1. x \in Nat /\ y \in Nat /\ z \in Nat /\ u \in Nat
    BY <1>2, <1>3, <1>4, <1>5
  <2>2. x = amm.lc + n /\ y = amm.hbd + hbdIn /\ z = m.shares + shares /\ u = m.weight + weight
    BY <1>2
  <2>3. g = [m EXCEPT !.lc = x, !.hbd = y, !.shares = z, !.weight = u]
    OBVIOUS
  <2> HIDE DEF x, y, z, u, g
  <2>4. /\ g \in Amm /\ g.lc = x /\ g.hbd = y /\ g.shares = z /\ g.weight = u
        /\ g.acc = m.acc /\ g.held = m.held /\ g.seen = m.seen
    BY <1>2, <2>1, <2>3 DEF Amm
  <2> QED BY <2>2, <2>4
<1>8. day \in Days /\ day <= DayOf(height)
  BY WalkForward
<1> HIDE DEF t, g
<1>9. Sound(Enlarge(lp, a, t), g)
  <2>1. g.shares = m.shares + t.shares /\ g.weight = m.weight + t.weight
    BY <1>6, <1>7
  <2> QED BY <1>2, <1>6, <1>7, <2>1, AddSound
<1>10. Sound(lp', amm')
  BY <1>1, <1>9
<1>11. \A k \in Open' : T(k)'.start <= height'
  BY <1>1, <1>6, StartsJoin
<1>12. v \in Nat /\ w \in Nat
  BY <1>1, <1>3, <1>5
<1>13. bal' \in [Accounts -> Nat] /\ LasseCashConserved'
  <2>1. amm'.lc = amm.lc + n /\ pool_liq' = pool /\ acc_day' = day
    BY <1>1, <1>7
  <2>2. LiquidityEmission(0, day) \in Nat /\ amm.lc + n \in Nat
    BY <1>2, <1>3
  <2>3. v + (amm.lc + n) + pool + LiquidityEmission(0, acc_day)
          = bal[a] + amm.lc + pool_liq + LiquidityEmission(0, day)
    BY <1>2, <1>3
  <2> HIDE DEF v
  <2> QED BY <1>1, <1>2, <1>8, <1>12, <2>1, <2>2, <2>3, LcMoves
<1>14. hbd' \in [Accounts -> Nat] /\ CustodyCoversReserve' /\ custody' \in Nat
  <2>1. custody' = custody + hbd[a] - w /\ amm'.hbd <= custody' /\ custody' \in Nat
    BY <1>1, <1>3, <1>5, <1>7
  <2> HIDE DEF w
  <2> QED BY <1>1, <1>12, <2>1, HbdMoves
<1>15. amm'.seen <= pool_liq'
  BY <1>1, <1>2, <1>7
<1>16. (acc_day <= DayOf(height))'
  BY <1>1, <1>8 DEF DayOf
<1>17. TypeOK'
  <2>1. TypeOK
    BY DEF PoolInv
  <2>2. lp' \in [Accounts -> Seq(Tranche)] /\ amm' \in Amm
    BY <1>10 DEF Sound
  <2> QED BY <1>1, <1>2, <1>8, <1>13, <1>14, <2>1, <2>2 DEF TypeOK, Amm
<1> QED BY <1>10, <1>11, <1>13, <1>14, <1>15, <1>16, <1>17 DEF PoolInv

\* Whoever closes a tranche, its owner is the payee.
LEMMA CloserIsNoMatter ==
  ASSUME NEW c, NEW a, NEW id, NEW day,
         RemoveLiquidity(a, id, day) \/ SweepTranche(c, a, id, day)
  PROVE  Dissolve(a, id, a, day)
BY DEF RemoveLiquidity, SweepTranche, CloseTranche

LEMMA PoolStep == PoolInv /\ [Next]_vars => PoolInv'
<1> SUFFICES ASSUME PoolInv, [Next]_vars PROVE PoolInv'
  OBVIOUS
<1>1. CASE UNCHANGED vars
  BY <1>1 DEF vars, PoolInv, TypeOK, Open, T, CustodyCoversReserve, LasseCashConserved, DayOf
<1>2. CASE Tick
  BY <1>2, TickSound
<1>3. ASSUME NEW day \in Walks, Settle(day) PROVE PoolInv'
  BY <1>3, SettleStep
<1>4. ASSUME NEW day \in Walks, NEW a \in Accounts, NEW n \in LcAmounts, NEW h \in HbdAmounts,
             AddLiquidity(a, n, h, day)
      PROVE  PoolInv'
  BY <1>4, AddStep
<1>5. ASSUME NEW day \in Walks, NEW a \in Accounts, NEW id \in DOMAIN lp[a],
             ClaimPoolRewards(a, id, day)
      PROVE  PoolInv'
  BY <1>5, ClaimStep
<1>6. ASSUME NEW day \in Walks, NEW a \in Accounts, NEW id \in DOMAIN lp[a], NEW c \in Accounts,
             RemoveLiquidity(a, id, day) \/ SweepTranche(c, a, id, day)
      PROVE  PoolInv'
  <2>1. Dissolve(a, id, a, day)
    BY <1>6, CloserIsNoMatter
  <2> QED BY <2>1, DissolveStep
<1>7. ASSUME NEW a \in Accounts, NEW n \in Gifts, FundLiquidity(a, n) PROVE PoolInv'
  BY <1>7, FundStep
<1>8. ASSUME NEW a \in Accounts, NEW n \in LcAmounts, SwapLCForHBD(a, n) PROVE PoolInv'
  BY <1>8, SellStep
<1>9. ASSUME NEW a \in Accounts, NEW n \in HbdAmounts, SwapHBDForLC(a, n) PROVE PoolInv'
  BY <1>9, BuyStep
<1> QED BY <1>1, <1>2, <1>3, <1>4, <1>5, <1>6, <1>7, <1>8, <1>9, Zenon DEF Next
-----------------------------------------------------------------------------
(* What the invariant says of a state.                                     *)

LEMMA TotalsFollow == PoolInv => TotalsAreOpenTranches
<1> SUFFICES ASSUME PoolInv PROVE TotalsAreOpenTranches
  OBVIOUS
<1>1. Open = OpenOf(lp)
  BY DEF Open, OpenOf
<1>2. /\ [k \in Open |-> T(k).shares] = SharesOf(lp)
      /\ [k \in Open |-> T(k).weight] = WeightsOf(lp)
  BY <1>1 DEF T, SharesOf, WeightsOf
<1> QED BY <1>1, <1>2 DEF PoolInv, Sound, TotalsAreOpenTranches

\* Flooring what each tranche has earned only helps.
LEMMA RewardsFollow == PoolInv => RewardsCovered
<1> SUFFICES ASSUME PoolInv PROVE RewardsCovered
  OBVIOUS
<1> DEFINE K == OpenOf(lp)
           o == [k \in K |-> Owed(k)]
           z == [k \in K |-> 0]
           g == [k \in K |-> AccScale * o[k]]
           e == EarnedOf(lp, amm.acc)
<1>1. Open = K /\ Sound(lp, amm) /\ IsFiniteSet(K)
  BY DEF PoolInv, Sound, Open, OpenOf
<1>2. \A k \in K : o[k] \in Nat /\ AccScale * o[k] <= e[k] /\ e[k] \in Nat
  <2> TAKE k \in K
  <2>1. o[k] = Entitlement(lp[k[1]][k[2]].weight, lp[k[1]][k[2]].accStart, amm.acc)
    BY DEF Owed, T
  <2>2. e[k] \in Nat
    BY <1>1, SoundFields
  <2> QED BY <1>1, <2>1, <2>2, OwedIsThere
<1>3. /\ Total(e, K) \in Nat
      /\ Total(e, K) + AccScale * amm.held <= AccScale * amm.seen
  BY <1>1, SoundFields DEF Sound
<1>4. amm.held \in Nat /\ amm.seen \in Nat /\ amm.seen <= pool_liq
  BY StateFields
<1> HIDE DEF K, e
<1>5. \A k \in K : z[k] = 0 /\ g[k] = AccScale * o[k] /\ g[k] \in Nat
  BY <1>2, ConstantTypes, ProductNat
<1> HIDE DEF z, g, o
<1>6. Total(g, K) = AccScale * Total(o, K) /\ Total(o, K) \in Nat
  <2>1. Total(z, K) = Cardinality(K) * 0
    BY <1>1, <1>5, TotalConstant
  <2>2. Cardinality(K) \in Nat
    BY <1>1, FS_CardinalityType
  <2>3. \A k \in K : z[k] \in Nat /\ o[k] \in Nat /\ g[k] = z[k] + AccScale * o[k]
    BY <1>2, <1>5
  <2>4. Total(g, K) = Total(z, K) + AccScale * Total(o, K)
    BY <1>1, <2>3, ConstantTypes, TotalScale
  <2>5. Total(o, K) \in Nat
    BY <1>1, <1>2, TotalIsNat
  <2>6. AccScale * Total(o, K) \in Nat
    BY <2>5, ConstantTypes, ProductNat
  <2> QED BY <2>1, <2>2, <2>4, <2>5, <2>6
<1>7. Total(g, K) <= Total(e, K)
  <2>1. (\A k \in K : g[k] \in Nat) /\ \A k \in K : e[k] \in Nat /\ g[k] <= e[k]
    BY <1>2, <1>5
  <2> QED BY <1>1, <2>1, TotalMono
<1>8. Total(o, K) + amm.held <= amm.seen
  <2> DEFINE to == Total(o, K)
             x == to + amm.held
  <2>1. to \in Nat /\ x \in Nat
    BY <1>4, <1>6
  <2>2. AccScale * x <= AccScale * amm.seen
    <3>1. AccScale * x = AccScale * to + AccScale * amm.held
      BY <1>4, <1>6, ConstantTypes
    <3>2. AccScale * to \in Nat /\ AccScale * amm.held \in Nat /\ AccScale * amm.seen \in Nat
      BY <1>4, <2>1, ConstantTypes, ProductNat
    <3> QED BY <1>3, <1>6, <1>7, <3>1, <3>2
  <2> HIDE DEF x, to
  <2>3. ASSUME amm.seen + 1 <= x PROVE FALSE
    <3>1. AccScale * (amm.seen + 1) <= AccScale * x
      BY <1>4, <2>1, <2>3, ConstantTypes, ProductMono
    <3>2. AccScale * (amm.seen + 1) = AccScale * amm.seen + AccScale
      BY <1>4, ConstantTypes
    <3>3. AccScale * amm.seen \in Nat /\ AccScale * x \in Nat
      BY <1>4, <2>1, ConstantTypes, ProductNat
    <3> QED BY <2>2, <3>1, <3>2, <3>3, ConstantTypes
  <2>4. x <= amm.seen
    BY <1>4, <2>1, <2>3
  <2> QED BY <2>4 DEF x, to
<1>9. [k \in Open |-> Owed(k)] = o
  BY <1>1 DEF o
<1> QED BY <1>1, <1>4, <1>8, <1>9 DEF RewardsCovered

\* A withdrawal asks for no more than the reserve, and custody covers that.
LEMMA OwnersCanLeave == PoolInv => OwnerCanLeave
<1> SUFFICES ASSUME PoolInv, NEW k \in Open PROVE CanWithdraw(T(k))
  BY DEF OwnerCanLeave
<1>1. k \in OpenOf(lp) /\ Sound(lp, amm) /\ lp \in [Accounts -> Seq(Tranche)]
  BY DEF PoolInv, Sound, Open, OpenOf
<1>2. k[1] \in Accounts /\ k = <<k[1], k[2]>>
  BY <1>1, OpenKeys
<1>3. T(k).shares \in 1 .. amm.shares
  <2> DEFINE a == k[1]
             id == k[2]
  <2>1. a \in Accounts /\ <<a, id>> \in OpenOf(lp)
    BY <1>1, <1>2
  <2> HIDE DEF a, id
  <2>2. lp[a][id].shares \in 1 .. amm.shares
    BY <1>1, <2>1, OnePart
  <2> QED BY <2>2 DEF T, a, id
<1>4. amm.hbd \in Nat /\ amm.shares \in Nat /\ custody \in Nat /\ amm.hbd <= custody
  BY StateFields
<1> DEFINE out == LeavesDust(MulDiv(amm.hbd, T(k).shares, amm.shares))
<1>5. out \in 0 .. amm.hbd /\ Paid(out) \in 0 .. out
  BY <1>3, <1>4, WithdrawalFits
<1> HIDE DEF out
<1>6. Paid(out) <= custody /\ out <= amm.hbd
  BY <1>4, <1>5
<1> QED BY <1>3, <1>6 DEF CanWithdraw, out

-----------------------------------------------------------------------------
(* The value of a share.                                                   *)

\* Both reserves per share no lower, then their product per share squared.
LEMMA BothPerShare ==
  ASSUME NEW L \in Nat, NEW H \in Nat, NEW S \in Nat, NEW L1 \in Nat, NEW H1 \in Nat,
         NEW S1 \in Nat, L * S1 <= L1 * S, H * S1 <= H1 * S
  PROVE  L1 * H1 * S * S >= L * H * S1 * S1
<1> DEFINE p == L * S1
           q == L1 * S
           u == H * S1
           v == H1 * S
<1>1. p \in Nat /\ q \in Nat /\ u \in Nat /\ v \in Nat /\ p <= q /\ u <= v
  BY ProductNat
<1>2. p * u = L * H * S1 * S1 /\ q * v = L1 * H1 * S * S
  OBVIOUS
<1> HIDE DEF p, q, u, v
<1>3. p * u <= p * v /\ v * p <= v * q
  BY <1>1, ProductMono
<1>4. p * v = v * p /\ v * q = q * v /\ p * u \in Nat /\ v * p \in Nat /\ v * q \in Nat
  BY <1>1, ProductNat
<1> QED BY <1>2, <1>3, <1>4

\* The product of the reserves no lower and as many shares.
LEMMA SameShares ==
  ASSUME NEW L \in Nat, NEW H \in Nat, NEW S \in Nat, NEW L1 \in Nat, NEW H1 \in Nat,
         L * H <= L1 * H1
  PROVE  L1 * H1 * S * S >= L * H * S * S
<1> DEFINE p == L * H
           q == L1 * H1
           r == S * S
<1>1. p \in Nat /\ q \in Nat /\ r \in Nat /\ p <= q
  BY ProductNat
<1>2. r * p = L * H * S * S /\ r * q = L1 * H1 * S * S
  OBVIOUS
<1> HIDE DEF p, q, r
<1>3. r * p <= r * q
  BY <1>1, ProductMono
<1>4. r * p \in Nat /\ r * q \in Nat
  BY <1>1, ProductNat
<1> QED BY <1>2, <1>3, <1>4

\* A swap never lowers the product of the reserves (SwapOut).
LEMMA ProductKept ==
  ASSUME NEW rin \in Nat, NEW rout \in Nat, NEW n \in Nat, rin > 0,
         SwapOut(rin, rout, n) <= rout
  PROVE  rin * rout <= (rin + n) * (rout - SwapOut(rin, rout, n))
<1> DEFINE out == SwapOut(rin, rout, n)
           d == rin + n
<1>1. d \in Nat \ {0}
  OBVIOUS
<1>2. out = MulDiv(rout, n, d)
  BY DEF SwapOut
<1>3. out \in Nat /\ d * out <= rout * n
  BY <1>1, <1>2, MulDivBounds
<1> HIDE DEF out
<1>4. d * (rout - out) = rin * rout + rout * n - d * out
  BY <1>3
<1>5. rin * rout \in Nat /\ rout * n \in Nat /\ d * out \in Nat
  BY <1>1, <1>3, ProductNat
<1> QED BY <1>3, <1>4, <1>5 DEF out

\* A deposit brings at least the pool's price in HBD (HbdRequiredFor).
LEMMA HbdAtPrice ==
  ASSUME NEW L \in Nat \ {0}, NEW H \in Nat \ {0}, NEW n \in Nat
  PROVE  LET need == HbdRequiredFor(n, L, H) IN need \in Nat /\ H * n <= L * need
<1> DEFINE low  == MulDiv(H, n, L)
           back == MulDiv(low, L, H)
           need == HbdRequiredFor(n, L, H)
<1>1. low \in Nat /\ H * n < L * low + L
  BY MulDivBounds
<1>2. need = IF back < n THEN low + 1 ELSE low
  BY DEF HbdRequiredFor
<1> HIDE DEF low
<1>3. back \in Nat /\ H * back <= low * L
  BY <1>1, MulDivBounds
<1> HIDE DEF back, need
<1>4. H * n \in Nat /\ L * low \in Nat /\ H * back \in Nat
  BY <1>1, <1>3, ProductNat
<1>5. ASSUME back < n PROVE need \in Nat /\ H * n <= L * need
  <2>1. L * (low + 1) = L * low + L
    BY <1>1
  <2> QED BY <1>1, <1>2, <1>4, <1>5, <2>1
<1>6. ASSUME ~ (back < n) PROVE need \in Nat /\ H * n <= L * need
  <2>1. H * n <= H * back
    BY <1>3, <1>6, ProductMono
  <2>2. low * L = L * low
    BY <1>1
  <2> QED BY <1>1, <1>2, <1>3, <1>4, <1>6, <2>1, <2>2
<1> QED BY <1>5, <1>6 DEF need

\* Shares are minted by the LASSECASH, and the HBD comes with it.
LEMMA DepositKeepsValue ==
  ASSUME NEW L \in Nat \ {0}, NEW H \in Nat \ {0}, NEW S \in Nat \ {0}, NEW n \in Nat,
         NEW s \in Nat, L * s <= S * n, NEW h \in Nat, H * n <= L * h
  PROVE  L * (S + s) <= (L + n) * S /\ H * (S + s) <= (H + h) * S
<1>1. L * s \in Nat /\ S * n \in Nat /\ L * S \in Nat /\ H * S \in Nat
      /\ H * s \in Nat /\ h * S \in Nat
  BY ProductNat
<1>2. L * (S + s) <= (L + n) * S
  <2>1. L * (S + s) = L * S + L * s /\ (L + n) * S = L * S + S * n
    OBVIOUS
  <2> QED BY <1>1, <2>1
<1>3. H * s <= h * S
  <2> DEFINE x == H * s
             y == h * S
             b == H * n
             c == L * h
             u == L * s
             v == S * n
  <2>1. x \in Nat /\ y \in Nat /\ b \in Nat /\ c \in Nat /\ u \in Nat /\ v \in Nat
        /\ u <= v /\ b <= c
    BY <1>1, ProductNat
  <2>2. L * x = H * u /\ H * v = S * b /\ S * c = L * y
    OBVIOUS
  <2> HIDE DEF x, y, b, c, u, v
  <2>3. H * u <= H * v /\ S * b <= S * c
    BY <2>1, ProductMono
  <2>4. H * u \in Nat /\ H * v \in Nat /\ S * c \in Nat
    BY <2>1, ProductNat
  <2>5. L * x <= L * y
    BY <2>2, <2>3, <2>4
  <2>6. ASSUME y + 1 <= x PROVE FALSE
    <3>1. L * (y + 1) <= L * x
      BY <2>1, <2>6, ProductMono
    <3>2. L * (y + 1) = L * y + L
      BY <2>1
    <3>3. L * y \in Nat /\ L * x \in Nat
      BY <2>1, ProductNat
    <3> QED BY <2>5, <3>1, <3>2, <3>3
  <2>7. x <= y
    BY <2>1, <2>6
  <2> QED BY <2>7 DEF x, y
<1>4. H * (S + s) <= (H + h) * S
  <2>1. H * (S + s) = H * S + H * s /\ (H + h) * S = H * S + h * S
    OBVIOUS
  <2> QED BY <1>1, <1>3, <2>1
<1> QED BY <1>2, <1>4

\* What leaves with shares is no more than their part.
LEMMA WithdrawalKeepsValue ==
  ASSUME NEW R \in Nat, NEW S \in Nat, NEW s \in 1 .. S, NEW out \in 0 .. R,
         S * out <= R * s
  PROVE  R * (S - s) <= (R - out) * S
<1>1. S * out \in Nat /\ R * s \in Nat /\ R * S \in Nat
  BY ProductNat
<1>2. R * (S - s) = R * S - R * s /\ (R - out) * S = R * S - S * out
  OBVIOUS
<1> QED BY <1>1, <1>2
-----------------------------------------------------------------------------
(* What a call may never do to another's part.                             *)

Fair == ShareValueNeverFalls /\ OnlyTheOwnerIsPaid

\* A call that moves no reserve and no share.
LEMMA SameReserves ==
  ASSUME PoolInv, amm'.lc = amm.lc, amm'.hbd = amm.hbd, amm'.shares = amm.shares
  PROVE  ShareValueNeverFalls
<1>1. amm.lc \in Nat /\ amm.hbd \in Nat /\ amm.shares \in Nat
  BY StateFields
<1>2. amm.lc * amm.hbd \in Nat
  BY <1>1, ProductNat
<1>3. amm.lc * amm.hbd * amm.shares * amm.shares >= amm.lc * amm.hbd * amm.shares * amm.shares
  <2>1. amm.lc * amm.hbd <= amm.lc * amm.hbd
    BY <1>2
  <2> QED BY <1>1, <2>1, SameShares
<1> QED BY <1>3 DEF ShareValueNeverFalls

\* A call that closes no tranche.
LEMMA NothingCloses ==
  ASSUME Open \subseteq Open'
  PROVE  OnlyTheOwnerIsPaid
BY DEF OnlyTheOwnerIsPaid

\* What becomes of the open tranches when one is opened, rewritten or closed.
LEMMA OpenChanges ==
  ASSUME NEW p \in [Accounts -> Seq(Tranche)], NEW a \in Accounts, NEW t \in Tranche
  PROVE  /\ ~ t.closed => OpenOf(p) \subseteq OpenOf(Enlarge(p, a, t))
         /\ \A id : <<a, id>> \in OpenOf(p) =>
              OpenOf(Rewrite(p, a, id, t)) =
                IF t.closed THEN OpenOf(p) \ {<<a, id>>} ELSE OpenOf(p)
<1>1. ASSUME ~ t.closed PROVE OpenOf(p) \subseteq OpenOf(Enlarge(p, a, t))
  <2>1. LET r == Enlarge(p, a, t)
            z == <<a, Len(p[a]) + 1>>
        IN  /\ r \in [Accounts -> Seq(Tranche)]
            /\ z \notin OpenOf(p)
            /\ r[a][Len(p[a]) + 1] = t
            /\ \A k \in OpenOf(p) : r[k[1]][k[2]] = p[k[1]][k[2]]
            /\ OpenOf(r) = OpenOf(p) \union {z}
    BY <1>1, TableAppend
  <2> QED BY <2>1
<1>2. ASSUME NEW id, <<a, id>> \in OpenOf(p)
      PROVE  OpenOf(Rewrite(p, a, id, t)) =
               IF t.closed THEN OpenOf(p) \ {<<a, id>>} ELSE OpenOf(p)
  BY <1>2, TableUpdate, SMTT(60)
<1> QED BY <1>1, <1>2

LEMMA SameTable ==
  ASSUME lp' = lp
  PROVE  OnlyTheOwnerIsPaid
<1>1. Open' = Open
  BY DEF Open
<1> QED BY <1>1, NothingCloses

\* Whoever sells, the product of the reserves does not fall.
LEMMA SellFair ==
  ASSUME PoolInv, NEW a \in Accounts, NEW n \in LcAmounts, SwapLCForHBD(a, n)
  PROVE  Fair
<1> DEFINE out == SwapOut(amm.lc, amm.hbd, n)
<1>1. /\ amm.lc > 0 /\ out \in 1 .. amm.hbd - 1 /\ lp' = lp
      /\ amm' = [amm EXCEPT !.lc = @ + n, !.hbd = @ - out]
  BY DEF SwapLCForHBD, MaySell, MaySwap
<1>2. amm.lc \in Nat /\ amm.hbd \in Nat /\ amm.shares \in Nat /\ n \in Nat /\ amm \in Amm
  BY StateFields, ConstantTypes
<1> HIDE DEF out
<1>3. amm'.lc = amm.lc + n /\ amm'.hbd = amm.hbd - out /\ amm'.shares = amm.shares
  BY <1>1, <1>2 DEF Amm
<1>4. amm.lc + n \in Nat /\ amm.hbd - out \in Nat /\ out <= amm.hbd
  BY <1>1, <1>2
<1>5. amm.lc * amm.hbd <= (amm.lc + n) * (amm.hbd - out)
  BY <1>1, <1>2, <1>4, ProductKept DEF out
<1>6. (amm.lc + n) * (amm.hbd - out) * amm.shares * amm.shares
        >= amm.lc * amm.hbd * amm.shares * amm.shares
  BY <1>2, <1>4, <1>5, SameShares
<1>7. ShareValueNeverFalls
  BY <1>3, <1>6 DEF ShareValueNeverFalls
<1> QED BY <1>1, <1>7, SameTable DEF Fair

LEMMA BuyFair ==
  ASSUME PoolInv, NEW a \in Accounts, NEW n \in HbdAmounts, SwapHBDForLC(a, n)
  PROVE  Fair
<1> DEFINE out == SwapOut(amm.hbd, amm.lc, n)
<1>1. /\ amm.hbd > 0 /\ out \in 1 .. amm.lc - 1 /\ lp' = lp
      /\ amm' = [amm EXCEPT !.hbd = @ + n, !.lc = @ - out]
  BY DEF SwapHBDForLC, MayBuy, MaySwap
<1>2. amm.lc \in Nat /\ amm.hbd \in Nat /\ amm.shares \in Nat /\ n \in Nat /\ amm \in Amm
  BY StateFields, ConstantTypes
<1> HIDE DEF out
<1>3. amm'.lc = amm.lc - out /\ amm'.hbd = amm.hbd + n /\ amm'.shares = amm.shares
  BY <1>1, <1>2 DEF Amm
<1>4. amm.lc - out \in Nat /\ amm.hbd + n \in Nat /\ out <= amm.lc
  BY <1>1, <1>2
<1>5. amm.hbd * amm.lc <= (amm.hbd + n) * (amm.lc - out)
  BY <1>1, <1>2, <1>4, ProductKept DEF out
<1>6. amm.lc * amm.hbd <= (amm.lc - out) * (amm.hbd + n)
  <2>1. amm.lc * amm.hbd = amm.hbd * amm.lc
    BY <1>2
  <2>2. (amm.lc - out) * (amm.hbd + n) = (amm.hbd + n) * (amm.lc - out)
    <3> DEFINE x == amm.lc - out
               y == amm.hbd + n
    <3>1. x \in Nat /\ y \in Nat
      BY <1>4
    <3> HIDE DEF x, y
    <3>2. x * y = y * x
      BY <3>1
    <3> QED BY <3>2 DEF x, y
  <2> QED BY <1>5, <2>1, <2>2
<1>7. (amm.lc - out) * (amm.hbd + n) * amm.shares * amm.shares
        >= amm.lc * amm.hbd * amm.shares * amm.shares
  BY <1>2, <1>4, <1>6, SameShares
<1>8. ShareValueNeverFalls
  BY <1>3, <1>7 DEF ShareValueNeverFalls
<1> QED BY <1>1, <1>8, SameTable DEF Fair

\* A deposit pays the price of its shares in both assets.
LEMMA AddFair ==
  ASSUME PoolInv, NEW day \in Walks, NEW a \in Accounts,
         NEW n \in LcAmounts, NEW h \in HbdAmounts, AddLiquidity(a, n, h, day)
  PROVE  Fair
<1> DEFINE hbdIn  == HbdFor(n, h)
           shares == LPSharesFor(n, amm.lc, amm.shares)
           weight == TrancheWeight(shares, 0)
           pool   == pool_liq + LiquidityEmission(acc_day, day)
           m      == SyncPoolAccumulator(amm, pool)
           t      == [shares |-> shares, start |-> height, weight |-> weight,
                      closed |-> FALSE, accStart |-> m.acc, lastTouch |-> height]
<1>1. /\ hbdIn \in 1 .. h
      /\ amm' = [m EXCEPT !.lc = @ + n, !.hbd = @ + hbdIn,
                          !.shares = @ + shares, !.weight = @ + weight]
      /\ lp' = Enlarge(lp, a, t)
  BY DEF AddLiquidity, MayAdd, Enlarge
<1>2. m \in Amm /\ m.lc = amm.lc /\ m.hbd = amm.hbd /\ m.shares = amm.shares
  BY WalkSound
<1>3. /\ amm.lc \in Nat /\ amm.hbd \in Nat /\ amm.shares \in Nat /\ n \in Nat /\ h \in Nat
      /\ height \in Nat /\ lp \in [Accounts -> Seq(Tranche)]
  BY StateFields, ConstantTypes
<1>4. shares \in Nat /\ weight \in Nat
  BY <1>3, SharesNat, WeightNat
<1>5. t \in Tranche /\ ~ t.closed
  <2> HIDE DEF shares, weight, m
  <2>1. m.acc \in Nat
    BY <1>2 DEF Amm
  <2> QED BY <1>3, <1>4, <2>1 DEF Tranche
<1> HIDE DEF m, t, weight
<1>6. OnlyTheOwnerIsPaid
  <2>1. OpenOf(lp) \subseteq OpenOf(Enlarge(lp, a, t))
    BY <1>3, <1>5, OpenChanges
  <2>2. Open = OpenOf(lp) /\ Open' = OpenOf(Enlarge(lp, a, t))
    BY <1>1 DEF Open, OpenOf
  <2> QED BY <2>1, <2>2, NothingCloses
<1> HIDE DEF hbdIn, shares
<1>7. amm'.lc = amm.lc + n /\ amm'.hbd = amm.hbd + hbdIn /\ amm'.shares = amm.shares + shares
  BY <1>1, <1>2 DEF Amm
<1> DEFINE L == amm.lc
           H == amm.hbd
           S == amm.shares
<1>8. ShareValueNeverFalls
  <2> SUFFICES ASSUME S > 0
               PROVE  (L + n) * (H + hbdIn) * S * S >= L * H * (S + shares) * (S + shares)
    BY <1>7 DEF ShareValueNeverFalls
  <2>1. hbdIn \in Nat /\ L + n \in Nat /\ H + hbdIn \in Nat /\ S + shares \in Nat
    <3>1. hbdIn \in 1 .. h
      BY <1>1
    <3> QED BY <1>3, <1>4, <3>1, SMTT(60)
  <2>2. CASE L = 0 \/ H = 0
    <3>1. L * H = 0
      BY <1>3, <2>2
    <3>2. L * H * (S + shares) * (S + shares) = 0
      BY <1>3, <2>1, <3>1
    <3>3. (L + n) * (H + hbdIn) * S * S \in Nat
      BY <1>3, <2>1, ProductNat
    <3> QED BY <3>2, <3>3
  <2>3. CASE L # 0 /\ H # 0
    <3>1. L \in Nat \ {0} /\ H \in Nat \ {0} /\ S \in Nat \ {0}
      BY <1>3, <2>3
    <3>2. hbdIn = HbdRequiredFor(n, L, H)
      BY <3>1 DEF hbdIn, HbdFor, IsFirstDeposit
    <3>3. H * n <= L * hbdIn
      BY <1>3, <3>1, <3>2, HbdAtPrice
    <3>4. shares = MulDiv(S, n, L)
      BY <3>1 DEF shares, LPSharesFor
    <3>5. L * shares <= S * n
      BY <1>3, <3>1, <3>4, MulDivBounds
    <3> HIDE DEF L, H, S
    <3>6. L * (S + shares) <= (L + n) * S /\ H * (S + shares) <= (H + hbdIn) * S
      BY <1>3, <1>4, <2>1, <3>1, <3>3, <3>5, DepositKeepsValue
    <3> QED BY <2>1, <3>1, <3>6, BothPerShare
  <2> QED BY <2>2, <2>3
<1> QED BY <1>6, <1>8 DEF Fair

\* A claim rewrites one open tranche and moves no reserve.
LEMMA ClaimFair ==
  ASSUME PoolInv, NEW day \in Walks, NEW a \in Accounts, NEW id \in DOMAIN lp[a],
         ClaimPoolRewards(a, id, day)
  PROVE  Fair
<1> DEFINE pool == pool_liq + LiquidityEmission(acc_day, day)
           m    == SyncPoolAccumulator(amm, pool)
           s    == SettleTranche(a, id, day)
           t    == [s.t EXCEPT !.lastTouch = height]
<1>1. ~ lp[a][id].closed /\ amm' = s.amm /\ lp' = Rewrite(lp, a, id, t)
  BY DEF ClaimPoolRewards, Rewrite
<1>2. m.lc = amm.lc /\ m.hbd = amm.hbd /\ m.shares = amm.shares
  BY WalkSound
<1>3. /\ <<a, id>> \in OpenOf(lp) /\ s.t \in Tranche /\ ~ s.t.closed
      /\ s.amm.lc = m.lc /\ s.amm.hbd = m.hbd /\ s.amm.shares = m.shares
  BY <1>1, SettleSound
<1> HIDE DEF pool, m, s
<1>4. height \in Nat /\ lp \in [Accounts -> Seq(Tranche)]
  BY StateFields
<1>5. t \in Tranche /\ ~ t.closed
  BY <1>3, <1>4 DEF Tranche
<1> HIDE DEF t
<1>6. OpenOf(Rewrite(lp, a, id, t)) = OpenOf(lp)
  <2>1. OpenOf(Rewrite(lp, a, id, t)) =
          IF t.closed THEN OpenOf(lp) \ {<<a, id>>} ELSE OpenOf(lp)
    BY <1>3, <1>4, <1>5, TableUpdate, SMTT(60)
  <2> QED BY <1>5, <2>1
<1>7. Open' = Open
  BY <1>1, <1>6 DEF Open, OpenOf
<1>8. amm'.lc = amm.lc /\ amm'.hbd = amm.hbd /\ amm'.shares = amm.shares
  BY <1>1, <1>2, <1>3
<1>9. ShareValueNeverFalls
  BY <1>8, SameReserves
<1> QED BY <1>7, <1>9, NothingCloses DEF Fair

\* A withdrawal takes the part of its shares, and its owner alone is paid.
LEMMA DissolveFair ==
  ASSUME PoolInv, NEW day \in Walks, NEW a \in Accounts, NEW id \in DOMAIN lp[a],
         Dissolve(a, id, a, day)
  PROVE  Fair
<1> DEFINE pool == pool_liq + LiquidityEmission(acc_day, day)
           m    == SyncPoolAccumulator(amm, pool)
           s    == SettleTranche(a, id, day)
           lcOut  == MulDiv(amm.lc, s.t.shares, amm.shares)
           hbdOut == LeavesDust(MulDiv(amm.hbd, s.t.shares, amm.shares))
           n    == [s.amm EXCEPT !.lc = @ - lcOut, !.hbd = @ - hbdOut,
                                 !.shares = @ - s.t.shares, !.weight = @ - s.t.weight]
           t    == [s.t EXCEPT !.closed = TRUE, !.weight = 0]
           v    == bal[a] + lcOut + s.owed
           w    == hbd[a] + Paid(hbdOut)
<1>1. /\ ~ lp[a][id].closed
      /\ CanWithdraw(s.t)
      /\ amm' = n
      /\ hbd' = [hbd EXCEPT ![a] = w]
      /\ bal' = [bal EXCEPT ![a] = v]
      /\ lp' = Rewrite(lp, a, id, t)
  BY DEF Dissolve, Rewrite
<1>2. m.lc = amm.lc /\ m.hbd = amm.hbd /\ m.shares = amm.shares
  BY WalkSound
<1>3. /\ <<a, id>> \in OpenOf(lp) /\ s.t \in Tranche
      /\ s.amm \in Amm /\ s.amm.lc = m.lc /\ s.amm.hbd = m.hbd /\ s.amm.shares = m.shares
  BY <1>1, SettleSound
<1>4. /\ amm.lc \in Nat /\ amm.hbd \in Nat /\ amm.shares \in Nat
      /\ bal \in [Accounts -> Nat] /\ hbd \in [Accounts -> Nat]
      /\ lp \in [Accounts -> Seq(Tranche)]
  BY StateFields
<1>5. s.t.shares \in 1 .. amm.shares
  BY <1>1 DEF CanWithdraw
<1>6. /\ lcOut \in 0 .. amm.lc /\ hbdOut \in 0 .. amm.hbd
      /\ amm.shares * lcOut <= amm.lc * s.t.shares
      /\ amm.shares * hbdOut <= amm.hbd * s.t.shares
  BY <1>4, <1>5, WithdrawalFits
<1> HIDE DEF pool, m, s, lcOut, hbdOut, v, w
<1>7. n.lc = amm.lc - lcOut /\ n.hbd = amm.hbd - hbdOut /\ n.shares = amm.shares - s.t.shares
  BY <1>2, <1>3 DEF Amm
<1>8. t \in Tranche /\ t.closed
  BY <1>3 DEF Tranche
<1> HIDE DEF t, n
<1>9. OpenOf(Rewrite(lp, a, id, t)) = OpenOf(lp) \ {<<a, id>>}
  <2>1. OpenOf(Rewrite(lp, a, id, t)) =
          IF t.closed THEN OpenOf(lp) \ {<<a, id>>} ELSE OpenOf(lp)
    <3>1. <<a, id>> \in OpenOf(lp) /\ lp \in [Accounts -> Seq(Tranche)] /\ t \in Tranche
      BY <1>3, <1>4, <1>8
    <3> QED BY <3>1, OpenChanges, Zenon
  <2> QED BY <1>8, <2>1
<1>10. Open' = Open \ {<<a, id>>}
  BY <1>1, <1>9 DEF Open, OpenOf
<1>11. OnlyTheOwnerIsPaid
  <2> SUFFICES ASSUME NEW k \in Open, k \notin Open', NEW b \in Accounts \ {k[1]}
               PROVE  bal'[b] <= bal[b] /\ hbd'[b] <= hbd[b]
    BY DEF OnlyTheOwnerIsPaid
  <2>1. k = <<a, id>>
    BY <1>10
  <2>2. b # a
    BY <2>1
  <2>3. bal'[b] = bal[b] /\ hbd'[b] = hbd[b] /\ bal[b] \in Nat /\ hbd[b] \in Nat
    BY <1>1, <1>4, <2>2
  <2> QED BY <2>3
<1>12. ShareValueNeverFalls
  <2> DEFINE L == amm.lc
             H == amm.hbd
             S == amm.shares
             x == s.t.shares
  <2>1. /\ L \in Nat /\ H \in Nat /\ S \in Nat /\ x \in 1 .. S
        /\ lcOut \in 0 .. L /\ hbdOut \in 0 .. H /\ S * lcOut <= L * x /\ S * hbdOut <= H * x
    BY <1>4, <1>5, <1>6
  <2>2. amm'.lc = L - lcOut /\ amm'.hbd = H - hbdOut /\ amm'.shares = S - x
    BY <1>1, <1>7
  <2> SUFFICES (L - lcOut) * (H - hbdOut) * S * S >= L * H * (S - x) * (S - x)
    BY <2>2 DEF ShareValueNeverFalls
  <2> HIDE DEF L, H, S, x
  <2>3. L * (S - x) <= (L - lcOut) * S /\ H * (S - x) <= (H - hbdOut) * S
    BY <2>1, WithdrawalKeepsValue
  <2>4. L - lcOut \in Nat /\ H - hbdOut \in Nat /\ S - x \in Nat
    BY <2>1
  <2> QED BY <2>1, <2>3, <2>4, BothPerShare
<1> QED BY <1>11, <1>12 DEF Fair

LEMMA StepFair == PoolInv /\ [Next]_vars => [Fair]_vars
<1> SUFFICES ASSUME PoolInv, Next PROVE Fair
  OBVIOUS
<1>1. ASSUME lp' = lp, amm' = amm PROVE Fair
  BY <1>1, SameTable, SameReserves DEF Fair
<1>2. CASE Tick
  BY <1>1, <1>2 DEF Tick
<1>3. ASSUME NEW day \in Walks, Settle(day) PROVE Fair
  BY <1>1, <1>3 DEF Settle
<1>4. ASSUME NEW day \in Walks, NEW a \in Accounts, NEW n \in LcAmounts, NEW h \in HbdAmounts,
             AddLiquidity(a, n, h, day)
      PROVE  Fair
  BY <1>4, AddFair
<1>5. ASSUME NEW day \in Walks, NEW a \in Accounts, NEW id \in DOMAIN lp[a],
             ClaimPoolRewards(a, id, day)
      PROVE  Fair
  BY <1>5, ClaimFair
<1>6. ASSUME NEW day \in Walks, NEW a \in Accounts, NEW id \in DOMAIN lp[a], NEW c \in Accounts,
             RemoveLiquidity(a, id, day) \/ SweepTranche(c, a, id, day)
      PROVE  Fair
  <2>1. Dissolve(a, id, a, day)
    BY <1>6, CloserIsNoMatter
  <2> QED BY <2>1, DissolveFair
<1>7. ASSUME NEW a \in Accounts, NEW n \in Gifts, FundLiquidity(a, n) PROVE Fair
  BY <1>1, <1>7 DEF FundLiquidity
<1>8. ASSUME NEW a \in Accounts, NEW n \in LcAmounts, SwapLCForHBD(a, n) PROVE Fair
  BY <1>8, SellFair
<1>9. ASSUME NEW a \in Accounts, NEW n \in HbdAmounts, SwapHBDForLC(a, n) PROVE Fair
  BY <1>9, BuyFair
<1> QED BY <1>2, <1>3, <1>4, <1>5, <1>6, <1>7, <1>8, <1>9, Zenon DEF Next

-----------------------------------------------------------------------------
(* The theorems.                                                           *)

\* Every reachable state of the pool has the inductive invariant.
THEOREM PoolInvariant == Spec => []PoolInv
<1>1. Init => PoolInv
  BY InitSound
<1>2. PoolInv /\ [Next]_vars => PoolInv'
  BY PoolStep
<1> QED BY <1>1, <1>2, PTL DEF Spec

\* The totals rewards are divided by are those of the open tranches, and what
\* all of them have earned is in the reward pool, so that settleTranche never
\* overdraws it (syncPoolAccumulator, settleTranche).
THEOREM RewardsStaySound == Spec => []RewardsAreSound
<1>1. PoolInv => RewardsAreSound
  BY TotalsFollow, RewardsFollow DEF RewardsAreSound, PoolInv
<1> QED BY <1>1, PoolInvariant, PTL

\* No call creates, loses or locks up either asset: custody covers the booked
\* reserve, LASSECASH is conserved and every owner can withdraw (pool.go).
THEOREM PoolConserves == Spec => []NothingIsLostOrStuck
<1>1. PoolInv => NothingIsLostOrStuck
  BY OwnersCanLeave DEF NothingIsLostOrStuck, PoolInv
<1> QED BY <1>1, PoolInvariant, PTL

\* A share never loses value to a call of another, and whoever closes a
\* tranche, its owner alone is paid (AddLiquidity, Swap, closeTranche).
THEOREM OthersDoNoHarm == Spec => OthersCannotHarm
<1>1. PoolInv /\ [Next]_vars => [Fair]_vars
  BY StepFair
<1>2. [Fair]_vars <=> [ShareValueNeverFalls /\ OnlyTheOwnerIsPaid]_vars
  BY DEF Fair
<1> QED BY <1>1, <1>2, PoolInvariant, PTL DEF Spec, OthersCannotHarm

\* The pool whose past the site and the market endpoints tell is this pool:
\* recording adds no behaviour (client.ts, market.ts).
THEOREM HistoryIsOfThePool == HistorySpec => Spec
<1>1. HistoryInit => Init
  BY DEF HistoryInit
<1>2. [HistoryNext]_<<vars, replays>> => [Next]_vars
  <2>1. HistoryNext => Next
    BY Zenon DEF HistoryNext, Next
  <2> QED BY <2>1
<1> QED BY <1>1, <1>2, PTL DEF HistorySpec, Spec

-----------------------------------------------------------------------------
(* The pool page.                                                          *)

\* A larger part of the same, a quotient no smaller.
LEMMA MulDivRises ==
  ASSUME NEW a \in Nat, NEW b \in Nat, NEW c \in Nat, b <= c, NEW d \in Nat \ {0}
  PROVE  MulDiv(a, b, d) <= MulDiv(a, c, d)
<1>1. MulDiv(b, a, d) <= MulDiv(c, a, d)
  BY MulDivMono
<1>2. a * b = b * a /\ a * c = c * a
  OBVIOUS
<1> QED BY <1>1, <1>2 DEF MulDiv

\* More LASSECASH never needs less HBD (HbdRequiredFor).
LEMMA HbdMono ==
  ASSUME NEW L \in Nat \ {0}, NEW H \in Nat \ {0}, NEW n \in Nat, NEW m \in Nat, n <= m
  PROVE  /\ HbdRequiredFor(n, L, H) \in Nat
         /\ HbdRequiredFor(n, L, H) <= HbdRequiredFor(m, L, H)
<1> DEFINE p == MulDiv(H, n, L)
           q == MulDiv(H, m, L)
           x == MulDiv(p, L, H)
           y == MulDiv(q, L, H)
<1>1. p \in Nat /\ q \in Nat
  BY MulDivBounds
<1>6. p <= q
  BY MulDivRises
<1>2. /\ HbdRequiredFor(n, L, H) = IF x < n THEN p + 1 ELSE p
      /\ HbdRequiredFor(m, L, H) = IF y < m THEN q + 1 ELSE q
  BY DEF HbdRequiredFor
<1> HIDE DEF p, q
<1>3. x \in Nat /\ y \in Nat /\ (p = q => x = y)
  BY <1>1, MulDivBounds
<1> HIDE DEF x, y
<1>4. CASE p = q
  BY <1>1, <1>2, <1>3, <1>4
<1>5. CASE p # q
  BY <1>1, <1>2, <1>5, <1>6
<1> QED BY <1>4, <1>5

\* Reserves that can quote a price: no field is zero.
Live == [lc : Nat \ {0}, hbd : Nat \ {0}, shares : Nat \ {0}]

LEMMA QuoteOfLive ==
  ASSUME NEW r \in Live, NEW n \in Nat
  PROVE  LET q == LiquidityQuote(n, r)
         IN  /\ ~ q.first
             /\ q.ok <=> n > 0 /\ MulDiv(r.shares, n, r.lc) > 0
             /\ q.hbd = (IF n > 0 THEN HbdRequiredFor(n, r.lc, r.hbd) ELSE 0)
             /\ q.shares = MulDiv(r.shares, n, r.lc)
             /\ q.hbd \in Nat /\ q.shares \in Nat /\ q.ok \in BOOLEAN
<1>1. /\ r.lc \in Nat \ {0} /\ r.hbd \in Nat \ {0} /\ r.shares \in Nat \ {0}
      /\ 0 \notin {r.shares, r.lc, r.hbd}
  BY DEF Live
<1>2. LPSharesFor(n, r.lc, r.shares) = MulDiv(r.shares, n, r.lc)
  BY <1>1 DEF LPSharesFor
<1>3. MulDiv(r.shares, n, r.lc) \in Nat /\ HbdRequiredFor(n, r.lc, r.hbd) \in Nat
  <2>1. r.shares \in Nat /\ n <= n
    BY <1>1
  <2>2. MulDiv(r.shares, n, r.lc) \in Nat
    BY <1>1, <2>1, MulDivBounds
  <2>3. HbdRequiredFor(n, r.lc, r.hbd) \in Nat
    BY <1>1, <2>1, HbdMono
  <2> QED BY <2>2, <2>3
<1> QED BY <1>1, <1>2, <1>3 DEF LiquidityQuote

\* What fits, fits as well when it is less.
LEMMA FitsDown ==
  ASSUME NEW r \in Live, NEW target \in Nat, NEW n \in Nat, NEW m \in Nat, n <= m,
         Fits(m, target, r)
  PROVE  Fits(n, target, r)
<1>1. CASE n = 0
  BY <1>1 DEF Fits
<1>2. CASE n > 0
  <2>1. r.lc \in Nat \ {0} /\ r.hbd \in Nat \ {0} /\ r.shares \in Nat
    BY DEF Live
  <2>2. /\ HbdRequiredFor(n, r.lc, r.hbd) \in Nat
        /\ HbdRequiredFor(m, r.lc, r.hbd) \in Nat
        /\ HbdRequiredFor(n, r.lc, r.hbd) <= HbdRequiredFor(m, r.lc, r.hbd)
    <3>1. m <= m
      OBVIOUS
    <3>2. HbdRequiredFor(m, r.lc, r.hbd) \in Nat
      BY <2>1, <3>1, HbdMono
    <3>3. HbdRequiredFor(n, r.lc, r.hbd) \in Nat /\ HbdRequiredFor(n, r.lc, r.hbd) <= HbdRequiredFor(m, r.lc, r.hbd)
      BY <2>1, HbdMono
    <3> QED BY <3>2, <3>3
  <2>3. /\ MulDiv(r.shares, n, r.lc) <= MulDiv(r.shares, m, r.lc)
        /\ MulDiv(r.shares, n, r.lc) \in Nat /\ MulDiv(r.shares, m, r.lc) \in Nat
    <3>1. MulDiv(r.shares, n, r.lc) <= MulDiv(r.shares, m, r.lc)
      BY <2>1, MulDivRises
    <3>2. MulDiv(r.shares, n, r.lc) \in Nat /\ MulDiv(r.shares, m, r.lc) \in Nat
      BY <2>1, MulDivBounds
    <3> QED BY <3>1, <3>2
  <2>4. /\ LiquidityQuote(n, r).ok => LiquidityQuote(m, r).ok
        /\ LiquidityQuote(n, r).hbd <= LiquidityQuote(m, r).hbd
        /\ LiquidityQuote(m, r).hbd \in Nat /\ LiquidityQuote(n, r).hbd \in Nat
        /\ ~ LiquidityQuote(m, r).first
    <3>1. /\ LiquidityQuote(n, r).hbd = HbdRequiredFor(n, r.lc, r.hbd)
          /\ LiquidityQuote(m, r).hbd = HbdRequiredFor(m, r.lc, r.hbd)
          /\ LiquidityQuote(n, r).ok <=> MulDiv(r.shares, n, r.lc) > 0
          /\ LiquidityQuote(m, r).ok <=> MulDiv(r.shares, m, r.lc) > 0
          /\ ~ LiquidityQuote(m, r).first
      BY <1>2, QuoteOfLive
    <3> QED BY <2>2, <2>3, <3>1
  <2> QED BY <1>2, <2>4 DEF Fits
<1> QED BY <1>1, <1>2

\* Powers of two.
Twos(i) == Iterate(Doubling, 1, i)

LEMMA TwosAre ==
  /\ Twos(0) = 1
  /\ \A i \in Nat : Twos(i) \in Nat \ {0} /\ Twos(i + 1) = 2 * Twos(i)
<1> DEFINE X == Nat \ {0}
<1>1. 1 \in X /\ \A y \in X : Doubling[y] \in X
  BY DEF Doubling
<1>2. /\ Iterate(Doubling, 1, 0) = 1
      /\ \A n \in Nat : Iterate(Doubling, 1, n + 1) = Doubling[Iterate(Doubling, 1, n)]
      /\ \A n \in Nat : Iterate(Doubling, 1, n) \in X
  <2> HIDE DEF X
  <2> QED BY <1>1, IterateLoop
<1> QED BY <1>2 DEF Twos, Doubling

\* The first search ends below its reach with an amount that does not fit,
\* or at its reach.
LEMMA UpwardEnds ==
  ASSUME NEW r, NEW target
  PROVE  LET top == Iterate([n \in Nat |-> IF Fits(n, target, r) THEN 2 * n ELSE n], 1, SearchSteps)
         IN  top \in 1 .. Reach /\ (top = Reach \/ ~ Fits(top, target, r))
<1> DEFINE double == [n \in Nat |-> IF Fits(n, target, r) THEN 2 * n ELSE n]
           X == Nat \ {0}
           up(i) == Iterate(double, 1, i)
<1>1. 1 \in X /\ \A y \in X : double[y] \in X
  OBVIOUS
<1>2. \A y \in X : double[y] = IF Fits(y, target, r) THEN 2 * y ELSE y
  OBVIOUS
<1> HIDE DEF double, X
<1>3. /\ up(0) = 1
      /\ \A n \in Nat : up(n + 1) = double[up(n)]
      /\ \A n \in Nat : up(n) \in X
  BY <1>1, IterateLoop
<1> HIDE DEF up
<1> DEFINE I == {i \in Nat : up(i) <= Twos(i) /\ (up(i) = Twos(i) \/ ~ Fits(up(i), target, r))}
<1>4. 0 \in I
  BY <1>3, TwosAre
<1>5. ASSUME NEW i \in I PROVE i + 1 \in I
  <2>1. i \in Nat /\ up(i) <= Twos(i) /\ (up(i) = Twos(i) \/ ~ Fits(up(i), target, r))
    OBVIOUS
  <2>2. up(i) \in X /\ up(i + 1) = IF Fits(up(i), target, r) THEN 2 * up(i) ELSE up(i)
    BY <1>2, <1>3, <2>1
  <2>3. Twos(i) \in Nat \ {0} /\ Twos(i + 1) = 2 * Twos(i)
    BY <2>1, TwosAre
  <2>4. CASE Fits(up(i), target, r)
    BY <2>1, <2>2, <2>3, <2>4
  <2>5. CASE ~ Fits(up(i), target, r)
    <3>1. up(i + 1) = up(i) /\ up(i) \in Nat
      BY <2>2, <2>5 DEF X
    <3>2. up(i + 1) <= Twos(i + 1)
      BY <2>1, <2>3, <3>1
    <3> QED BY <2>1, <2>5, <3>1, <3>2
  <2> QED BY <2>4, <2>5
<1>6. I \subseteq Nat
  OBVIOUS
<1>7. SearchSteps \in I
  <2> HIDE DEF I
  <2>1. I = Nat
    BY <1>4, <1>5, <1>6, SetInduction
  <2> QED BY <2>1, PoolPageAssumption
<1>8. Reach = Twos(SearchSteps) /\ Reach \in Nat
  BY TwosAre, PoolPageAssumption DEF Reach, Twos
<1>9. up(SearchSteps) \in X
  BY <1>3, PoolPageAssumption
<1>10. up(SearchSteps) \in 1 .. Reach /\ (up(SearchSteps) = Reach \/ ~ Fits(up(SearchSteps), target, r))
  BY <1>7, <1>8, <1>9 DEF X
<1> QED BY <1>10 DEF up, double

\* What the second search keeps: its lower end fits, its upper end is out of
\* reach or does not.
Bracketed(target, r) ==
  {s \in Interval : /\ s.lo < s.hi /\ s.hi <= Reach /\ Fits(s.lo, target, r)
                    /\ s.hi = Reach \/ ~ Fits(s.hi, target, r)}

Halved(s, target, r) ==
  LET mid == (s.lo + s.hi) \div 2
  IN  IF s.hi - s.lo <= 1 THEN s
      ELSE IF Fits(mid, target, r) THEN [s EXCEPT !.lo = mid] ELSE [s EXCEPT !.hi = mid]

LEMMA HalvingKeeps ==
  ASSUME NEW r, NEW target, NEW s \in Bracketed(target, r)
  PROVE  /\ Halved(s, target, r) \in Bracketed(target, r)
         /\ \A w \in Nat \ {0} : s.hi - s.lo <= 2 * w =>
              Halved(s, target, r).hi - Halved(s, target, r).lo <= w
<1> DEFINE mid == (s.lo + s.hi) \div 2
           h == Halved(s, target, r)
<1>1. /\ s \in Interval /\ s.lo \in Nat /\ s.hi \in Nat /\ s.lo < s.hi /\ s.hi <= Reach
      /\ Fits(s.lo, target, r) /\ (s.hi = Reach \/ ~ Fits(s.hi, target, r)) /\ Reach \in Nat
  BY TwosAre, PoolPageAssumption DEF Bracketed, Interval, Reach, Twos
<1>2. mid \in Nat /\ 2 * mid <= s.lo + s.hi /\ s.lo + s.hi <= 2 * mid + 1
  <2> DEFINE x == s.lo + s.hi
  <2>1. x \in Nat /\ mid = x \div 2
    BY <1>1
  <2> HIDE DEF x, mid
  <2>2. x \div 2 \in Nat /\ x % 2 \in 0 .. 1 /\ x = 2 * (x \div 2) + (x % 2)
    BY <2>1, DivMod
  <2>3. mid \in Nat /\ 2 * mid <= x /\ x <= 2 * mid + 1
    BY <2>1, <2>2
  <2> QED BY <2>3 DEF x
<1> HIDE DEF mid
<1>3. CASE s.hi - s.lo <= 1
  <2>1. h = s
    BY <1>3 DEF Halved
  <2> QED BY <1>1, <1>3, <2>1
<1>4. CASE s.hi - s.lo > 1 /\ Fits(mid, target, r)
  <2>1. h = [s EXCEPT !.lo = mid]
    BY <1>1, <1>4 DEF Halved, mid
  <2>2. h \in Interval /\ h.lo = mid /\ h.hi = s.hi
    BY <1>1, <1>2, <2>1 DEF Interval
  <2> HIDE DEF h
  <2>3. mid < s.hi
    BY <1>1, <1>2, <1>4
  <2>4. h \in Bracketed(target, r)
    BY <1>1, <1>4, <2>2, <2>3 DEF Bracketed
  <2>5. \A w \in Nat \ {0} : s.hi - s.lo <= 2 * w => h.hi - h.lo <= w
    BY <1>1, <1>2, <2>2
  <2> QED BY <2>4, <2>5 DEF h
<1>5. CASE s.hi - s.lo > 1 /\ ~ Fits(mid, target, r)
  <2>1. h = [s EXCEPT !.hi = mid]
    BY <1>1, <1>5 DEF Halved, mid
  <2>2. h \in Interval /\ h.lo = s.lo /\ h.hi = mid
    BY <1>1, <1>2, <2>1 DEF Interval
  <2> HIDE DEF h
  <2>3. s.lo < mid /\ mid <= Reach
    BY <1>1, <1>2, <1>5
  <2>4. h \in Bracketed(target, r)
    BY <1>1, <1>5, <2>2, <2>3 DEF Bracketed
  <2>5. \A w \in Nat \ {0} : s.hi - s.lo <= 2 * w => h.hi - h.lo <= w
    BY <1>1, <1>2, <2>2
  <2> QED BY <2>4, <2>5 DEF h
<1> QED BY <1>1, <1>3, <1>4, <1>5

\* The two searches find the largest amount within reach whose HBD fits
\* (reverseLcForHbd).
LEMMA SearchFinds ==
  ASSUME NEW r \in Live, NEW target \in Nat \ {0}
  PROVE  LET n == ReverseLcForHbd(target, r)
         IN  /\ n \in Nat /\ Fits(n, target, r)
             /\ \A m \in Nat : Fits(m, target, r) /\ m < Reach => m <= n
<1> DEFINE double == [n \in Nat |-> IF Fits(n, target, r) THEN 2 * n ELSE n]
           top   == Iterate(double, 1, SearchSteps)
           halve == [s \in Interval |-> Halved(s, target, r)]
           first == [lo |-> 0, hi |-> top]
           X     == Bracketed(target, r)
           at(i) == Iterate(halve, first, i)
           S     == SearchSteps
<1>1. ReverseLcForHbd(target, r) = at(S).lo
  BY DEF ReverseLcForHbd, Halved
<1>2. S \in Nat /\ Reach \in Nat /\ Reach = Twos(S) /\ Twos(0) = 1
  BY TwosAre, PoolPageAssumption DEF Reach, Twos
<1>3. top \in 1 .. Reach /\ (top = Reach \/ ~ Fits(top, target, r))
  BY UpwardEnds
<1> HIDE DEF top
<1>4. first \in X
  <2>1. Fits(0, target, r)
    BY DEF Fits
  <2> QED BY <1>2, <1>3, <2>1 DEF Bracketed, Interval
<1>5. \A s \in X : halve[s] = Halved(s, target, r)
  BY DEF Bracketed
<1>6. \A s \in X : halve[s] \in X
  BY <1>5, HalvingKeeps
<1>7. first.lo = 0 /\ first.hi = top
  OBVIOUS
<1> HIDE DEF halve, X, first, S
<1>8. /\ at(0) = first
      /\ \A i \in Nat : at(i + 1) = halve[at(i)]
      /\ \A i \in Nat : at(i) \in X
  BY <1>4, <1>6, IterateLoop
<1> HIDE DEF at
<1>9. \A s \in X : /\ s.lo \in Nat /\ s.hi \in Nat /\ s.lo < s.hi
                   /\ Fits(s.lo, target, r) /\ (s.hi = Reach \/ ~ Fits(s.hi, target, r))
  BY DEF X, Bracketed, Interval
<1> DEFINE I == {i \in Nat : i <= S => at(i).hi - at(i).lo <= Twos(S - i)}
<1>10. 0 \in I
  BY <1>2, <1>3, <1>7, <1>8
<1>11. ASSUME NEW i \in I PROVE i + 1 \in I
  <2>1. i \in Nat /\ (i <= S => at(i).hi - at(i).lo <= Twos(S - i))
    OBVIOUS
  <2>2. CASE i + 1 <= S
    <3>1. S - (i + 1) \in Nat /\ S - i = (S - (i + 1)) + 1 /\ i <= S
      BY <1>2, <2>1, <2>2
    <3> DEFINE w == Twos(S - (i + 1))
    <3>2. w \in Nat \ {0} /\ Twos(S - i) = 2 * w
      BY <3>1, TwosAre
    <3>3. at(i) \in X /\ at(i + 1) = Halved(at(i), target, r)
      BY <1>5, <1>8, <2>1
    <3>4. at(i).hi - at(i).lo <= 2 * w
      BY <2>1, <3>1, <3>2
    <3> HIDE DEF w
    <3>5. at(i + 1).hi - at(i + 1).lo <= w
      BY <3>2, <3>3, <3>4, HalvingKeeps DEF X
    <3> QED BY <2>1, <3>5 DEF w
  <2>3. CASE ~ (i + 1 <= S)
    BY <2>1, <2>3
  <2> QED BY <2>2, <2>3
<1>12. I \subseteq Nat
  OBVIOUS
<1>13. at(S).hi - at(S).lo <= 1
  <2>1. S \in I
    <3> HIDE DEF I
    <3>1. I = Nat
      BY <1>10, <1>11, <1>12, SetInduction
    <3> QED BY <1>2, <3>1
  <2>2. S - S = 0 /\ S <= S
    BY <1>2
  <2> QED BY <1>2, <2>1, <2>2
<1> HIDE DEF I
<1>14. at(S) \in X
  BY <1>2, <1>8
<1> DEFINE lo == at(S).lo
           hi == at(S).hi
<1>15. /\ lo \in Nat /\ hi \in Nat /\ hi = lo + 1
       /\ Fits(lo, target, r) /\ (hi = Reach \/ ~ Fits(hi, target, r))
  BY <1>9, <1>13, <1>14
<1> HIDE DEF lo, hi
<1>16. ASSUME NEW m \in Nat, Fits(m, target, r), m < Reach PROVE m <= lo
  <2>1. SUFFICES ASSUME hi <= m PROVE FALSE
    BY <1>15
  <2>2. Fits(hi, target, r)
    BY <1>15, <1>16, <2>1, FitsDown
  <2> QED BY <1>2, <1>15, <1>16, <2>1, <2>2
<1> QED BY <1>1, <1>15, <1>16 DEF lo, S

-----------------------------------------------------------------------------
(* What the page relies on, as an invariant: both reserves are there when  *)
(* shares are, and accounts hold whole milli-HBD.                          *)

PageInv ==
  /\ amm.shares = 0 <=> amm.lc = 0
  /\ amm.lc > 0 => amm.hbd > 0
  /\ \A a \in Accounts : hbd[a] % HbdUnitsPerMilli = 0

\* Draws and payments are whole milli-HBD, and whole milli-HBD stay whole.
LEMMA WholeMoves ==
  ASSUME NEW h \in Nat, h % HbdUnitsPerMilli = 0, NEW u \in Nat
  PROVE  /\ (h + Paid(u)) % HbdUnitsPerMilli = 0
         /\ h >= Drawn(u) => (h - Drawn(u)) % HbdUnitsPerMilli = 0
         /\ u <= h => Drawn(u) <= h
<1> DEFINE d == HbdUnitsPerMilli
           x == u + d - 1
           p == x \div d
           q == u \div d
           k == h \div d
<1>1. d \in Nat \ {0} /\ x \in Nat
  BY ConstantTypes
<1>2. Drawn(u) = p * d /\ Paid(u) = q * d
  BY DEF Drawn, Paid, Ceil
<1> HIDE DEF d
<1>3. /\ p \in Nat /\ x % d \in 0 .. d - 1 /\ x = d * p + (x % d)
      /\ q \in Nat /\ k \in Nat /\ h = d * k
  <2>1. /\ p \in Nat /\ x % d \in 0 .. d - 1 /\ x = d * p + (x % d)
        /\ q \in Nat /\ k \in Nat /\ h = d * k + (h % d)
    BY <1>1, DivMod
  <2> QED BY <1>1, <2>1 DEF d
<1> HIDE DEF p, q, k
<1>4. (h + Paid(u)) % d = 0
  <2>1. h + Paid(u) = d * (k + q) + 0
    BY <1>1, <1>2, <1>3
  <2>2. h + Paid(u) \in Nat /\ k + q \in Nat /\ 0 \in 0 .. d - 1
    BY <1>1, <1>3, <2>1, ProductNat
  <2> QED BY <1>1, <2>1, <2>2, QuotientIs
<1>5. ASSUME h >= Drawn(u) PROVE (h - Drawn(u)) % d = 0
  <2>1. p <= k
    <3>1. SUFFICES ASSUME k + 1 <= p PROVE FALSE
      BY <1>3
    <3>2. d * (k + 1) <= d * p
      BY <1>1, <1>3, <3>1, ProductMono
    <3>3. d * (k + 1) = d * k + d /\ d * p = p * d /\ d * k \in Nat /\ d * p \in Nat
      BY <1>1, <1>3, ProductNat
    <3> QED BY <1>1, <1>2, <1>3, <1>5, <3>2, <3>3
  <2>2. h - Drawn(u) = d * (k - p) + 0
    BY <1>1, <1>2, <1>3
  <2>3. h - Drawn(u) \in Nat /\ k - p \in Nat /\ 0 \in 0 .. d - 1
    <3>1. k - p \in Nat
      BY <1>3, <2>1
    <3> QED BY <1>1, <2>2, <3>1, ProductNat
  <2> QED BY <1>1, <2>2, <2>3, QuotientIs
<1>6. ASSUME u <= h PROVE Drawn(u) <= h
  <2>1. p <= k
    <3>1. SUFFICES ASSUME k + 1 <= p PROVE FALSE
      BY <1>3
    <3>2. d * (k + 1) <= d * p
      BY <1>1, <1>3, <3>1, ProductMono
    <3>3. d * (k + 1) = d * k + d /\ d * k \in Nat /\ d * p \in Nat
      BY <1>1, <1>3, ProductNat
    <3> QED BY <1>1, <1>3, <1>6, <3>2, <3>3 DEF x
  <2>2. d * p <= d * k /\ d * p = p * d
    BY <1>1, <1>3, <2>1, ProductMono
  <2> QED BY <1>2, <1>3, <2>2
<1> QED BY <1>4, <1>5, <1>6 DEF d

\* A part of the shares leaves something of a reserve; all of them leave
\* nothing of it (WithdrawAmounts).
LEMMA PartLeavesSome ==
  ASSUME NEW reserve \in Nat \ {0}, NEW total \in Nat \ {0}, NEW shares \in Nat, shares < total,
         NEW out \in 0 .. reserve, total * out <= reserve * shares
  PROVE  out < reserve
<1>1. SUFFICES ASSUME out = reserve PROVE FALSE
  OBVIOUS
<1>2. reserve * (shares + 1) <= reserve * total
  BY ProductMono
<1>3. reserve * (shares + 1) = reserve * shares + reserve /\ reserve * total = total * reserve
      /\ reserve * shares \in Nat
  BY ProductNat
<1> QED BY <1>1, <1>2, <1>3

LEMMA AllLeaveNone ==
  ASSUME NEW reserve \in Nat, NEW total \in Nat \ {0}
  PROVE  MulDiv(reserve, total, total) = reserve
<1>1. /\ MulDiv(reserve, total, total) \in Nat
      /\ total * MulDiv(reserve, total, total) <= reserve * total
      /\ reserve * total < total * MulDiv(reserve, total, total) + total
  BY MulDivBounds
<1> DEFINE q == MulDiv(reserve, total, total)
<1> HIDE DEF q
<1>2. q \in Nat /\ total * q <= total * reserve /\ total * reserve < total * q + total
  <2>1. reserve * total = total * reserve
    OBVIOUS
  <2> QED BY <1>1, <2>1 DEF q
<1>3. ~ q + 1 <= reserve
  <2>1. SUFFICES ASSUME q + 1 <= reserve PROVE FALSE
    OBVIOUS
  <2>2. total * (q + 1) <= total * reserve
    BY <1>2, <2>1, ProductMono
  <2>3. total * (q + 1) = total * q + total
    BY <1>2
  <2>4. total * q \in Nat /\ total * reserve \in Nat
    BY <1>2, ProductNat
  <2> QED BY <1>2, <2>2, <2>3, <2>4
<1>4. ~ reserve + 1 <= q
  <2>1. SUFFICES ASSUME reserve + 1 <= q PROVE FALSE
    OBVIOUS
  <2>2. total * (reserve + 1) <= total * q
    BY <1>2, <2>1, ProductMono
  <2>3. total * (reserve + 1) = total * reserve + total
    BY <1>2
  <2>4. total * q \in Nat /\ total * reserve \in Nat
    BY <1>2, ProductNat
  <2> QED BY <1>2, <2>2, <2>3, <2>4
<1> QED BY <1>2, <1>3, <1>4 DEF q

LEMMA PageStart == Init => PageInv
<1> SUFFICES ASSUME Init PROVE PageInv
  OBVIOUS
<1>1. amm.lc = 0 /\ amm.hbd = 0 /\ amm.shares = 0 /\ \A a \in Accounts : hbd[a] = Funds.hbd
  BY DEF Init
<1> QED BY <1>1, WholeMillis DEF PageInv

\* A call that leaves reserves, shares and HBD alone.
LEMMA PageFrame ==
  ASSUME PageInv, amm'.lc = amm.lc, amm'.hbd = amm.hbd, amm'.shares = amm.shares, hbd' = hbd
  PROVE  PageInv'
BY DEF PageInv

\* The HBD of one account, by a draw or a payment.
LEMMA WholeAfterMove ==
  ASSUME PoolInv, PageInv, NEW a \in Accounts, NEW u \in Nat, NEW next \in Nat,
         hbd' = [hbd EXCEPT ![a] = next],
         next = hbd[a] + Paid(u) \/ (hbd[a] >= Drawn(u) /\ next = hbd[a] - Drawn(u))
  PROVE  \A b \in Accounts : hbd'[b] % HbdUnitsPerMilli = 0
<1>1. hbd \in [Accounts -> Nat] /\ \A b \in Accounts : hbd[b] % HbdUnitsPerMilli = 0
  BY StateFields DEF PageInv
<1>2. next % HbdUnitsPerMilli = 0
  BY <1>1, WholeMoves
<1> QED BY <1>1, <1>2

LEMMA SellKeepsPage ==
  ASSUME PoolInv, PageInv, NEW a \in Accounts, NEW n \in LcAmounts, SwapLCForHBD(a, n)
  PROVE  PageInv'
<1> DEFINE out == SwapOut(amm.lc, amm.hbd, n)
<1>1. /\ amm.lc > 0 /\ out \in 1 .. amm.hbd - 1
      /\ amm' = [amm EXCEPT !.lc = @ + n, !.hbd = @ - out]
      /\ hbd' = [hbd EXCEPT ![a] = hbd[a] + Paid(out)]
  BY DEF SwapLCForHBD, MaySell, MaySwap
<1>2. amm.lc \in Nat /\ amm.hbd \in Nat /\ amm.shares \in Nat /\ n \in Nat /\ amm \in Amm
      /\ hbd \in [Accounts -> Nat]
  BY StateFields, ConstantTypes
<1> HIDE DEF out
<1>3. amm'.lc = amm.lc + n /\ amm'.hbd = amm.hbd - out /\ amm'.shares = amm.shares
  BY <1>1, <1>2 DEF Amm
<1>4. out \in Nat /\ Paid(out) \in Nat
  BY <1>1, <1>2, Rounding
<1>5. hbd[a] + Paid(out) \in Nat
  BY <1>2, <1>4
<1>6. \A b \in Accounts : hbd'[b] % HbdUnitsPerMilli = 0
  BY <1>1, <1>4, <1>5, WholeAfterMove
<1>7. amm'.lc > 0 /\ amm'.hbd > 0 /\ amm.shares # 0
  BY <1>1, <1>2, <1>3 DEF PageInv
<1> QED BY <1>2, <1>3, <1>6, <1>7 DEF PageInv

LEMMA BuyKeepsPage ==
  ASSUME PoolInv, PageInv, NEW a \in Accounts, NEW n \in HbdAmounts, SwapHBDForLC(a, n)
  PROVE  PageInv'
<1> DEFINE out == SwapOut(amm.hbd, amm.lc, n)
<1>1. /\ amm.hbd > 0 /\ out \in 1 .. amm.lc - 1 /\ hbd[a] >= Drawn(n)
      /\ amm' = [amm EXCEPT !.hbd = @ + n, !.lc = @ - out]
      /\ hbd' = [hbd EXCEPT ![a] = hbd[a] - Drawn(n)]
  BY DEF SwapHBDForLC, MayBuy, MaySwap
<1>2. amm.lc \in Nat /\ amm.hbd \in Nat /\ amm.shares \in Nat /\ n \in Nat /\ amm \in Amm
      /\ hbd \in [Accounts -> Nat]
  BY StateFields, ConstantTypes
<1> HIDE DEF out
<1>3. amm'.lc = amm.lc - out /\ amm'.hbd = amm.hbd + n /\ amm'.shares = amm.shares
  BY <1>1, <1>2 DEF Amm
<1>4. Drawn(n) \in Nat /\ hbd[a] \in Nat
  BY <1>2, Rounding
<1>5. hbd[a] - Drawn(n) \in Nat
  BY <1>1, <1>4
<1>6. \A b \in Accounts : hbd'[b] % HbdUnitsPerMilli = 0
  BY <1>1, <1>2, <1>5, WholeAfterMove
<1>7. amm'.lc > 0 /\ amm'.hbd > 0 /\ amm.shares # 0
  BY <1>1, <1>2, <1>3 DEF PageInv
<1> QED BY <1>2, <1>3, <1>6, <1>7 DEF PageInv

LEMMA AddKeepsPage ==
  ASSUME PoolInv, PageInv, NEW day \in Walks, NEW a \in Accounts,
         NEW n \in LcAmounts, NEW h \in HbdAmounts, AddLiquidity(a, n, h, day)
  PROVE  PageInv'
<1> DEFINE hbdIn  == HbdFor(n, h)
           shares == LPSharesFor(n, amm.lc, amm.shares)
           weight == TrancheWeight(shares, 0)
           pool   == pool_liq + LiquidityEmission(acc_day, day)
           m      == SyncPoolAccumulator(amm, pool)
<1>1. /\ hbdIn \in 1 .. h /\ shares > 0 /\ hbd[a] >= Drawn(hbdIn)
      /\ amm' = [m EXCEPT !.lc = @ + n, !.hbd = @ + hbdIn,
                          !.shares = @ + shares, !.weight = @ + weight]
      /\ hbd' = [hbd EXCEPT ![a] = hbd[a] - Drawn(hbdIn)]
  BY DEF AddLiquidity, MayAdd
<1>2. m \in Amm /\ m.lc = amm.lc /\ m.hbd = amm.hbd /\ m.shares = amm.shares
  BY WalkSound
<1>3. /\ amm.lc \in Nat /\ amm.hbd \in Nat /\ amm.shares \in Nat /\ n \in Nat \ {0} /\ h \in Nat
      /\ hbd \in [Accounts -> Nat]
  BY StateFields, ConstantTypes
<1>4. shares \in Nat
  BY <1>3, SharesNat
<1> HIDE DEF hbdIn, shares, weight, m
<1>5. amm'.lc = amm.lc + n /\ amm'.hbd = amm.hbd + hbdIn /\ amm'.shares = amm.shares + shares
  BY <1>1, <1>2 DEF Amm
<1>6. hbdIn \in Nat /\ Drawn(hbdIn) \in Nat /\ hbd[a] \in Nat
  BY <1>1, <1>3, Rounding
<1>7. hbd[a] - Drawn(hbdIn) \in Nat
  BY <1>1, <1>6
<1>8. \A b \in Accounts : hbd'[b] % HbdUnitsPerMilli = 0
  BY <1>1, <1>6, <1>7, WholeAfterMove
<1>9. amm'.lc > 0 /\ amm'.hbd > 0 /\ amm'.shares > 0
  BY <1>1, <1>3, <1>4, <1>5
<1> QED BY <1>8, <1>9 DEF PageInv

LEMMA DissolveKeepsPage ==
  ASSUME PoolInv, PageInv, NEW day \in Walks, NEW a \in Accounts, NEW id \in DOMAIN lp[a],
         Dissolve(a, id, a, day)
  PROVE  PageInv'
<1> DEFINE pool == pool_liq + LiquidityEmission(acc_day, day)
           m    == SyncPoolAccumulator(amm, pool)
           s    == SettleTranche(a, id, day)
           out  == MulDiv(amm.lc, s.t.shares, amm.shares)
           hbdOut == LeavesDust(MulDiv(amm.hbd, s.t.shares, amm.shares))
           n    == [s.amm EXCEPT !.lc = @ - out, !.hbd = @ - hbdOut,
                                 !.shares = @ - s.t.shares, !.weight = @ - s.t.weight]
           x    == s.t.shares
<1>1. /\ ~ lp[a][id].closed
      /\ CanWithdraw(s.t)
      /\ amm' = n
      /\ hbd' = [hbd EXCEPT ![a] = hbd[a] + Paid(hbdOut)]
  BY DEF Dissolve
<1>2. m.lc = amm.lc /\ m.hbd = amm.hbd /\ m.shares = amm.shares
  BY WalkSound
<1>3. /\ s.t \in Tranche
      /\ s.amm \in Amm /\ s.amm.lc = m.lc /\ s.amm.hbd = m.hbd /\ s.amm.shares = m.shares
  BY <1>1, SettleSound
<1>4. /\ amm.lc \in Nat /\ amm.hbd \in Nat /\ amm.shares \in Nat /\ hbd \in [Accounts -> Nat]
  BY StateFields
<1>5. x \in 1 .. amm.shares
  BY <1>1 DEF CanWithdraw
<1>6. /\ out \in 0 .. amm.lc /\ hbdOut \in 0 .. amm.hbd
      /\ amm.shares * out <= amm.lc * x
      /\ amm.shares * hbdOut <= amm.hbd * x
  BY <1>4, <1>5, WithdrawalFits
<1>7. x = amm.shares => out = amm.lc
  <2>1. CASE x = amm.shares
    <3>1. amm.shares \in Nat \ {0}
      BY <1>4, <1>5
    <3> QED BY <1>4, <2>1, <3>1, AllLeaveNone
  <2> QED BY <2>1
<1> HIDE DEF pool, m, s, out, hbdOut
<1>8. amm'.lc = amm.lc - out /\ amm'.hbd = amm.hbd - hbdOut /\ amm'.shares = amm.shares - x
  BY <1>1, <1>2, <1>3 DEF Amm
<1> HIDE DEF n, x
<1>9. hbdOut \in Nat /\ Paid(hbdOut) \in Nat /\ hbd[a] \in Nat
  BY <1>4, <1>6, Rounding
<1>10. hbd[a] + Paid(hbdOut) \in Nat
  BY <1>9
<1>11. \A b \in Accounts : hbd'[b] % HbdUnitsPerMilli = 0
  BY <1>1, <1>9, <1>10, WholeAfterMove
<1>12. CASE x = amm.shares
  <2>1. amm'.lc = 0 /\ amm'.shares = 0
    BY <1>4, <1>7, <1>8, <1>12
  <2> QED BY <1>11, <2>1 DEF PageInv
<1>13. CASE x # amm.shares
  <2>1. amm.shares \in Nat \ {0} /\ x \in Nat /\ x < amm.shares
    BY <1>4, <1>5, <1>13
  <2>2. amm.lc \in Nat \ {0} /\ amm.hbd \in Nat \ {0}
    BY <1>4, <2>1 DEF PageInv
  <2>3. out < amm.lc /\ hbdOut < amm.hbd
    BY <1>6, <2>1, <2>2, PartLeavesSome
  <2>4. amm'.lc > 0 /\ amm'.hbd > 0 /\ amm'.shares > 0
    BY <1>4, <1>6, <1>8, <2>1, <2>3
  <2> QED BY <1>11, <2>4 DEF PageInv
<1> QED BY <1>12, <1>13

LEMMA ClaimKeepsPage ==
  ASSUME PoolInv, PageInv, NEW day \in Walks, NEW a \in Accounts, NEW id \in DOMAIN lp[a],
         ClaimPoolRewards(a, id, day)
  PROVE  PageInv'
<1> DEFINE pool == pool_liq + LiquidityEmission(acc_day, day)
           m    == SyncPoolAccumulator(amm, pool)
           s    == SettleTranche(a, id, day)
<1>1. ~ lp[a][id].closed /\ amm' = s.amm /\ hbd' = hbd
  BY DEF ClaimPoolRewards
<1>2. m.lc = amm.lc /\ m.hbd = amm.hbd /\ m.shares = amm.shares
  BY WalkSound
<1>3. s.amm.lc = m.lc /\ s.amm.hbd = m.hbd /\ s.amm.shares = m.shares
  BY <1>1, SettleSound
<1> QED BY <1>1, <1>2, <1>3, PageFrame

LEMMA PageStep == PoolInv /\ PageInv /\ [Next]_vars => PageInv'
<1> SUFFICES ASSUME PoolInv, PageInv, [Next]_vars PROVE PageInv'
  OBVIOUS
<1>1. ASSUME amm' = amm, hbd' = hbd PROVE PageInv'
  BY <1>1, PageFrame
<1>2. CASE Tick
  BY <1>1, <1>2 DEF Tick
<1>3. ASSUME NEW day \in Walks, Settle(day) PROVE PageInv'
  BY <1>1, <1>3 DEF Settle
<1>4. ASSUME NEW day \in Walks, NEW a \in Accounts, NEW n \in LcAmounts, NEW h \in HbdAmounts,
             AddLiquidity(a, n, h, day)
      PROVE  PageInv'
  BY <1>4, AddKeepsPage
<1>5. ASSUME NEW day \in Walks, NEW a \in Accounts, NEW id \in DOMAIN lp[a],
             ClaimPoolRewards(a, id, day)
      PROVE  PageInv'
  BY <1>5, ClaimKeepsPage
<1>6. ASSUME NEW day \in Walks, NEW a \in Accounts, NEW id \in DOMAIN lp[a], NEW c \in Accounts,
             RemoveLiquidity(a, id, day) \/ SweepTranche(c, a, id, day)
      PROVE  PageInv'
  <2>1. Dissolve(a, id, a, day)
    BY <1>6, CloserIsNoMatter
  <2> QED BY <2>1, DissolveKeepsPage
<1>7. ASSUME NEW a \in Accounts, NEW n \in Gifts, FundLiquidity(a, n) PROVE PageInv'
  BY <1>1, <1>7 DEF FundLiquidity
<1>8. ASSUME NEW a \in Accounts, NEW n \in LcAmounts, SwapLCForHBD(a, n) PROVE PageInv'
  BY <1>8, SellKeepsPage
<1>9. ASSUME NEW a \in Accounts, NEW n \in HbdAmounts, SwapHBDForLC(a, n) PROVE PageInv'
  BY <1>9, BuyKeepsPage
<1>10. CASE UNCHANGED vars
  BY <1>1, <1>10 DEF vars
<1> QED BY <1>2, <1>3, <1>4, <1>5, <1>6, <1>7, <1>8, <1>9, <1>10, Zenon DEF Next

\* All LASSECASH of an account lies within reach of the searches.
LEMMA WithinReach ==
  ASSUME PoolInv, NEW a \in Accounts
  PROVE  bal[a] \in Nat /\ bal[a] < Reach
<1>1. /\ bal \in [Accounts -> Nat] /\ amm.lc \in Nat /\ pool_liq \in Nat /\ acc_day \in Days
      /\ Total(bal, Accounts) + amm.lc + pool_liq
           = Cardinality(Accounts) * Funds.lc + LiquidityEmission(0, acc_day)
  BY StateFields DEF PoolInv, LasseCashConserved
<1>2. IsFiniteSet(Accounts) /\ \A b \in Accounts : bal[b] \in Nat
  BY <1>1, ConstantTypes
<1>3. Total(bal, Accounts) >= bal[a] /\ Total(bal, Accounts) \in Nat
  BY <1>2, TotalRemove, TotalIsNat
<1>4. /\ LiquidityEmission(0, acc_day) \in Nat /\ LiquidityEmission(acc_day, LastDay) \in Nat
      /\ LiquidityEmission(0, LastDay) = LiquidityEmission(0, acc_day) + LiquidityEmission(acc_day, LastDay)
  <2>1. LastDay \in Days /\ acc_day <= LastDay
    BY <1>1, ConstantTypes DEF Days
  <2> QED BY <1>1, <2>1, EmissionAdds
<1>5. Cardinality(Accounts) * Funds.lc \in Nat
  BY <1>2, ConstantTypes, FS_CardinalityType, ProductNat
<1>6. Reach \in Nat
  BY TwosAre, PoolPageAssumption DEF Reach, Twos
<1> HIDE DEF PoolInv
<1> DEFINE x == Cardinality(Accounts) * Funds.lc
           t == Total(bal, Accounts)
           e == LiquidityEmission(0, acc_day)
           f == LiquidityEmission(acc_day, LastDay)
<1>7. /\ x \in Nat /\ t \in Nat /\ e \in Nat /\ f \in Nat /\ bal[a] <= t
      /\ t + amm.lc + pool_liq = x + e /\ x + (e + f) < Reach
  BY <1>1, <1>2, <1>3, <1>4, <1>5, SearchReaches
<1> HIDE DEF x, t, e, f
<1> QED BY <1>1, <1>2, <1>6, <1>7

LEMMA ReadyMeans ==
  ASSUME PoolInv, PageInv
  PROVE  /\ PoolReady <=> ~ IsFirstDeposit
         /\ PoolReady => Reserves \in Live
         /\ ~ PoolReady => amm.shares = 0 /\ amm.lc = 0
<1>1. amm.lc \in Nat /\ amm.hbd \in Nat /\ amm.shares \in Nat
  BY StateFields
<1>2. /\ amm.shares = 0 <=> amm.lc = 0
      /\ amm.lc > 0 => amm.hbd > 0
  BY DEF PageInv
<1>3. PoolReady => Reserves \in Live
  BY <1>1, <1>2 DEF PoolReady, Reserves, Live
<1> QED BY <1>1, <1>2, <1>3 DEF PoolReady, IsFirstDeposit

\* A payment moves something from a whole milli-HBD on.
LEMMA PaidFromAMilli ==
  ASSUME NEW u \in Nat
  PROVE  Paid(u) \in Nat /\ Paid(u) <= u /\ (Paid(u) > 0 <=> u >= HbdUnitsPerMilli)
<1> DEFINE d == HbdUnitsPerMilli
           q == u \div d
<1>1. d \in Nat \ {0} /\ Paid(u) = q * d
  BY ConstantTypes DEF Paid
<1> HIDE DEF d
<1>2. q \in Nat /\ u % d \in 0 .. d - 1 /\ u = d * q + (u % d)
  BY <1>1, DivMod
<1> HIDE DEF q
<1>3. q * d = d * q /\ d * q \in Nat
  BY <1>1, <1>2, ProductNat
<1>4. CASE q = 0
  <2>1. d * q = 0
    BY <1>1, <1>4
  <2> QED BY <1>1, <1>2, <1>3, <1>4, <2>1 DEF d
<1>5. CASE q # 0
  <2>1. d * 1 <= d * q /\ d * 1 = d
    BY <1>1, <1>2, <1>5, ProductMono
  <2> QED BY <1>1, <1>2, <1>3, <2>1 DEF d
<1> QED BY <1>4, <1>5

\* A sale is offered exactly when it goes through (SwapLCForHBD).
LEMMA SaleOffered ==
  ASSUME PoolInv, PageInv, NEW a \in Accounts, NEW n \in Typed
  PROVE  (SwapDisabledReason(a, TRUE, n) = "") <=> MaySell(a, n)
<1> DEFINE out == SwapOut(amm.lc, amm.hbd, n)
           ok  == MaySwap(amm.lc, amm.hbd, n)
<1>1. Quote(TRUE, n).ok = ok /\ Quote(TRUE, n).out = out
  BY DEF Quote, SwapQuote
<1>2. /\ amm.lc \in Nat /\ amm.hbd \in Nat /\ n \in Nat \ {0} /\ bal[a] \in Nat
      /\ custody \in Nat /\ amm.hbd <= custody
  BY StateFields, PoolPageAssumption
<1>3. ok <=> amm.lc > 0 /\ out \in 1 .. amm.hbd - 1
  BY DEF MaySwap
<1>4. MaySell(a, n) <=> bal[a] >= n /\ ok /\ Paid(out) \in 1 .. custody
  BY DEF MaySell
<1>5. (SwapDisabledReason(a, TRUE, n) = "")
        <=> PoolReady /\ ~ n > bal[a] /\ ok /\ ~ (out < HbdUnitsPerMilli)
  BY <1>1 DEF SwapDisabledReason, OutBelowHbdStep
<1> HIDE DEF out, ok
<1>6. HbdUnitsPerMilli \in Nat
  BY ConstantTypes
<1>7. ASSUME ok
      PROVE  PoolReady /\ (Paid(out) \in 1 .. custody <=> ~ (out < HbdUnitsPerMilli))
  <2>1. out \in Nat /\ out <= amm.hbd /\ amm.lc > 0 /\ amm.hbd > 0
    BY <1>2, <1>3, <1>7
  <2>2. Paid(out) \in Nat /\ Paid(out) <= out /\ (Paid(out) > 0 <=> out >= HbdUnitsPerMilli)
    BY <2>1, PaidFromAMilli
  <2>3. PoolReady
    BY <1>2, <2>1 DEF PoolReady
  <2> QED BY <1>2, <1>6, <2>1, <2>2, <2>3
<1>8. n > bal[a] <=> ~ bal[a] >= n
  BY <1>2
<1> QED BY <1>4, <1>5, <1>7, <1>8

\* HBD of an account covers what a call draws once it covers what it names.
LEMMA DrawCovered ==
  ASSUME PoolInv, PageInv, NEW a \in Accounts, NEW u \in Nat
  PROVE  hbd[a] \in Nat /\ Drawn(u) \in Nat /\ (u <= hbd[a] <=> hbd[a] >= Drawn(u))
<1>1. hbd[a] \in Nat /\ hbd[a] % HbdUnitsPerMilli = 0
  BY StateFields DEF PageInv
<1>2. u <= hbd[a] => Drawn(u) <= hbd[a]
  BY <1>1, WholeMoves
<1>3. Drawn(u) \in Nat /\ u <= Drawn(u)
  BY Rounding
<1> QED BY <1>1, <1>2, <1>3

LEMMA SpendableIsHeld ==
  ASSUME PoolInv, NEW a \in Accounts, NEW meter \in Meters
  PROVE  /\ HbdSpendable(a, meter) \in Nat /\ HbdSpendable(a, meter) <= hbd[a] /\ hbd[a] \in Nat
         /\ meter = NoReading => HbdSpendable(a, meter) = hbd[a]
<1>1. hbd[a] \in Nat /\ HbdUnitsPerMilli \in Nat /\ RcReserveMilli \in Nat
  BY StateFields, ConstantTypes, PoolPageAssumption
<1>2. CASE meter = NoReading
  BY <1>1, <1>2 DEF HbdSpendable
<1>3. CASE meter # NoReading
  <2>1. meter \in Nat
    BY <1>3, PoolPageAssumption
  <2>2. CASE meter <= RcReserveMilli
    BY <1>1, <1>3, <2>2 DEF HbdSpendable
  <2>3. CASE ~ meter <= RcReserveMilli
    <3>1. (meter - RcReserveMilli) * HbdUnitsPerMilli \in Nat
      <4>1. meter - RcReserveMilli \in Nat
        BY <1>1, <2>1, <2>3
      <4> QED BY <1>1, <4>1, ProductNat
    <3>2. HbdSpendable(a, meter) = AtMost(hbd[a], (meter - RcReserveMilli) * HbdUnitsPerMilli)
      BY <1>3, <2>3 DEF HbdSpendable
    <3> QED BY <1>1, <1>3, <3>1, <3>2 DEF AtMost
  <2> QED BY <2>2, <2>3
<1> QED BY <1>2, <1>3

\* Whole milli-HBD hold a draw rounded up (Drawn).
LEMMA CeilWithin ==
  ASSUME NEW m \in Nat \ {0}, NEW u \in Nat, NEW k \in Nat, u <= k * m
  PROVE  Ceil(u, m) \in Nat /\ Ceil(u, m) <= k
<1> DEFINE x == u + m - 1
           c == x \div m
           e == x % m
<1>1. x \in Nat
  OBVIOUS
<1>2. c \in Nat /\ e \in 0 .. m - 1 /\ x = m * c + e
  <2> HIDE DEF x
  <2> QED BY <1>1, DivMod
<1>3. Ceil(u, m) = c
  BY DEF Ceil
<1> HIDE DEF c, e
<1>4. m * c <= x /\ x < k * m + m
  <2> DEFINE p == m * c
             q == k * m
  <2>1. p \in Nat /\ q \in Nat
    BY <1>2, ProductNat
  <2>2. x = p + e /\ u <= q
    BY <1>2
  <2> HIDE DEF p, q
  <2>3. p <= x /\ x < q + m
    BY <1>2, <2>1, <2>2
  <2> QED BY <2>3 DEF p, q
<1> HIDE DEF x
<1>5. ASSUME ~ c <= k
      PROVE  FALSE
  <2> DEFINE p == m * c
             q == k * m
  <2>1. k + 1 \in Nat /\ k + 1 <= c
    BY <1>2, <1>5
  <2>2. m * (k + 1) <= p
    BY <1>2, <2>1, ProductMono
  <2>3. m * (k + 1) = q + m
    OBVIOUS
  <2>4. p <= x /\ x < q + m
    BY <1>4
  <2>5. p \in Nat /\ q \in Nat
    BY <1>2, ProductNat
  <2>6. q + m <= p
    BY <2>2, <2>3
  <2> HIDE DEF p, q
  <2> QED BY <1>1, <2>4, <2>5, <2>6
<1> QED BY <1>2, <1>3, <1>5

\* A full meter carries whatever the balance covers: what the call sets aside
\* is free.
LEMMA FullMeterCarries ==
  ASSUME PoolInv, PageInv, NEW a \in Accounts, NEW u \in Nat, u <= hbd[a]
  PROVE  Carries(Capacity(a), u)
<1> DEFINE m == HbdUnitsPerMilli
           h == hbd[a]
           k == h \div m
           c == Ceil(u, m)
<1>1. h \in Nat /\ h % m = 0 /\ m \in Nat \ {0} /\ u <= h
  BY StateFields, ConstantTypes DEF PageInv
<1>2. c \in Nat /\ k \in Nat /\ c <= k
  <2> DEFINE e == h % m
  <2> HIDE DEF m, h
  <2>1. h \in Nat /\ m \in Nat \ {0}
    BY <1>1
  <2>2. k \in Nat /\ h = m * k + e
    BY ONLY <2>1, DivMod
  <2>3. e = 0 /\ u <= h
    BY <1>1
  <2> HIDE DEF k, e
  <2>4. u <= k * m
    BY <2>1, <2>2, <2>3
  <2> QED BY <2>1, <2>2, <2>4, CeilWithin
<1> HIDE DEF c, k
<1>3. RcFree \in Nat /\ RcLimit \in Nat /\ RcLimit <= RcFree
  BY LiquidityPoolAssumption
<1>4. k + RcFree >= c + RcLimit
  BY <1>2, <1>3
<1> QED BY <1>4 DEF Carries, Capacity, c, k

\* And what the page counts as spendable, with what it keeps back for the call,
\* is carried as long as the meter has not fallen (hbdSpendableUnits).
LEMMA SpendableIsCarried ==
  ASSUME PoolInv, PageInv, NEW a \in Accounts, NEW meter \in Meters, NEW u \in Nat \ {0},
         u <= HbdSpendable(a, meter), NEW rc \in MetersSince(a, meter)
  PROVE  Carries(rc, u)
<1>1. hbd[a] \in Nat /\ HbdUnitsPerMilli \in Nat \ {0} /\ RcReserveMilli \in Nat
  BY StateFields, ConstantTypes, PoolPageAssumption
<1>2. CASE meter = NoReading
  <2>1. rc = Capacity(a) /\ u <= hbd[a]
    BY <1>2 DEF MetersSince, HbdSpendable
  <2> QED BY <2>1, FullMeterCarries
<1>3. CASE meter # NoReading
  <2>1. meter \in Nat
    BY <1>3, PoolPageAssumption
  <2>2. rc >= meter /\ rc \in Readings(a)
    BY <1>3 DEF MetersSince
  <2>3. rc \in Nat
    <3>1. Capacity(a) \in Nat
      BY <1>1, DivMod, LiquidityPoolAssumption DEF Capacity
    <3> QED BY <2>2, <3>1 DEF Readings
  <2>4. ~ meter <= RcReserveMilli
    BY <1>3 DEF HbdSpendable
  <2> DEFINE k == meter - RcReserveMilli
  <2>5. k \in Nat
    BY <1>1, <2>1, <2>4
  <2>6. u <= AtMost(hbd[a], k * HbdUnitsPerMilli)
    BY <1>3, <2>4 DEF HbdSpendable
  <2>7. k * HbdUnitsPerMilli \in Nat
    BY <1>1, <2>5, ProductNat
  <2> HIDE DEF k
  <2>8. u <= k * HbdUnitsPerMilli
    BY <1>1, <2>6, <2>7 DEF AtMost
  <2>9. Ceil(u, HbdUnitsPerMilli) \in Nat /\ Ceil(u, HbdUnitsPerMilli) <= k
    BY <1>1, <2>5, <2>8, CeilWithin
  <2>10. RcLimit \in Nat /\ RcLimit <= RcReserveMilli
    BY LiquidityPoolAssumption, ReserveCoversTheCall
  <2>11. k + RcReserveMilli = meter
    BY <1>1, <2>1 DEF k
  <2>12. rc >= Ceil(u, HbdUnitsPerMilli) + RcLimit
    BY <1>1, <2>1, <2>2, <2>3, <2>5, <2>9, <2>10, <2>11
  <2> QED BY <2>12 DEF Carries
<1> QED BY <1>2, <1>3

\* And so is a purchase (SwapHBDForLC).
LEMMA PurchaseOffered ==
  ASSUME PoolInv, PageInv, NEW a \in Accounts, NEW n \in Typed
  PROVE  /\ (SwapDisabledReason(a, FALSE, n) = "") <=> MayBuy(a, n, Capacity(a))
         /\ \A meter \in Meters :
              SwapDisabledReason(a, FALSE, n) = "" /\ n <= HbdSpendable(a, meter) =>
                \A rc \in MetersSince(a, meter) : MayBuy(a, n, rc)
<1> DEFINE out == SwapOut(amm.hbd, amm.lc, n)
           ok  == MaySwap(amm.hbd, amm.lc, n)
<1>1. Quote(FALSE, n).ok = ok
  BY DEF Quote, SwapQuote
<1>2. amm.lc \in Nat /\ amm.hbd \in Nat /\ n \in Nat /\ hbd[a] \in Nat
  BY StateFields, PoolPageAssumption
<1>3. ok <=> amm.hbd > 0 /\ out \in 1 .. amm.lc - 1
  BY DEF MaySwap
<1>4. \A rc : MayBuy(a, n, rc) <=> ok /\ hbd[a] >= Drawn(n) /\ Carries(rc, n)
  BY DEF MayBuy
<1>5. (SwapDisabledReason(a, FALSE, n) = "") <=> PoolReady /\ ~ n > hbd[a] /\ ok
  BY <1>1 DEF SwapDisabledReason, OutBelowHbdStep
<1> HIDE DEF out, ok
<1>6. ok => PoolReady
  BY <1>2, <1>3 DEF PoolReady
<1>7. n <= hbd[a] <=> hbd[a] >= Drawn(n)
  BY <1>2, DrawCovered
<1>8. n > hbd[a] <=> ~ n <= hbd[a]
  BY <1>2
<1>9. (SwapDisabledReason(a, FALSE, n) = "") <=> ok /\ hbd[a] >= Drawn(n)
  BY <1>5, <1>6, <1>7, <1>8
<1>10. hbd[a] >= Drawn(n) => Carries(Capacity(a), n)
  BY <1>2, <1>7, FullMeterCarries
<1>11. ASSUME NEW meter \in Meters, n <= HbdSpendable(a, meter), NEW rc \in MetersSince(a, meter)
       PROVE  Carries(rc, n)
  <2>1. n \in Nat \ {0}
    BY PoolPageAssumption
  <2> QED BY <1>11, <2>1, SpendableIsCarried
<1> HIDE DEF ok
<1>12. (SwapDisabledReason(a, FALSE, n) = "") <=> MayBuy(a, n, Capacity(a))
  BY <1>4, <1>9, <1>10
<1>13. \A meter \in Meters :
         SwapDisabledReason(a, FALSE, n) = "" /\ n <= HbdSpendable(a, meter) =>
           \A rc \in MetersSince(a, meter) : MayBuy(a, n, rc)
  BY <1>4, <1>9, <1>11
<1> QED BY <1>12, <1>13

\* The clock of a tranche (trancheHealthAt).
LEMMA ClockTells ==
  ASSUME NEW t
  PROVE  TrancheHealthAt(t).phase = 2 <=> IsDormant(t)
BY DEF TrancheHealthAt, IsDormant

\* The reserves a form quotes from can quote, and those of a first deposit
\* give a share for a unit.
LEMMA FormReserves ==
  ASSUME PoolInv, PageInv, NEW price \in Prices
  PROVE  LET r == IF PoolReady THEN Reserves ELSE Synthetic(price)
         IN  /\ r \in Live
             /\ ~ PoolReady => \A n \in Nat : MulDiv(r.shares, n, r.lc) = n
<1>1. CASE PoolReady
  BY <1>1, ReadyMeans
<1>2. CASE ~ PoolReady
  <2>1. price \in Nat \ {0} /\ Unit \in Nat \ {0}
    BY <1>2, PoolPageAssumption DEF Prices
  <2>2. Synthetic(price) \in Live /\ Synthetic(price).shares = Unit /\ Synthetic(price).lc = Unit
    BY <2>1 DEF Synthetic, Live
  <2>3. ASSUME NEW n \in Nat PROVE MulDiv(Unit, n, Unit) = n
    <3>1. MulDiv(n, Unit, Unit) = n
      BY <2>1, AllLeaveNone
    <3>2. Unit * n = n * Unit
      BY <2>1
    <3> QED BY <3>1, <3>2 DEF MulDiv
  <2> QED BY <1>2, <2>2, <2>3
<1> QED BY <1>1, <1>2

\* What the account holds and the quote names, the contract takes
\* (AddLiquidity).
LEMMA DepositTaken ==
  ASSUME PoolInv, PageInv, NEW a \in Accounts, NEW n \in Nat \ {0}, NEW h \in Nat \ {0},
         NEW limit \in Nat, n <= bal[a], h <= hbd[a],
         PoolReady => /\ LiquidityQuote(n, Reserves).ok /\ h = LiquidityQuote(n, Reserves).hbd
                      /\ h <= limit,
         ~ PoolReady => limit = h,
         NEW rc, Carries(rc, h)
  PROVE  MayAdd(a, n, limit, rc)
<1>1. bal[a] \in Nat
  BY StateFields
<1>2. hbd[a] >= Drawn(h)
  BY DrawCovered
<1>3. CASE PoolReady
  <2>1. Reserves \in Live /\ ~ IsFirstDeposit
    BY <1>3, ReadyMeans
  <2>2. /\ LiquidityQuote(n, Reserves).ok <=> n > 0 /\ MulDiv(Reserves.shares, n, Reserves.lc) > 0
        /\ LiquidityQuote(n, Reserves).hbd
             = (IF n > 0 THEN HbdRequiredFor(n, Reserves.lc, Reserves.hbd) ELSE 0)
    BY <2>1, QuoteOfLive
  <2>3. MulDiv(amm.shares, n, amm.lc) > 0 /\ h = HbdRequiredFor(n, amm.lc, amm.hbd)
    BY <1>3, <2>2 DEF Reserves
  <2>4. HbdFor(n, limit) = h /\ LPSharesFor(n, amm.lc, amm.shares) > 0
    <3>1. amm.shares # 0 /\ amm.lc # 0
      BY <2>1 DEF IsFirstDeposit
    <3> QED BY <2>1, <2>3, <3>1 DEF HbdFor, LPSharesFor
  <2> QED BY <1>1, <1>2, <1>3, <2>4 DEF MayAdd
<1>4. CASE ~ PoolReady
  <2>1. IsFirstDeposit /\ amm.shares = 0
    BY <1>4, ReadyMeans
  <2>2. HbdFor(n, limit) = h /\ LPSharesFor(n, amm.lc, amm.shares) = n
    BY <1>4, <2>1 DEF HbdFor, LPSharesFor
  <2> QED BY <1>1, <1>2, <1>4, <2>2 DEF MayAdd
<1> QED BY <1>3, <1>4

\* The form whose LASSECASH is typed.
LEMMA LcFormIs ==
  ASSUME NEW n, NEW price
  PROVE  LET r == IF PoolReady THEN Reserves ELSE Synthetic(price)
             q == LiquidityQuote(n, r)
             d == Deposit(LcForm(n, price))
         IN  /\ d.ok = q.ok /\ d.lc = n /\ d.hbd = q.hbd
             /\ d.maxHbd = IF PoolReady THEN q.hbd + q.hbd \div 100 ELSE q.hbd
BY DEF LcForm, Deposit, ActiveReserves

LEMMA HbdFormIs ==
  ASSUME NEW n, NEW price
  PROVE  LET r == IF PoolReady THEN Reserves ELSE Synthetic(price)
             q == LiquidityQuote(ReverseLcForHbd(n, r), r)
             d == Deposit(HbdForm(n, price))
         IN  /\ d.ok = q.ok /\ d.lc = ReverseLcForHbd(n, r)
             /\ d.hbd = (IF PoolReady THEN q.hbd ELSE n)
             /\ d.maxHbd = IF PoolReady THEN q.hbd + q.hbd \div 100 ELSE n
BY DEF HbdForm, Deposit, ActiveReserves

\* Why a form is closed.
LEMMA ReasonIs ==
  ASSUME NEW a \in Accounts, NEW d, NEW meter, d.lc \in Nat, d.hbd \in Nat,
         bal[a] \in Nat, HbdSpendable(a, meter) \in Nat
  PROVE  LET reason == InsufficientReason(a, d, meter)
         IN  /\ reason = "" <=>
                  /\ d.ok /\ d.lc > 0 /\ d.hbd > 0 /\ d.lc <= bal[a]
                  /\ d.hbd <= HbdSpendable(a, meter)
             /\ (d.ok /\ d.lc > 0 /\ d.hbd > 0 =>
                   d.lc <= bal[a] /\ d.hbd <= HbdSpendable(a, meter))
                => reason \in {"", "Enter an amount"}
<1> DEFINE blank == ~ d.ok \/ d.lc = 0 \/ d.hbd = 0
           poor  == d.ok /\ d.lc > 0 /\ d.hbd > 0 /\ d.lc > bal[a]
           rest  == IF d.hbd <= HbdSpendable(a, meter) THEN ""
                    ELSE IF HbdSpendable(a, meter) = 0 THEN "Not enough resource credits"
                    ELSE IF HbdSpendable(a, meter) < hbd[a] THEN "Too much for one deposit"
                    ELSE "Not enough HBD on MAGI"
           reason == InsufficientReason(a, d, meter)
<1>1. reason = CASE blank -> "Enter an amount" [] poor -> "Not enough LASSECASH" [] OTHER -> rest
  BY DEF InsufficientReason
<1>2. ~ (blank /\ poor)
  OBVIOUS
<1>3. rest = "" <=> d.hbd <= HbdSpendable(a, meter)
  OBVIOUS
<1>4. ~ blank <=> d.ok /\ d.lc > 0 /\ d.hbd > 0
  OBVIOUS
<1>5. ~ blank /\ ~ poor <=> d.ok /\ d.lc > 0 /\ d.hbd > 0 /\ d.lc <= bal[a]
  OBVIOUS
<1> HIDE DEF blank, poor, rest, reason
<1>6. CASE blank
  BY <1>1, <1>2, <1>4, <1>5, <1>6 DEF reason
<1>7. CASE poor
  <2>1. reason = "Not enough LASSECASH" /\ ~ blank /\ ~ (d.lc <= bal[a])
    BY <1>1, <1>2, <1>5, <1>4, <1>7
  <2> QED BY <1>4, <2>1 DEF reason
<1>8. CASE ~ blank /\ ~ poor
  <2>1. reason = rest
    BY <1>1, <1>8
  <2> QED BY <1>3, <1>5, <1>8, <2>1 DEF reason
<1> QED BY <1>6, <1>7, <1>8

FormOf(price) == IF PoolReady THEN Reserves ELSE Synthetic(price)

\* The limit a form sends is no less than the HBD it shows.
LEMMA LimitAbove ==
  ASSUME NEW h \in Nat
  PROVE  h + h \div 100 \in Nat /\ h <= h + h \div 100
<1>1. h \div 100 \in Nat
  BY DivMod
<1> QED BY <1>1

\* What the search finds of an account's HBD is Max (reverseLcForHbd).
LEMMA SearchIsMax ==
  ASSUME NEW r \in Live, NEW s \in Nat
  PROVE  LET n == ReverseLcForHbd(s, r)
         IN  /\ n \in Nat
             /\ \A m \in Nat \ {0} : m <= n /\ LiquidityQuote(m, r).ok =>
                  LiquidityQuote(m, r).hbd <= s
             /\ \A m \in Nat : m > 0 /\ LiquidityQuote(m, r).hbd \in 1 .. s /\ m < Reach => m <= n
<1> DEFINE n == ReverseLcForHbd(s, r)
<1>1. CASE s = 0
  <2>1. n = 0
    BY <1>1 DEF ReverseLcForHbd
  <2> QED BY <1>1, <2>1
<1>2. CASE s # 0
  <2>1. /\ n \in Nat /\ Fits(n, s, r)
        /\ \A m \in Nat : Fits(m, s, r) /\ m < Reach => m <= n
    <3>1. s \in Nat \ {0}
      BY <1>2
    <3> QED BY <3>1, SearchFinds
  <2> HIDE DEF n
  <2>2. ASSUME NEW m \in Nat \ {0}, m <= n, LiquidityQuote(m, r).ok
        PROVE  LiquidityQuote(m, r).hbd <= s
    <3>1. Fits(m, s, r)
      BY <2>1, <2>2, FitsDown
    <3>2. ~ LiquidityQuote(m, r).first
      BY QuoteOfLive
    <3>3. m > 0
      OBVIOUS
    <3> QED BY <2>2, <3>1, <3>2, <3>3 DEF Fits
  <2>3. ASSUME NEW m \in Nat, m > 0, LiquidityQuote(m, r).hbd \in 1 .. s, m < Reach
        PROVE  m <= n
    <3>1. Fits(m, s, r)
      BY <2>3 DEF Fits
    <3> QED BY <2>1, <2>3, <3>1
  <2> QED BY <2>1, <2>2, <2>3 DEF n
<1> QED BY <1>1, <1>2

\* The form driven by LASSECASH, and Max.
LEMMA LcFormTells ==
  ASSUME PoolInv, PageInv, NEW a \in Accounts, NEW price \in Prices, NEW meter \in Meters
  PROVE  LET max  == AffordableDeposit(a, price, meter)
             best == Deposit(LcForm(max.lc, price))
         IN  /\ InsufficientReason(a, best, meter) \in {"", "Enter an amount"}
             /\ \A n \in Typed :
                  LET d == Deposit(LcForm(n, price))
                  IN  /\ InsufficientReason(a, d, meter) = "" =>
                           /\ n <= max.lc
                           /\ \A rc \in MetersSince(a, meter) : MayAdd(a, d.lc, d.maxHbd, rc)
                      /\ MayAdd(a, n, d.hbd, Capacity(a)) /\ meter = NoReading =>
                           InsufficientReason(a, d, meter) = ""
<1> DEFINE r == FormOf(price)
           s == HbdSpendable(a, meter)
           R == ReverseLcForHbd(s, r)
           max == AtMost(R, bal[a])
<1>1. r \in Live /\ (~ PoolReady => \A n \in Nat : MulDiv(r.shares, n, r.lc) = n)
      /\ (PoolReady => r = Reserves)
  BY FormReserves DEF FormOf
<1>2. AffordableDeposit(a, price, meter).lc = max
  BY DEF AffordableDeposit, FormOf
<1>3. bal[a] \in Nat /\ bal[a] < Reach
  BY WithinReach
<1>4. s \in Nat /\ s <= hbd[a] /\ hbd[a] \in Nat /\ (meter = NoReading => s = hbd[a])
  BY SpendableIsHeld
<1>5. \A n : LET q == LiquidityQuote(n, r)
                 d == Deposit(LcForm(n, price))
             IN  /\ d.ok = q.ok /\ d.lc = n /\ d.hbd = q.hbd
                 /\ d.maxHbd = IF PoolReady THEN q.hbd + q.hbd \div 100 ELSE q.hbd
  BY LcFormIs DEF FormOf
<1> HIDE DEF r, s
<1>6. /\ R \in Nat
      /\ \A m \in Nat \ {0} : m <= R /\ LiquidityQuote(m, r).ok => LiquidityQuote(m, r).hbd <= s
      /\ \A m \in Nat : m > 0 /\ LiquidityQuote(m, r).hbd \in 1 .. s /\ m < Reach => m <= R
  BY <1>1, <1>4, SearchIsMax
<1> HIDE DEF R
<1>7. max \in Nat /\ max <= R /\ max <= bal[a] /\ \A n \in Nat : n <= R /\ n <= bal[a] => n <= max
  BY <1>3, <1>6 DEF AtMost
<1> HIDE DEF max
<1>8. \A n \in Nat : LET d == Deposit(LcForm(n, price))
                     IN  d.ok \in BOOLEAN /\ d.lc \in Nat /\ d.hbd \in Nat
  <2> TAKE n \in Nat
  <2>1. LiquidityQuote(n, r).ok \in BOOLEAN /\ LiquidityQuote(n, r).hbd \in Nat
    BY <1>1, QuoteOfLive
  <2> QED BY <1>5, <2>1
<1>9. InsufficientReason(a, Deposit(LcForm(max, price)), meter) \in {"", "Enter an amount"}
  <2> DEFINE d == Deposit(LcForm(max, price))
  <2>1. d.ok \in BOOLEAN /\ d.lc \in Nat /\ d.hbd \in Nat /\ HbdSpendable(a, meter) \in Nat
    BY <1>4, <1>7, <1>8 DEF s
  <2>2. d.ok = LiquidityQuote(max, r).ok /\ d.lc = max /\ d.hbd = LiquidityQuote(max, r).hbd
    BY <1>5
  <2> HIDE DEF d
  <2>3. d.ok /\ d.lc > 0 /\ d.hbd > 0 => d.lc <= bal[a] /\ d.hbd <= HbdSpendable(a, meter)
    <3>1. ASSUME LiquidityQuote(max, r).ok, max > 0
          PROVE  max <= bal[a] /\ LiquidityQuote(max, r).hbd <= HbdSpendable(a, meter)
      BY <1>6, <1>7, <3>1 DEF s
    <3> QED BY <2>2, <3>1, Zenon
  <2>4. InsufficientReason(a, d, meter) \in {"", "Enter an amount"}
    BY <1>3, <2>1, <2>3, ReasonIs, Zenon
  <2> QED BY <2>4 DEF d
<1>10. ASSUME NEW n \in Typed
       PROVE  LET d == Deposit(LcForm(n, price))
              IN  /\ InsufficientReason(a, d, meter) = "" =>
                       /\ n <= max
                       /\ \A rc \in MetersSince(a, meter) : MayAdd(a, d.lc, d.maxHbd, rc)
                  /\ MayAdd(a, n, d.hbd, Capacity(a)) /\ meter = NoReading =>
                       InsufficientReason(a, d, meter) = ""
  <2> DEFINE d == Deposit(LcForm(n, price))
             q == LiquidityQuote(n, r)
  <2>1. n \in Nat \ {0}
    BY PoolPageAssumption
  <2>2. /\ d.ok = q.ok /\ d.lc = n /\ d.hbd = q.hbd
        /\ d.maxHbd = IF PoolReady THEN q.hbd + q.hbd \div 100 ELSE q.hbd
    BY <1>5
  <2>3. d.ok \in BOOLEAN /\ d.lc \in Nat /\ d.hbd \in Nat /\ HbdSpendable(a, meter) \in Nat
    BY <1>4, <1>8, <2>1 DEF s
  <2>4. /\ q.ok <=> n > 0 /\ MulDiv(r.shares, n, r.lc) > 0
        /\ q.hbd = (IF n > 0 THEN HbdRequiredFor(n, r.lc, r.hbd) ELSE 0)
    BY <1>1, <2>1, QuoteOfLive
  <2> HIDE DEF d, q
  <2>5. InsufficientReason(a, d, meter) = "" <=>
          d.ok /\ d.lc > 0 /\ d.hbd > 0 /\ d.lc <= bal[a] /\ d.hbd <= HbdSpendable(a, meter)
    BY <1>3, <2>3, ReasonIs, Zenon
  <2>6. ASSUME InsufficientReason(a, d, meter) = ""
        PROVE  /\ n <= max
               /\ \A rc \in MetersSince(a, meter) : MayAdd(a, d.lc, d.maxHbd, rc)
    <3>1. q.ok /\ n <= bal[a] /\ q.hbd \in Nat \ {0} /\ q.hbd <= s /\ q.hbd <= hbd[a]
      <4>1. d.ok /\ d.hbd > 0 /\ d.lc <= bal[a] /\ d.hbd <= s
        BY <2>5, <2>6, Zenon DEF s
      <4>2. q.ok /\ q.hbd > 0 /\ n <= bal[a] /\ q.hbd <= s /\ q.hbd \in Nat
        BY <2>2, <2>3, <4>1, Zenon
      <4> QED BY <1>4, <4>2
    <3>2. n <= max
      <4>1. q.hbd \in 1 .. s /\ n < Reach /\ n > 0
        <5>1. Reach \in Nat
          BY TwosAre, PoolPageAssumption DEF Reach, Twos
        <5> QED BY <1>3, <1>4, <2>1, <3>1, <5>1
      <4>2. n <= R
        BY <1>6, <2>1, <4>1 DEF q
      <4> QED BY <1>7, <2>1, <3>1, <4>2
    <3>3. ASSUME NEW rc \in MetersSince(a, meter) PROVE MayAdd(a, n, d.maxHbd, rc)
      <4>1. d.maxHbd \in Nat /\ q.hbd <= d.maxHbd
        BY <2>2, <3>1, LimitAbove
      <4>2. PoolReady => LiquidityQuote(n, Reserves).ok /\ q.hbd = LiquidityQuote(n, Reserves).hbd
        BY <1>1, <3>1 DEF q
      <4>3. ~ PoolReady => d.maxHbd = q.hbd
        BY <2>2
      <4>4. Carries(rc, q.hbd)
        BY <3>1, SpendableIsCarried DEF s
      <4> QED BY <2>1, <3>1, <4>1, <4>2, <4>3, <4>4, DepositTaken
    <3> QED BY <2>2, <3>2, <3>3
  <2>7. ASSUME MayAdd(a, n, d.hbd, Capacity(a)), meter = NoReading
        PROVE  InsufficientReason(a, d, meter) = ""
    <3>1. /\ bal[a] >= n /\ HbdFor(n, d.hbd) \in 1 .. d.hbd
          /\ LPSharesFor(n, amm.lc, amm.shares) > 0 /\ hbd[a] >= Drawn(HbdFor(n, d.hbd))
      BY <2>7 DEF MayAdd
    <3>2. d.hbd > 0 /\ n > 0 /\ n <= bal[a]
      BY <1>3, <2>1, <2>3, <3>1
    <3>3. q.ok /\ HbdFor(n, d.hbd) = d.hbd
      <4>1. CASE PoolReady
        <5>1. ~ IsFirstDeposit /\ amm.shares # 0 /\ amm.lc # 0 /\ r = Reserves
          BY <1>1, <4>1, ReadyMeans DEF IsFirstDeposit
        <5>2. HbdFor(n, d.hbd) = HbdRequiredFor(n, amm.lc, amm.hbd)
              /\ MulDiv(amm.shares, n, amm.lc) > 0
          BY <3>1, <5>1 DEF HbdFor, LPSharesFor
        <5>3. q.ok /\ q.hbd = HbdRequiredFor(n, amm.lc, amm.hbd)
          BY <2>4, <3>2, <5>1, <5>2 DEF Reserves
        <5> QED BY <2>2, <5>2, <5>3
      <4>2. CASE ~ PoolReady
        <5>1. IsFirstDeposit
          BY <4>2, ReadyMeans
        <5>2. MulDiv(r.shares, n, r.lc) = n
          BY <1>1, <2>1, <4>2
        <5> QED BY <2>4, <3>2, <5>1, <5>2 DEF HbdFor
      <4> QED BY <4>1, <4>2
    <3>4. d.hbd <= hbd[a]
      <4>1. d.hbd <= hbd[a] <=> hbd[a] >= Drawn(d.hbd)
        BY <2>3, DrawCovered
      <4> QED BY <3>1, <3>3, <4>1
    <3>5. d.hbd <= HbdSpendable(a, meter)
      BY <1>4, <2>7, <3>4 DEF s
    <3> QED BY <2>2, <2>5, <3>2, <3>3, <3>5
  <2> QED BY <2>6, <2>7 DEF d
<1> QED BY <1>2, <1>9, <1>10

\* The form driven by HBD.
LEMMA HbdFormTells ==
  ASSUME PoolInv, PageInv, NEW a \in Accounts, NEW n \in Typed, NEW price \in Prices,
         NEW meter \in Meters, InsufficientReason(a, Deposit(HbdForm(n, price)), meter) = "",
         NEW rc \in MetersSince(a, meter)
  PROVE  MayAdd(a, Deposit(HbdForm(n, price)).lc, Deposit(HbdForm(n, price)).maxHbd, rc)
<1> DEFINE r == FormOf(price)
           N == ReverseLcForHbd(n, r)
           q == LiquidityQuote(N, r)
           d == Deposit(HbdForm(n, price))
<1>1. r \in Live /\ (PoolReady => r = Reserves)
  BY FormReserves DEF FormOf
<1>2. n \in Nat \ {0} /\ bal[a] \in Nat /\ hbd[a] \in Nat
  BY PoolPageAssumption, StateFields
<1>3. /\ d.ok = q.ok /\ d.lc = N /\ d.hbd = (IF PoolReady THEN q.hbd ELSE n)
      /\ d.maxHbd = IF PoolReady THEN q.hbd + q.hbd \div 100 ELSE n
  BY HbdFormIs DEF FormOf
<1> HIDE DEF r
<1>4. N \in Nat
  BY <1>1, <1>2, SearchIsMax
<1> HIDE DEF N
<1>5. q.ok \in BOOLEAN /\ q.hbd \in Nat
  BY <1>1, <1>4, QuoteOfLive
<1> HIDE DEF d
<1>6. HbdSpendable(a, meter) \in Nat /\ HbdSpendable(a, meter) <= hbd[a]
  BY SpendableIsHeld
<1>7. d.ok \in BOOLEAN /\ d.lc \in Nat /\ d.hbd \in Nat /\ HbdSpendable(a, meter) \in Nat
  BY <1>2, <1>3, <1>4, <1>5, <1>6
<1>8. InsufficientReason(a, d, meter) = "" <=>
        d.ok /\ d.lc > 0 /\ d.hbd > 0 /\ d.lc <= bal[a] /\ d.hbd <= HbdSpendable(a, meter)
  BY <1>2, <1>7, ReasonIs, Zenon
<1>9. InsufficientReason(a, d, meter) = ""
  BY DEF d
<1>10. q.ok /\ N \in Nat \ {0} /\ N <= bal[a] /\ d.hbd \in Nat \ {0} /\ d.hbd <= hbd[a]
       /\ d.hbd <= HbdSpendable(a, meter)
  <2>1. d.ok /\ d.lc > 0 /\ d.hbd > 0 /\ d.lc <= bal[a] /\ d.hbd <= HbdSpendable(a, meter)
    BY <1>8, <1>9, Zenon
  <2>2. q.ok /\ N > 0 /\ N <= bal[a]
    BY <1>3, <2>1, Zenon
  <2>3. d.hbd \in Nat
    BY <1>7, Zenon
  <2>4. N \in Nat \ {0} /\ d.hbd \in Nat \ {0}
    <3> DEFINE h == d.hbd
    <3>1. N > 0 /\ h > 0 /\ N \in Nat /\ h \in Nat
      BY <1>4, <2>1, <2>2, <2>3, Zenon
    <3> HIDE DEF h, q
    <3>2. N \in Nat \ {0} /\ h \in Nat \ {0}
      BY ONLY <3>1
    <3> QED BY <3>2, Zenon DEF h
  <2>5. d.hbd <= hbd[a]
    <3> DEFINE h == d.hbd
               S == HbdSpendable(a, meter)
               H == hbd[a]
    <3>1. h \in Nat /\ H \in Nat /\ S \in Nat /\ h <= S /\ S <= H
      BY <1>2, <1>6, <2>1, <2>3, Zenon
    <3> HIDE DEF h, S, H
    <3>2. h <= H
      BY ONLY <3>1
    <3> QED BY <3>2, Zenon DEF h, H
  <2> QED BY <2>1, <2>2, <2>4, <2>5, Zenon
<1>11. d.maxHbd \in Nat /\ (PoolReady => d.hbd <= d.maxHbd) /\ (~ PoolReady => d.maxHbd = d.hbd)
  BY <1>2, <1>3, <1>5, LimitAbove, ZenonT(60)
<1>12. PoolReady => LiquidityQuote(N, Reserves).ok /\ d.hbd = LiquidityQuote(N, Reserves).hbd
  BY <1>1, <1>3, <1>10
<1>13. Carries(rc, d.hbd)
  BY <1>10, SpendableIsCarried
<1>14. MayAdd(a, N, d.maxHbd, rc)
  BY <1>10, <1>11, <1>12, <1>13, DepositTaken
<1> QED BY <1>3, <1>14 DEF d

LEMMA PageFollows == PoolInv /\ PageInv => PageTellsTheTruth
<1> SUFFICES ASSUME PoolInv, PageInv PROVE PageTellsTheTruth
  OBVIOUS
<1>1. PoolReady <=> ~ IsFirstDeposit
  BY ReadyMeans
<1>2. \A k \in Open : TrancheHealthAt(T(k)).phase = 2 <=> IsDormant(T(k))
  BY ClockTells
<1>3. \A a \in Accounts, n \in Typed :
        /\ (SwapDisabledReason(a, TRUE, n) = "") <=> MaySell(a, n)
        /\ (SwapDisabledReason(a, FALSE, n) = "") <=> MayBuy(a, n, Capacity(a))
        /\ \A meter \in Meters :
             SwapDisabledReason(a, FALSE, n) = "" /\ n <= HbdSpendable(a, meter) =>
               \A rc \in MetersSince(a, meter) : MayBuy(a, n, rc)
  BY SaleOffered, PurchaseOffered
<1>4. \A a \in Accounts, price \in Prices, meter \in Meters :
        LET max  == AffordableDeposit(a, price, meter)
            best == Deposit(LcForm(max.lc, price))
        IN  /\ InsufficientReason(a, best, meter) \in {"", "Enter an amount"}
            /\ \A n \in Typed :
                 LET d == Deposit(LcForm(n, price))
                 IN  /\ InsufficientReason(a, d, meter) = "" =>
                          /\ n <= max.lc
                          /\ \A rc \in MetersSince(a, meter) : MayAdd(a, d.lc, d.maxHbd, rc)
                     /\ MayAdd(a, n, d.hbd, Capacity(a)) /\ meter = NoReading =>
                          InsufficientReason(a, d, meter) = ""
  BY LcFormTells
<1>5. \A a \in Accounts, price \in Prices, meter \in Meters, n \in Typed :
        LET d == Deposit(HbdForm(n, price))
        IN  InsufficientReason(a, d, meter) = "" =>
              \A rc \in MetersSince(a, meter) : MayAdd(a, d.lc, d.maxHbd, rc)
  BY HbdFormTells
<1> QED BY <1>1, <1>2, <1>3, <1>4, <1>5, Zenon DEF PageTellsTheTruth

\* The page opens a form for what the calls then do: sales exactly, purchases
\* as far as the balance decides and within Max as far as the meter does, and
\* deposits typed in either asset, for every amount typed, every reading of
\* the meter and every meter that has not fallen since (pool/+page.svelte).
THEOREM PageTells == Spec => []PageTellsTheTruth
<1>1. Init => PageInv
  BY PageStart
<1>2. PoolInv /\ PageInv /\ [Next]_vars => PageInv'
  BY PageStep
<1>3. PoolInv /\ PageInv => PageTellsTheTruth
  BY PageFollows
<1> QED BY <1>1, <1>2, <1>3, PoolInvariant, PTL DEF Spec

-----------------------------------------------------------------------------
(* What a call pays.                                                       *)

\* The accumulator's reading stays an int64: where it would not, the inflow
\* is held instead (AccumulatorStep), and a call can pay less than was shown
\* before it.
RoomInAcc ==
  \A day \in Walks :
    LET pool == pool_liq + LiquidityEmission(acc_day, day)
    IN  amm.weight >= MinSharesForAccrual =>
          amm.acc + MulDiv(pool - amm.seen + amm.held, AccScale, amm.weight) <= MaxAmount

\* More inflow never leaves a lower reading.
LEMMA LaterReads ==
  ASSUME NEW m \in Amm, NEW early \in Nat, NEW late \in Nat, m.seen <= early, early <= late,
         m.weight >= MinSharesForAccrual =>
           m.acc + MulDiv(late - m.seen + m.held, AccScale, m.weight) <= MaxAmount
  PROVE  /\ SyncPoolAccumulator(m, early).acc \in Nat /\ SyncPoolAccumulator(m, late).acc \in Nat
         /\ SyncPoolAccumulator(m, early).acc <= SyncPoolAccumulator(m, late).acc
<1> DEFINE x == early - m.seen
           y == late - m.seen
           e == SyncPoolAccumulator(m, early)
           l == SyncPoolAccumulator(m, late)
           f == AccumulatorStep(m.acc, x, m.held, m.weight)
           g == AccumulatorStep(m.acc, y, m.held, m.weight)
           u == MulDiv(x + m.held, AccScale, m.weight)
           w == MulDiv(y + m.held, AccScale, m.weight)
<1>1. /\ m.weight \in Nat /\ m.acc \in Nat /\ m.held \in Nat /\ m.seen \in Nat
      /\ x \in Nat /\ y \in Nat /\ x <= y
  BY DEF Amm
<1>2. e.acc = (IF early > m.seen THEN f.acc ELSE m.acc)
      /\ l.acc = (IF late > m.seen THEN g.acc ELSE m.acc)
  BY DEF SyncPoolAccumulator, Amm
<1>3. f.acc \in Nat /\ f.acc >= m.acc /\ g.acc \in Nat /\ g.acc >= m.acc
  <2>1. m.weight \in Int
    BY <1>1
  <2> HIDE DEF x, y
  <2> QED BY <1>1, <2>1, AccumulatorStepSound
<1>4. AccScale \in Nat \ {0} /\ MinSharesForAccrual \in Nat \ {0} /\ MaxAmount \in Nat
  BY EngineAssumption
<1>5. late > m.seen => f.acc <= g.acc
  <2> SUFFICES ASSUME f.acc # m.acc PROVE f.acc <= g.acc
    BY <1>1, <1>3
  <2>1. x + m.held # 0 /\ m.weight >= MinSharesForAccrual /\ u # 0 /\ ~ m.acc + u > MaxAmount
        /\ f.acc = m.acc + u
    <3> HIDE DEF u
    <3>1. x + m.held # 0 /\ ~ (m.weight < MinSharesForAccrual) /\ u # 0 /\ ~ (m.acc + u > MaxAmount)
          /\ f.acc = m.acc + u
      BY DEF AccumulatorStep, u
    <3>2. m.weight >= MinSharesForAccrual
      BY <1>1, <1>4, <3>1
    <3> QED BY <3>1, <3>2
  <2>2. m.weight \in Nat \ {0}
    BY <1>1, <1>4, <2>1
  <2>3. x + m.held \in Nat /\ y + m.held \in Nat /\ x + m.held <= y + m.held
    BY <1>1
  <2>4. u \in Nat /\ w \in Nat /\ u <= w
    <3>1. u <= w
      BY <1>4, <2>2, <2>3, MulDivMono
    <3>2. u \in Nat /\ w \in Nat
      BY <1>4, <2>2, <2>3, MulDivBounds
    <3> QED BY <3>1, <3>2
  <2>5. m.acc + w <= MaxAmount
    BY <2>1
  <2>6. g.acc = m.acc + w
    <3>1. ~ (m.weight < MinSharesForAccrual)
      BY <1>1, <1>4, <2>1
    <3>2. ~ (y + m.held = 0) /\ ~ (w = 0) /\ ~ (m.acc + w > MaxAmount)
      BY <1>1, <1>4, <2>1, <2>3, <2>4, <2>5
    <3> QED BY <3>1, <3>2 DEF AccumulatorStep
  <2> HIDE DEF f, g, u, w
  <2> QED BY <1>1, <2>1, <2>4, <2>6
<1> HIDE DEF e, l, f, g
<1>6. late > m.seen \/ ~ (early > m.seen)
  BY <1>1
<1> QED BY <1>2, <1>3, <1>5, <1>6, <1>1 DEF e, l

LEMMA NoDayNoEmission ==
  ASSUME NEW day \in Days
  PROVE  LiquidityEmission(day, day) = 0
<1>1. day \in Nat
  BY ConstantTypes DEF Days
<1>2. day .. day - 1 = {}
  BY <1>1
<1> QED BY <1>2, TotalEmpty DEF LiquidityEmission

\* What settling pays, against what the page shows of it (PoolRewardsOwed).
LEMMA SettlingPaysShown ==
  ASSUME PoolInv, RoomInAcc, NEW day \in Walks, NEW a \in Accounts, NEW id \in DOMAIN lp[a],
         ~ lp[a][id].closed
  PROVE  LET owed == SettleTranche(a, id, day).owed
             v    == PoolRewardsOwed(lp[a][id])
         IN  /\ owed \in Nat /\ v \in Nat /\ owed >= v
             /\ ~ day > acc_day => owed = v
<1> DEFINE more == LiquidityEmission(acc_day, day)
           pool == pool_liq + more
           t    == lp[a][id]
           n    == SyncPoolAccumulator(amm, pool_liq)
           m    == SyncPoolAccumulator(amm, pool)
           x    == Entitlement(t.weight, t.accStart, n.acc)
           y    == Entitlement(t.weight, t.accStart, m.acc)
<1>1. SettleTranche(a, id, day).owed = AtMost(y, pool)
  BY DEF SettleTranche
<1>2. PoolRewardsOwed(t) = AtMost(x, pool_liq)
  BY DEF PoolRewardsOwed
<1>3. pool \in Nat /\ pool_liq \in Nat /\ pool_liq <= pool /\ amm \in Amm
      /\ amm.seen \in Nat /\ amm.seen <= pool_liq
  BY StateFields, WalkSound
<1>4. t \in Tranche /\ t.weight \in Nat /\ t.accStart \in Nat
  <2>1. t \in Tranche
    BY StateFields
  <2> QED BY <2>1 DEF Tranche
<1>5. n.acc \in Nat /\ m.acc \in Nat /\ n.acc <= m.acc
  <2>1. amm.weight >= MinSharesForAccrual =>
          amm.acc + MulDiv(pool - amm.seen + amm.held, AccScale, amm.weight) <= MaxAmount
    BY Zenon DEF RoomInAcc
  <2> HIDE DEF pool
  <2> QED BY <1>3, <2>1, LaterReads
<1>6. ~ day > acc_day => pool = pool_liq
  <2>1. SUFFICES ASSUME ~ day > acc_day PROVE pool = pool_liq
    OBVIOUS
  <2>2. day \in Days /\ acc_day <= day /\ acc_day \in Days
    BY WalkForward, StateFields
  <2>3. day = acc_day
    BY <2>1, <2>2, ConstantTypes DEF Days
  <2>4. more = 0
    BY <2>2, <2>3, NoDayNoEmission
  <2> QED BY <1>3, <2>4
<1>7. pool = pool_liq => m = n
  OBVIOUS
<1> HIDE DEF pool, n, m, t
<1>8. x \in Nat /\ y \in Nat /\ x <= y
  BY <1>4, <1>5, EntitlementMono
<1>9. pool = pool_liq => x = y
  BY <1>7
<1> HIDE DEF x, y
<1>10. /\ AtMost(y, pool) \in Nat /\ AtMost(x, pool_liq) \in Nat
       /\ AtMost(y, pool) >= AtMost(x, pool_liq)
       /\ pool = pool_liq => AtMost(y, pool) = AtMost(x, pool_liq)
  BY <1>3, <1>8, <1>9 DEF AtMost
<1> QED BY <1>1, <1>2, <1>6, <1>10 DEF t

\* Nothing happens to tranches.
LEMMA ShownFrame ==
  ASSUME lp' = lp
  PROVE  AsShown
<1>1. \A k : T(k)' = T(k)
  BY DEF T
<1>2. \A a \in Accounts : ~ Len(lp'[a]) > Len(lp[a])
  <2> TAKE a \in Accounts
  <2> DEFINE l == Len(lp[a])
  <2>1. ~ l > l
    OBVIOUS
  <2> QED BY <2>1
<1> QED BY <1>1, <1>2 DEF AsShown, PaidAsShown, GivenAsShown

\* One tranche is written anew: nothing is said of the others.
LEMMA OnlyOneIsShown ==
  ASSUME PoolInv, NEW a \in Accounts, NEW id, <<a, id>> \in Open, NEW t \in Tranche,
         lp' = Rewrite(lp, a, id, t), PaidAsShown(<<a, id>>)
  PROVE  AsShown
<1>1. lp \in [Accounts -> Seq(Tranche)] /\ <<a, id>> \in OpenOf(lp) /\ Open = OpenOf(lp)
  BY StateFields DEF Open, OpenOf
<1>2. lp' \in [Accounts -> Seq(Tranche)] /\ \A k \in Open \ {<<a, id>>} : lp'[k[1]][k[2]] = lp[k[1]][k[2]]
  BY <1>1, TableUpdate, SMTT(60)
<1>3. \A k \in Open \ {<<a, id>>} : T(k)' = T(k)
  BY <1>2 DEF T
<1>4. \A k \in Open : PaidAsShown(k)
  BY <1>3 DEF PaidAsShown
<1>5. \A b \in Accounts : Len(lp'[b]) = Len(lp[b]) /\ Len(lp[b]) \in Nat
  <2> TAKE b \in Accounts
  <2>1. lp[b] \in Seq(Tranche) /\ lp'[b] \in Seq(Tranche)
    BY <1>1, <1>2
  <2>2. b # a => lp'[b] = lp[b]
    BY <1>1 DEF Rewrite
  <2>3. lp'[a] = [lp[a] EXCEPT ![id] = t]
    BY <1>1 DEF Rewrite
  <2>4. DOMAIN lp'[b] = DOMAIN lp[b]
    BY <2>2, <2>3
  <2> QED BY <2>1, <2>4, LenProperties
<1>6. \A b \in Accounts : GivenAsShown(b)
  BY <1>5 DEF GivenAsShown
<1> QED BY <1>4, <1>6 DEF AsShown

LEMMA ClaimShown ==
  ASSUME PoolInv, RoomInAcc, NEW day \in Walks, NEW a \in Accounts, NEW id \in DOMAIN lp[a],
         ClaimPoolRewards(a, id, day)
  PROVE  AsShown
<1> DEFINE s == SettleTranche(a, id, day)
           t == [s.t EXCEPT !.lastTouch = height]
           v == bal[a] + s.owed
           k == <<a, id>>
<1>1. /\ ~ lp[a][id].closed /\ acc_day' = day
      /\ bal' = [bal EXCEPT ![a] = v]
      /\ lp' = [lp EXCEPT ![a][id] = t]
  BY DEF ClaimPoolRewards
<1>2. k \in OpenOf(lp) /\ s.t \in Tranche /\ ~ s.t.closed
  BY <1>1, SettleSound
<1>3. /\ s.owed \in Nat /\ PoolRewardsOwed(lp[a][id]) \in Nat
      /\ s.owed >= PoolRewardsOwed(lp[a][id])
      /\ ~ day > acc_day => s.owed = PoolRewardsOwed(lp[a][id])
  BY <1>1, SettlingPaysShown
<1>4. bal \in [Accounts -> Nat] /\ height \in Nat /\ lp \in [Accounts -> Seq(Tranche)]
  BY StateFields
<1> HIDE DEF s
<1>5. t \in Tranche /\ ~ t.closed
  BY <1>2, <1>4 DEF Tranche
<1>6. bal'[a] - bal[a] = s.owed
  BY <1>1, <1>3, <1>4
<1> HIDE DEF t
<1>7. lp' = Rewrite(lp, a, id, t)
  BY <1>1 DEF Rewrite
<1>8. OpenOf(Rewrite(lp, a, id, t)) = IF t.closed THEN OpenOf(lp) \ {k} ELSE OpenOf(lp)
  BY <1>2, <1>4, <1>5, OpenChanges, Zenon
<1>9. k \in Open /\ k \in Open'
  <2>1. OpenOf(lp') = OpenOf(lp)
    BY <1>5, <1>7, <1>8
  <2>2. Open' = OpenOf(lp') /\ Open = OpenOf(lp)
    BY DEF Open, OpenOf
  <2> HIDE DEF k
  <2> QED BY <1>2, <2>1, <2>2
<1>10. PaidAsShown(k)
  <2>1. k[1] = a /\ T(k) = lp[a][id]
    BY DEF T
  <2>2. TrancheView(T(k)).pending_reward = PoolRewardsOwed(lp[a][id])
    BY <2>1 DEF TrancheView
  <2>3. ~ MayClaim(T(k)) => PoolRewardsOwed(lp[a][id]) = 0
    BY <2>1 DEF MayClaim
  <2> DEFINE w == PoolRewardsOwed(lp[a][id])
  <2> HIDE DEF w, k
  <2>4. /\ bal'[k[1]] - bal[k[1]] >= w + 0
        /\ ~ acc_day' > acc_day => bal'[k[1]] - bal[k[1]] = w + 0
    BY <1>1, <1>3, <1>6, <2>1 DEF w
  <2>5. ~ MayClaim(T(k)) /\ ~ acc_day' > acc_day => bal'[k[1]] - bal[k[1]] = 0
    BY <1>1, <1>3, <1>6, <2>1, <2>3 DEF w
  <2>6. TrancheView(T(k)).pending_reward = w
    BY <2>2 DEF w
  <2> QED BY <1>9, <2>4, <2>5, <2>6 DEF PaidAsShown
<1> HIDE DEF k
<1> QED BY <1>5, <1>7, <1>9, <1>10, OnlyOneIsShown DEF k

\* The page shows a tranche's part of the reserves (WithdrawQuote), and dust
\* that is left behind is not paid.
LEMMA PartShown ==
  ASSUME NEW h \in Nat
  PROVE  Paid(LeavesDust(h)) = Paid(h)
<1>1. Paid(0) = 0
  <2>1. 0 \div HbdUnitsPerMilli = 0 /\ HbdUnitsPerMilli \in Nat \ {0}
    <3>1. 0 = HbdUnitsPerMilli * 0 + 0 /\ 0 \in 0 .. HbdUnitsPerMilli - 1 /\ HbdUnitsPerMilli \in Nat \ {0}
      BY ConstantTypes
    <3> QED BY <3>1, QuotientIs
  <2> QED BY <2>1 DEF Paid
<1> QED BY <1>1 DEF LeavesDust

LEMMA DissolveShown ==
  ASSUME PoolInv, RoomInAcc, NEW day \in Walks, NEW a \in Accounts, NEW id \in DOMAIN lp[a],
         Dissolve(a, id, a, day)
  PROVE  AsShown
<1> DEFINE s      == SettleTranche(a, id, day)
           lcOut  == MulDiv(amm.lc, s.t.shares, amm.shares)
           part   == MulDiv(amm.hbd, s.t.shares, amm.shares)
           hbdOut == LeavesDust(part)
           t      == [s.t EXCEPT !.closed = TRUE, !.weight = 0]
           k      == <<a, id>>
<1>1. /\ ~ lp[a][id].closed
      /\ CanWithdraw(s.t) /\ acc_day' = day
      /\ hbd' = [hbd EXCEPT ![a] = hbd[a] + Paid(hbdOut)]
      /\ bal' = [bal EXCEPT ![a] = bal[a] + lcOut + s.owed]
      /\ lp' = Rewrite(lp, a, id, t)
  BY DEF Dissolve, Rewrite
<1>2. k \in OpenOf(lp) /\ s.t \in Tranche /\ s.t.shares = lp[a][id].shares
  BY <1>1, SettleSound
<1>3. /\ s.owed \in Nat /\ PoolRewardsOwed(lp[a][id]) \in Nat
      /\ s.owed >= PoolRewardsOwed(lp[a][id])
      /\ ~ day > acc_day => s.owed = PoolRewardsOwed(lp[a][id])
  BY <1>1, SettlingPaysShown
<1>4. /\ bal \in [Accounts -> Nat] /\ hbd \in [Accounts -> Nat]
      /\ lp \in [Accounts -> Seq(Tranche)]
      /\ amm.lc \in Nat /\ amm.hbd \in Nat /\ amm.shares \in Nat
  BY StateFields
<1>5. s.t.shares \in 1 .. amm.shares
  BY <1>1 DEF CanWithdraw
<1>6. lcOut \in Nat /\ part \in Nat /\ hbdOut \in Nat
  <2>1. lcOut \in 0 .. amm.lc /\ part \in 0 .. amm.hbd /\ hbdOut \in 0 .. amm.hbd
    BY <1>4, <1>5, WithdrawalFits
  <2> QED BY <1>4, <2>1
<1>7. Paid(hbdOut) = Paid(part) /\ Paid(part) \in Nat
  BY <1>6, PartShown, Rounding
<1> HIDE DEF s
<1>8. t \in Tranche /\ t.closed
  BY <1>2 DEF Tranche
<1>9. TrancheView(lp[a][id]) = [value_lc |-> lcOut, value_hbd |-> part,
                                pending_reward |-> PoolRewardsOwed(lp[a][id])]
  BY <1>2, <1>5 DEF TrancheView, WithdrawQuote, Reserves
<1> HIDE DEF t, lcOut, part, hbdOut
<1>10. bal'[a] - bal[a] = lcOut + s.owed /\ hbd'[a] - hbd[a] = Paid(part)
  BY <1>1, <1>3, <1>4, <1>6, <1>7, SMTT(60)
<1>11. OpenOf(Rewrite(lp, a, id, t)) = IF t.closed THEN OpenOf(lp) \ {k} ELSE OpenOf(lp)
  <2>1. <<a, id>> \in OpenOf(lp) /\ lp \in [Accounts -> Seq(Tranche)] /\ t \in Tranche
    BY <1>2, <1>4, <1>8
  <2> QED BY <2>1, OpenChanges, Zenon
<1>12. k \in Open /\ k \notin Open'
  <2>1. OpenOf(lp') = OpenOf(lp) \ {k}
    BY <1>1, <1>8, <1>11
  <2>2. Open' = OpenOf(lp') /\ Open = OpenOf(lp)
    BY DEF Open, OpenOf
  <2> HIDE DEF k
  <2> QED BY <1>2, <2>1, <2>2
<1>13. PaidAsShown(k)
  <2>1. k[1] = a /\ T(k) = lp[a][id]
    BY DEF T
  <2> DEFINE w == PoolRewardsOwed(lp[a][id])
             v == TrancheView(T(k))
  <2>2. v.value_lc = lcOut /\ v.value_hbd = part /\ v.pending_reward = w
    BY <1>9, <2>1
  <2> HIDE DEF w, k, v
  <2>3. /\ bal'[k[1]] - bal[k[1]] >= w + lcOut
        /\ ~ acc_day' > acc_day => bal'[k[1]] - bal[k[1]] = w + lcOut
    BY <1>1, <1>3, <1>6, <1>10, <2>1 DEF w
  <2>4. hbd'[k[1]] - hbd[k[1]] = Paid(part)
    BY <1>10, <2>1
  <2>5. /\ bal'[k[1]] - bal[k[1]] >= v.pending_reward + v.value_lc
        /\ ~ acc_day' > acc_day => bal'[k[1]] - bal[k[1]] = v.pending_reward + v.value_lc
        /\ hbd'[k[1]] - hbd[k[1]] = Paid(v.value_hbd)
    BY <2>2, <2>3, <2>4, Zenon
  <2> QED BY <1>12, <2>5 DEF PaidAsShown, v
<1> HIDE DEF k
<1> QED BY <1>1, <1>8, <1>12, <1>13, OnlyOneIsShown DEF k

\* A tranche more leaves the others as they are.
LEMMA TableGrows ==
  ASSUME NEW p \in [Accounts -> Seq(Tranche)], NEW a \in Accounts, NEW t \in Tranche
  PROVE  ~ t.closed =>
           /\ Enlarge(p, a, t) \in [Accounts -> Seq(Tranche)]
           /\ Enlarge(p, a, t)[a][Len(p[a]) + 1] = t
           /\ \A k \in OpenOf(p) : Enlarge(p, a, t)[k[1]][k[2]] = p[k[1]][k[2]]
<1> SUFFICES ASSUME ~ t.closed
             PROVE  /\ Enlarge(p, a, t) \in [Accounts -> Seq(Tranche)]
                    /\ Enlarge(p, a, t)[a][Len(p[a]) + 1] = t
                    /\ \A k \in OpenOf(p) : Enlarge(p, a, t)[k[1]][k[2]] = p[k[1]][k[2]]
  OBVIOUS
<1>1. LET r == Enlarge(p, a, t)
          z == <<a, Len(p[a]) + 1>>
      IN  /\ r \in [Accounts -> Seq(Tranche)]
          /\ z \notin OpenOf(p)
          /\ r[a][Len(p[a]) + 1] = t
          /\ \A k \in OpenOf(p) : r[k[1]][k[2]] = p[k[1]][k[2]]
          /\ OpenOf(r) = OpenOf(p) \union {z}
  BY TableAppend
<1> QED BY <1>1

LEMMA AddShown ==
  ASSUME PoolInv, PageInv, NEW day \in Walks, NEW a \in Accounts,
         NEW n \in LcAmounts, NEW h \in HbdAmounts, AddLiquidity(a, n, h, day)
  PROVE  AsShown
<1> DEFINE hbdIn  == HbdFor(n, h)
           shares == LPSharesFor(n, amm.lc, amm.shares)
           weight == TrancheWeight(shares, 0)
           pool   == pool_liq + LiquidityEmission(acc_day, day)
           m      == SyncPoolAccumulator(amm, pool)
           t      == [shares |-> shares, start |-> height, weight |-> weight,
                      closed |-> FALSE, accStart |-> m.acc, lastTouch |-> height]
           q      == LiquidityQuote(n, Reserves)
<1>1. /\ hbdIn \in 1 .. h /\ bal[a] >= n /\ hbd[a] >= Drawn(hbdIn)
      /\ hbd' = [hbd EXCEPT ![a] = hbd[a] - Drawn(hbdIn)]
      /\ bal' = [bal EXCEPT ![a] = bal[a] - n]
      /\ lp' = Enlarge(lp, a, t)
  BY DEF AddLiquidity, MayAdd, Enlarge
<1>2. m \in Amm
  BY WalkSound
<1>3. /\ amm.lc \in Nat /\ amm.hbd \in Nat /\ amm.shares \in Nat /\ n \in Nat \ {0} /\ h \in Nat
      /\ height \in Nat /\ lp \in [Accounts -> Seq(Tranche)]
      /\ bal \in [Accounts -> Nat] /\ hbd \in [Accounts -> Nat]
  BY StateFields, ConstantTypes
<1>4. shares \in Nat /\ weight \in Nat
  BY <1>3, SharesNat, WeightNat
<1>5. t \in Tranche /\ ~ t.closed /\ t.shares = shares
  <2> HIDE DEF shares, weight, m
  <2>1. m.acc \in Nat
    BY <1>2 DEF Amm
  <2> QED BY <1>3, <1>4, <2>1 DEF Tranche
<1>6. q.shares = shares /\ (~ q.first => q.hbd = hbdIn)
  <2>1. CASE 0 \in {Reserves.shares, Reserves.lc, Reserves.hbd}
    <3>1. amm.shares = 0 \/ amm.lc = 0
      BY <1>3, <2>1 DEF Reserves, PageInv
    <3> QED BY <2>1, <3>1 DEF LiquidityQuote, LPSharesFor
  <2>2. CASE 0 \notin {Reserves.shares, Reserves.lc, Reserves.hbd}
    <3>1. ~ IsFirstDeposit /\ n > 0
      BY <1>3, <2>2 DEF Reserves, IsFirstDeposit
    <3> QED BY <2>2, <3>1 DEF LiquidityQuote, Reserves, HbdFor
  <2> QED BY <2>1, <2>2
<1> HIDE DEF t, weight, m, shares, hbdIn
<1>7. bal[a] - bal'[a] = n /\ hbd[a] - hbd'[a] = Drawn(hbdIn)
  <2>1. hbdIn \in Nat /\ Drawn(hbdIn) \in Nat
    BY <1>1, <1>3, Rounding
  <2> QED BY <1>1, <1>3, <2>1
<1>8. /\ lp' \in [Accounts -> Seq(Tranche)]
      /\ lp'[a][Len(lp[a]) + 1] = t
      /\ \A k \in OpenOf(lp) : lp'[k[1]][k[2]] = lp[k[1]][k[2]]
  <2>1. lp \in [Accounts -> Seq(Tranche)] /\ t \in Tranche /\ ~ t.closed
    BY <1>3, <1>5, Zenon
  <2> QED BY <1>1, <2>1, TableGrows, ZenonT(60)
<1>9. \A k \in Open : PaidAsShown(k)
  <2>1. \A k \in Open : T(k)' = T(k)
    BY <1>8 DEF T, Open, OpenOf
  <2> QED BY <2>1 DEF PaidAsShown
<1>10. \A b \in Accounts : b # a => lp'[b] = lp[b]
  BY <1>1, <1>3 DEF Enlarge
<1>11. Len(lp'[a]) = Len(lp[a]) + 1
  <2>1. lp'[a] = Append(lp[a], t) /\ lp[a] \in Seq(Tranche)
    BY <1>1, <1>3 DEF Enlarge
  <2> QED BY <1>5, <2>1, AppendProperties
<1>12. GivenAsShown(a)
  <2>1. lp'[a][Len(lp'[a])].shares = q.shares
    BY <1>5, <1>6, <1>8, <1>11
  <2>2. ~ q.first => hbd[a] - hbd'[a] = Drawn(q.hbd)
    BY <1>6, <1>7
  <2>3. LiquidityQuote(bal[a] - bal'[a], Reserves) = q
    BY <1>7
  <2> HIDE DEF q
  <2> QED BY <2>1, <2>2, <2>3 DEF GivenAsShown
<1>13. \A b \in Accounts : GivenAsShown(b)
  <2> TAKE b \in Accounts
  <2>1. CASE b = a
    BY <1>12, <2>1
  <2>2. CASE b # a
    <3>1. lp'[b] = lp[b] /\ Len(lp[b]) \in Nat
      BY <1>3, <1>10, <2>2, LenProperties
    <3>2. ~ Len(lp'[b]) > Len(lp[b])
      BY <3>1
    <3> QED BY <3>2 DEF GivenAsShown
  <2> QED BY <2>1, <2>2
<1> QED BY <1>9, <1>13 DEF AsShown

LEMMA StepShown == PoolInv /\ PageInv /\ RoomInAcc /\ [Next]_vars => [AsShown]_vars
<1> SUFFICES ASSUME PoolInv, PageInv, RoomInAcc, Next PROVE AsShown
  OBVIOUS
<1>1. ASSUME lp' = lp PROVE AsShown
  BY <1>1, ShownFrame
<1>2. CASE Tick
  BY <1>1, <1>2 DEF Tick
<1>3. ASSUME NEW day \in Walks, Settle(day) PROVE AsShown
  BY <1>1, <1>3 DEF Settle
<1>4. ASSUME NEW day \in Walks, NEW a \in Accounts, NEW n \in LcAmounts, NEW h \in HbdAmounts,
             AddLiquidity(a, n, h, day)
      PROVE  AsShown
  BY <1>4, AddShown
<1>5. ASSUME NEW day \in Walks, NEW a \in Accounts, NEW id \in DOMAIN lp[a],
             ClaimPoolRewards(a, id, day)
      PROVE  AsShown
  BY <1>5, ClaimShown
<1>6. ASSUME NEW day \in Walks, NEW a \in Accounts, NEW id \in DOMAIN lp[a], NEW c \in Accounts,
             RemoveLiquidity(a, id, day) \/ SweepTranche(c, a, id, day)
      PROVE  AsShown
  <2>1. Dissolve(a, id, a, day)
    BY <1>6, CloserIsNoMatter
  <2> QED BY <2>1, DissolveShown
<1>7. ASSUME NEW a \in Accounts, NEW n \in Gifts, FundLiquidity(a, n) PROVE AsShown
  BY <1>1, <1>7 DEF FundLiquidity
<1>8. ASSUME NEW a \in Accounts, NEW n \in LcAmounts, SwapLCForHBD(a, n) PROVE AsShown
  BY <1>1, <1>8 DEF SwapLCForHBD
<1>9. ASSUME NEW a \in Accounts, NEW n \in HbdAmounts, SwapHBDForLC(a, n) PROVE AsShown
  BY <1>1, <1>9 DEF SwapHBDForLC
<1> QED BY <1>2, <1>3, <1>4, <1>5, <1>6, <1>7, <1>8, <1>9, Zenon DEF Next

-----------------------------------------------------------------------------
(* The pool's past.                                                        *)

\* One entry of a table of sequences changes, or one is added.
LEMMA EntryChanged ==
  ASSUME NEW S, NEW p \in [Accounts -> Seq(S)], NEW a \in Accounts, NEW id \in DOMAIN p[a], NEW t \in S
  PROVE  LET q == [p EXCEPT ![a] = [p[a] EXCEPT ![id] = t]]
         IN  /\ q \in [Accounts -> Seq(S)]
             /\ \A b \in Accounts : Len(q[b]) = Len(p[b]) /\ DOMAIN q[b] = DOMAIN p[b]
             /\ \A b \in Accounts : \A i \in DOMAIN p[b] :
                  q[b][i] = IF b = a /\ i = id THEN t ELSE p[b][i]
<1> DEFINE s == [p[a] EXCEPT ![id] = t]
           q == [p EXCEPT ![a] = s]
<1>1. p[a] \in Seq(S) /\ id \in 1 .. Len(p[a]) /\ DOMAIN p[a] = 1 .. Len(p[a])
  BY LenProperties
<1>2. s \in Seq(S) /\ Len(s) = Len(p[a]) /\ \A i \in 1 .. Len(p[a]) : s[i] = IF i = id THEN t ELSE p[a][i]
  BY <1>1, ExceptSeq
<1>3. DOMAIN s = DOMAIN p[a]
  BY <1>1, <1>2, LenProperties
<1> HIDE DEF s
<1>4. q \in [Accounts -> Seq(S)] /\ q[a] = s /\ \A b \in Accounts : b # a => q[b] = p[b]
  BY <1>2
<1> HIDE DEF q
<1>5. \A b \in Accounts : Len(q[b]) = Len(p[b]) /\ DOMAIN q[b] = DOMAIN p[b]
  BY <1>2, <1>3, <1>4
<1>6. \A b \in Accounts : \A i \in DOMAIN p[b] : q[b][i] = IF b = a /\ i = id THEN t ELSE p[b][i]
  BY <1>1, <1>2, <1>4
<1> QED BY <1>4, <1>5, <1>6 DEF q, s

LEMMA EntryAdded ==
  ASSUME NEW S, NEW p \in [Accounts -> Seq(S)], NEW a \in Accounts, NEW t \in S
  PROVE  LET q == [p EXCEPT ![a] = Append(p[a], t)]
         IN  /\ q \in [Accounts -> Seq(S)]
             /\ \A b \in Accounts : /\ Len(q[b]) = Len(p[b]) + (IF b = a THEN 1 ELSE 0)
                                    /\ Len(p[b]) \in Nat
                                    /\ DOMAIN q[b] = 1 .. Len(q[b])
                                    /\ DOMAIN p[b] = 1 .. Len(p[b])
             /\ \A b \in Accounts : \A i \in DOMAIN p[b] : q[b][i] = p[b][i]
             /\ q[a][Len(p[a]) + 1] = t
<1> DEFINE s == Append(p[a], t)
           q == [p EXCEPT ![a] = s]
<1>1. \A b \in Accounts : p[b] \in Seq(S) /\ Len(p[b]) \in Nat /\ DOMAIN p[b] = 1 .. Len(p[b])
  BY LenProperties
<1>2. /\ s \in Seq(S) /\ Len(s) = Len(p[a]) + 1 /\ s[Len(p[a]) + 1] = t
      /\ \A i \in 1 .. Len(p[a]) : s[i] = p[a][i]
  BY <1>1, AppendProperties
<1> HIDE DEF s
<1>3. q \in [Accounts -> Seq(S)] /\ q[a] = s /\ \A b \in Accounts : b # a => q[b] = p[b]
  BY <1>2
<1> HIDE DEF q
<1>4. \A b \in Accounts : DOMAIN q[b] = 1 .. Len(q[b])
  BY <1>3, LenProperties
<1>5. \A b \in Accounts : Len(q[b]) = Len(p[b]) + (IF b = a THEN 1 ELSE 0)
  BY <1>1, <1>2, <1>3
<1>6. \A b \in Accounts : \A i \in DOMAIN p[b] : q[b][i] = p[b][i]
  BY <1>1, <1>2, <1>3
<1>7. q[a][Len(p[a]) + 1] = t
  BY <1>2, <1>3
<1> QED BY <1>1, <1>3, <1>4, <1>5, <1>6, <1>7 DEF q, s

\* What a replay may arrive at.
Charts == [lc : Nat, hbd : Nat, shares : Int, minted : [Accounts -> Seq(Int)]]

LEMMA AddReplayed ==
  ASSUME chart \in Charts, NEW a \in Accounts, NEW n \in Nat \ {0}, NEW h \in Nat
  PROVE  LET q == LiquidityQuote(n, chart)
             c == ReplayAdd(a, n, h)
         IN  /\ c \in Charts
             /\ c.lc = chart.lc + n /\ c.hbd = chart.hbd + (IF q.first THEN h ELSE q.hbd)
             /\ c.shares = chart.shares + q.shares
             /\ c.minted = [chart.minted EXCEPT ![a] = Append(chart.minted[a], q.shares)]
             /\ q.shares \in Int
<1> DEFINE q == LiquidityQuote(n, chart)
           c == ReplayAdd(a, n, h)
           x == chart.lc + n
           y == chart.hbd + IF q.first THEN h ELSE q.hbd
           z == chart.shares + q.shares
           u == Append(chart.minted[a], q.shares)
           p == [chart.minted EXCEPT ![a] = u]
<1>1. /\ chart.lc \in Nat /\ chart.hbd \in Nat /\ chart.shares \in Int
      /\ chart.minted \in [Accounts -> Seq(Int)]
  BY DEF Charts
<1>2. q.shares \in Int /\ (IF q.first THEN h ELSE q.hbd) \in Nat
  <2>1. CASE 0 \in {chart.shares, chart.lc, chart.hbd}
    BY <2>1 DEF LiquidityQuote
  <2>2. CASE 0 \notin {chart.shares, chart.lc, chart.hbd}
    <3>1. chart.lc \in Nat \ {0} /\ chart.hbd \in Nat \ {0} /\ chart.shares # 0
      BY <1>1, <2>2
    <3>2. q.first = FALSE /\ q.hbd = HbdRequiredFor(n, chart.lc, chart.hbd)
          /\ q.shares = MulDiv(chart.shares, n, chart.lc)
      <4>1. n > 0
        OBVIOUS
      <4> QED BY <2>2, <3>1, <4>1 DEF LiquidityQuote, LPSharesFor
    <3>3. HbdRequiredFor(n, chart.lc, chart.hbd) \in Nat
      <4>1. n \in Nat /\ n <= n
        OBVIOUS
      <4> QED BY <3>1, <4>1, HbdMono
    <3>4. MulDiv(chart.shares, n, chart.lc) \in Int
      <4> DEFINE w == chart.shares * n
      <4>1. w \in Int
        BY <1>1
      <4> HIDE DEF w
      <4>2. w \div chart.lc \in Int
        BY <3>1, <4>1
      <4> QED BY <4>2 DEF MulDiv, w
    <3> QED BY <3>2, <3>3, <3>4
  <2> QED BY <2>1, <2>2
<1>3. c = [chart EXCEPT !.lc = x, !.hbd = y, !.shares = z, !.minted = p]
  BY DEF ReplayAdd
<1> HIDE DEF q, c
<1>4. p \in [Accounts -> Seq(Int)]
  <2>1. chart.minted[a] \in Seq(Int)
    BY <1>1
  <2>2. u \in Seq(Int)
    BY <1>2, <2>1, AppendProperties
  <2> HIDE DEF u
  <2> QED BY <1>1, <2>2
<1>5. x \in Nat /\ y \in Nat /\ z \in Int
  BY <1>1, <1>2, SMTT(60)
<1>6. p = [chart.minted EXCEPT ![a] = Append(chart.minted[a], q.shares)]
  OBVIOUS
<1>7. x = chart.lc + n /\ y = chart.hbd + (IF q.first THEN h ELSE q.hbd) /\ z = chart.shares + q.shares
  OBVIOUS
<1> HIDE DEF x, y, z, p, u
<1>8. c \in Charts /\ c.lc = x /\ c.hbd = y /\ c.shares = z /\ c.minted = p
  BY <1>3, <1>4, <1>5 DEF Charts
<1> QED BY <1>2, <1>6, <1>7, <1>8 DEF q, c

LEMMA RemoveReplayed ==
  ASSUME chart \in Charts, NEW a \in Accounts, NEW id \in DOMAIN chart.minted[a]
  PROVE  LET held == chart.minted[a][id]
             w    == WithdrawQuote(held, chart)
             c    == ReplayRemove(a, id)
         IN  /\ c \in Charts
             /\ held = 0 => c = chart
             /\ held # 0 =>
                  /\ c.lc = chart.lc - w.lc /\ c.hbd = chart.hbd - w.hbd
                  /\ c.shares = chart.shares - held
                  /\ c.minted = [chart.minted EXCEPT ![a] = [chart.minted[a] EXCEPT ![id] = 0]]
<1> DEFINE held == chart.minted[a][id]
           w    == WithdrawQuote(held, chart)
           c    == ReplayRemove(a, id)
           x    == chart.lc - w.lc
           y    == chart.hbd - w.hbd
           z    == chart.shares - held
           p    == [chart.minted EXCEPT ![a] = [chart.minted[a] EXCEPT ![id] = 0]]
<1>1. /\ chart.lc \in Nat /\ chart.hbd \in Nat /\ chart.shares \in Int
      /\ chart.minted \in [Accounts -> Seq(Int)]
  BY DEF Charts
<1>2. held \in Int
  BY <1>1
<1>3. held = 0 => c = chart
  BY DEF ReplayRemove
<1>4. held # 0 => c = [chart EXCEPT !.lc = x, !.hbd = y, !.shares = z, !.minted = p]
  BY DEF ReplayRemove
<1> HIDE DEF c
<1>5. w.lc \in 0 .. chart.lc /\ w.hbd \in 0 .. chart.hbd
  <2> HIDE DEF held
  <2>1. CASE held \in 1 .. chart.shares
    <3>1. chart.shares \in Nat /\ chart.shares \in Nat \ {0} /\ held \in Nat /\ held <= chart.shares
      BY <1>1, <1>2, <2>1
    <3>2. /\ MulDiv(chart.lc, held, chart.shares) \in Nat
          /\ MulDiv(chart.lc, held, chart.shares) <= chart.lc
          /\ MulDiv(chart.hbd, held, chart.shares) \in Nat
          /\ MulDiv(chart.hbd, held, chart.shares) <= chart.hbd
      BY <1>1, <3>1, MulDivBounds, MulDivShrinks
    <3>3. w.lc = MulDiv(chart.lc, held, chart.shares) /\ w.hbd = MulDiv(chart.hbd, held, chart.shares)
      BY <2>1 DEF WithdrawQuote
    <3> QED BY <1>1, <3>2, <3>3
  <2>2. CASE ~ held \in 1 .. chart.shares
    <3>1. w.lc = 0 /\ w.hbd = 0
      BY <2>2 DEF WithdrawQuote
    <3> QED BY <1>1, <3>1
  <2> QED BY <2>1, <2>2
<1> HIDE DEF w
<1>6. x \in Nat /\ y \in Nat /\ z \in Int
  BY <1>1, <1>2, <1>5, SMTT(60)
<1>7. p \in [Accounts -> Seq(Int)]
  BY <1>1, EntryChanged
<1> HIDE DEF x, y, z, p
<1>8. held # 0 => c \in Charts /\ c.lc = x /\ c.hbd = y /\ c.shares = z /\ c.minted = p
  BY <1>4, <1>6, <1>7 DEF Charts
<1> HIDE DEF held
<1>9. c \in Charts
  BY <1>3, <1>8
<1> QED BY <1>3, <1>8, <1>9 DEF held, w, c, x, y, z, p

LEMMA SwapReplayed ==
  ASSUME chart \in Charts, NEW selling \in BOOLEAN, NEW n \in Nat \ {0}
  PROVE  LET c == ReplaySwap(selling, n)
         IN  /\ c \in Charts /\ c.minted = chart.minted /\ c.shares = chart.shares
             /\ selling /\ chart.hbd > 0 /\ MaySwap(chart.lc, chart.hbd, n) =>
                  c.lc = chart.lc + n /\ c.hbd = chart.hbd - SwapOut(chart.lc, chart.hbd, n)
             /\ ~ selling /\ chart.lc > 0 /\ MaySwap(chart.hbd, chart.lc, n) =>
                  c.hbd = chart.hbd + n /\ c.lc = chart.lc - SwapOut(chart.hbd, chart.lc, n)
<1> DEFINE c == ReplaySwap(selling, n)
           L == chart.lc
           H == chart.hbd
           u == SwapOut(L, H, n)
           v == SwapOut(H, L, n)
           xs == L + n
           ys == H - u
           xb == L - v
           yb == H + n
<1>1. /\ L \in Nat /\ H \in Nat /\ chart.shares \in Int
      /\ chart.minted \in [Accounts -> Seq(Int)]
  BY DEF Charts
<1>2. selling => c = IF L <= 0 \/ H <= 0 \/ ~ MaySwap(L, H, n) THEN chart
                     ELSE [chart EXCEPT !.lc = xs, !.hbd = ys]
  BY DEF ReplaySwap, SwapQuote
<1>3. ~ selling => c = IF L <= 0 \/ H <= 0 \/ ~ MaySwap(H, L, n) THEN chart
                       ELSE [chart EXCEPT !.hbd = yb, !.lc = xb]
  BY DEF ReplaySwap, SwapQuote
<1> HIDE DEF c
<1>4. MaySwap(L, H, n) => L > 0 /\ u \in 1 .. H - 1
  BY DEF MaySwap
<1>5. MaySwap(H, L, n) => H > 0 /\ v \in 1 .. L - 1
  BY DEF MaySwap
<1> HIDE DEF u, v
<1>6. CASE selling /\ H > 0 /\ MaySwap(L, H, n)
  <2>1. xs \in Nat /\ ys \in Nat /\ ~ (L <= 0 \/ H <= 0 \/ ~ MaySwap(L, H, n))
    BY <1>1, <1>4, <1>6
  <2>2. c = [chart EXCEPT !.lc = xs, !.hbd = ys]
    BY <1>2, <1>6, <2>1
  <2>3. xs = L + n /\ ys = H - u
    OBVIOUS
  <2> HIDE DEF xs, ys
  <2>4. c \in Charts /\ c.lc = xs /\ c.hbd = ys /\ c.minted = chart.minted /\ c.shares = chart.shares
    BY <2>1, <2>2 DEF Charts
  <2> QED BY <1>6, <2>3, <2>4 DEF c, u
<1>7. CASE ~ selling /\ L > 0 /\ MaySwap(H, L, n)
  <2>1. xb \in Nat /\ yb \in Nat /\ ~ (L <= 0 \/ H <= 0 \/ ~ MaySwap(H, L, n))
    BY <1>1, <1>5, <1>7
  <2>2. c = [chart EXCEPT !.hbd = yb, !.lc = xb]
    BY <1>3, <1>7, <2>1
  <2>3. xb = L - v /\ yb = H + n
    OBVIOUS
  <2> HIDE DEF xb, yb
  <2>4. c \in Charts /\ c.lc = xb /\ c.hbd = yb /\ c.minted = chart.minted /\ c.shares = chart.shares
    BY <2>1, <2>2 DEF Charts
  <2> QED BY <1>7, <2>3, <2>4 DEF c, v
<1>8. CASE ~ (selling /\ H > 0 /\ MaySwap(L, H, n)) /\ ~ (~ selling /\ L > 0 /\ MaySwap(H, L, n))
  <2>1. c = chart
    <3>1. H > 0 \/ H <= 0
      BY <1>1
    <3>2. L > 0 \/ L <= 0
      BY <1>1
    <3>3. H > 0 => ~ H <= 0
      BY <1>1
    <3>4. L > 0 => ~ L <= 0
      BY <1>1
    <3> QED BY <1>2, <1>3, <1>8, <3>1, <3>2, <3>3, <3>4
  <2> QED BY <1>8, <2>1 DEF c
<1> QED BY <1>6, <1>7, <1>8

\* What holds of the histories however far they have drifted.
HistoryInv ==
  /\ market \in [lc : Int, hbd : Int]
  /\ chart \in Charts
  /\ \A a \in Accounts : Len(chart.minted[a]) = Len(lp[a])
  /\ \A a \in Accounts : \A id \in DOMAIN lp[a] : lp[a][id].closed <=> lp[a][id].weight = 0

\* A tranche that has shares has weight (TrancheWeight).
LEMMA WeightThere ==
  ASSUME NEW shares \in Nat \ {0}, NEW age \in Nat
  PROVE  TrancheWeight(shares, age) \in Nat \ {0}
<1>1. AtMost(age, LoyaltyMaxDays) \in Nat
  BY ConstantTypes DEF AtMost
<1> DEFINE x == AtMost(age, LoyaltyMaxDays) * LoyaltyPerDay
<1>2. x \in Nat
  BY <1>1, ConstantTypes, ProductNat
<1> HIDE DEF x
<1>3. MultScale + x \in Nat /\ MultScale + x >= MultScale /\ MultScale \in Nat \ {0}
  BY <1>2, ConstantTypes
<1>4. MulDiv(shares, MultScale + x, MultScale) \in Nat
      /\ MulDiv(shares, MultScale + x, MultScale) >= shares
  BY <1>3, MulDivBounds, MulDivGrows
<1> QED BY <1>4 DEF TrancheWeight, x

\* Every open position is on the list of positions, and nothing else is
\* (allTranches).
LEMMA AllAreNamed ==
  ASSUME PoolInv, HistoryInv
  PROVE  AllTranches = Open
<1>1. lp \in [Accounts -> Seq(Tranche)] /\ Open = OpenOf(lp)
  BY StateFields DEF Open, OpenOf
<1>2. ASSUME NEW a \in Accounts, NEW id \in DOMAIN lp[a]
      PROVE  lp[a][id].weight > 0 /\ lp[a][id].shares > 0 <=> ~ lp[a][id].closed
  <2>1. lp[a][id] \in Tranche /\ lp[a][id].weight \in Nat /\ lp[a][id].shares \in Nat
    <3>1. lp[a][id] \in Tranche
      BY <1>1
    <3> QED BY <3>1 DEF Tranche
  <2>2. lp[a][id].closed <=> lp[a][id].weight = 0
    BY DEF HistoryInv
  <2>3. ~ lp[a][id].closed => lp[a][id].shares # 0
    <3>1. SUFFICES ASSUME ~ lp[a][id].closed PROVE lp[a][id].shares # 0
      OBVIOUS
    <3>2. <<a, id>> \in OpenOf(lp)
      BY <1>1, <3>1, OpenKeys
    <3>3. Sound(lp, amm)
      BY DEF PoolInv
    <3>4. lp[a][id].shares \in 1 .. amm.shares
      BY <3>2, <3>3, OnePart
    <3> QED BY <3>4
  <2>4. lp[a][id].weight # 0 <=> lp[a][id].weight > 0
    BY <2>1
  <2>5. lp[a][id].shares # 0 <=> lp[a][id].shares > 0
    BY <2>1
  <2> QED BY <2>2, <2>3, <2>4, <2>5, Zenon
<1>3. ASSUME NEW a \in Accounts, NEW id \in DOMAIN lp[a]
      PROVE  chart.minted[a] # <<>>
  <2>1. Len(chart.minted[a]) = Len(lp[a]) /\ Len(lp[a]) \in Nat /\ DOMAIN lp[a] = 1 .. Len(lp[a])
    BY <1>1, LenProperties DEF HistoryInv
  <2>2. Len(chart.minted[a]) # 0
    BY <2>1
  <2> QED BY <2>2
<1>4. AllTranches \subseteq Open
  BY <1>2 DEF AllTranches, Open
<1>5. Open \subseteq AllTranches
  BY <1>2, <1>3 DEF AllTranches, Open
<1> QED BY <1>4, <1>5

\* A call that no walk records and that closes nothing and moves no reserve.
LEMMA HistoryFrame ==
  ASSUME HistoryInv, replays' = replays,
         amm'.lc = amm.lc, amm'.hbd = amm.hbd, amm'.shares = amm.shares,
         \A b \in Accounts :
           /\ Len(lp'[b]) = Len(lp[b]) /\ DOMAIN lp'[b] = DOMAIN lp[b]
           /\ \A i \in DOMAIN lp[b] : /\ lp'[b][i].closed <=> lp[b][i].closed
                                      /\ lp'[b][i].closed <=> lp'[b][i].weight = 0
                                      /\ lp'[b][i].shares = lp[b][i].shares
  PROVE  HistoryInv' /\ Followed
<1>1. market' = market /\ chart' = chart
  BY DEF replays
<1>2. HistoryInv'
  BY <1>1 DEF HistoryInv
<1>3. InStep => InStep'
  BY <1>1 DEF InStep, Reconciled
<1> QED BY <1>1, <1>2, <1>3 DEF Followed

LEMMA SameTableFollows ==
  ASSUME HistoryInv, replays' = replays, lp' = lp,
         amm'.lc = amm.lc, amm'.hbd = amm.hbd, amm'.shares = amm.shares
  PROVE  HistoryInv' /\ Followed
<1>1. \A b \in Accounts :
        /\ Len(lp'[b]) = Len(lp[b]) /\ DOMAIN lp'[b] = DOMAIN lp[b]
        /\ \A i \in DOMAIN lp[b] : /\ lp'[b][i].closed <=> lp[b][i].closed
                                   /\ lp'[b][i].closed <=> lp'[b][i].weight = 0
                                   /\ lp'[b][i].shares = lp[b][i].shares
  BY DEF HistoryInv
<1> QED BY <1>1, HistoryFrame

LEMMA ClaimFollows ==
  ASSUME PoolInv, HistoryInv, NEW day \in Walks, NEW a \in Accounts, NEW id \in DOMAIN lp[a],
         ClaimPoolRewards(a, id, day), replays' = replays
  PROVE  HistoryInv' /\ Followed
<1> DEFINE pool == pool_liq + LiquidityEmission(acc_day, day)
           m == SyncPoolAccumulator(amm, pool)
           s == SettleTranche(a, id, day)
           t == [s.t EXCEPT !.lastTouch = height]
           x == lp[a][id]
           w == TrancheWeight(x.shares, AgeDays(x.start))
<1>1. /\ ~ x.closed /\ amm' = s.amm
      /\ lp' = [lp EXCEPT ![a] = [lp[a] EXCEPT ![id] = t]]
  BY DEF ClaimPoolRewards
<1>2. m.lc = amm.lc /\ m.hbd = amm.hbd /\ m.shares = amm.shares
  BY WalkSound
<1>3. /\ <<a, id>> \in OpenOf(lp) /\ s.t \in Tranche /\ ~ s.t.closed /\ s.t.shares = x.shares
      /\ s.amm.lc = m.lc /\ s.amm.hbd = m.hbd /\ s.amm.shares = m.shares
      /\ x.shares \in 1 .. m.shares
  BY <1>1, SettleSound
<1>4. lp \in [Accounts -> Seq(Tranche)] /\ x \in Tranche /\ height \in Nat
  BY StateFields
<1>5. s.t.weight = w
  BY <1>4 DEF SettleTranche, Tranche
<1>6. w \in Nat \ {0}
  <2>1. x.start \in Nat /\ x.start <= height
    BY <1>3, <1>4 DEF PoolInv, Open, OpenOf, T, Tranche
  <2>2. height - x.start \in Nat
    BY <1>4, <2>1
  <2>3. AgeDays(x.start) \in Nat
    BY <2>2, ConstantTypes DEF AgeDays
  <2>4. x.shares \in Nat \ {0}
    BY <1>3, <1>4 DEF Tranche
  <2> QED BY <2>3, <2>4, WeightThere
<1> HIDE DEF s, w, m
<1>7. t \in Tranche /\ ~ t.closed /\ t.shares = x.shares /\ t.weight = w
  BY <1>3, <1>4, <1>5 DEF Tranche
<1> HIDE DEF t
<1>8. \A b \in Accounts :
        /\ Len(lp'[b]) = Len(lp[b]) /\ DOMAIN lp'[b] = DOMAIN lp[b]
        /\ \A i \in DOMAIN lp[b] : lp'[b][i] = IF b = a /\ i = id THEN t ELSE lp[b][i]
  BY <1>1, <1>4, <1>7, EntryChanged
<1>9. \A b \in Accounts : \A i \in DOMAIN lp[b] :
        /\ lp'[b][i].closed <=> lp[b][i].closed
        /\ lp'[b][i].closed <=> lp'[b][i].weight = 0
        /\ lp'[b][i].shares = lp[b][i].shares
  <2> TAKE b \in Accounts
  <2> TAKE i \in DOMAIN lp[b]
  <2>1. CASE b = a /\ i = id
    <3>1. lp'[b][i] = t /\ lp[b][i] = x /\ t.weight # 0
      BY <1>6, <1>7, <1>8, <2>1
    <3> HIDE DEF x
    <3> QED BY <1>1, <1>7, <3>1, Zenon
  <2>2. CASE ~ (b = a /\ i = id)
    <3>1. lp'[b][i] = lp[b][i]
      BY <1>8, <2>2
    <3> QED BY <3>1 DEF HistoryInv
  <2> QED BY <2>1, <2>2
<1>10. amm'.lc = amm.lc /\ amm'.hbd = amm.hbd /\ amm'.shares = amm.shares
  BY <1>1, <1>2, <1>3
<1> QED BY <1>8, <1>9, <1>10, HistoryFrame

\* A tranche is closed: its entry is written over and weighs nothing.
Closes(a, id, t) ==
  t.closed /\ t.weight = 0 /\ lp' = [lp EXCEPT ![a] = [lp[a] EXCEPT ![id] = t]]

\* What a withdrawal or an eviction does to the reserves and to the table.
LEMMA DissolveFacts ==
  ASSUME PoolInv, NEW day \in Walks, NEW a \in Accounts, NEW id \in DOMAIN lp[a],
         Dissolve(a, id, a, day)
  PROVE  LET x    == lp[a][id].shares
             part == MulDiv(amm.hbd, x, amm.shares)
         IN  /\ x \in 1 .. amm.shares
             /\ MulDiv(amm.lc, x, amm.shares) \in 0 .. amm.lc /\ part \in 0 .. amm.hbd
             /\ LeavesDust(part) \in 0 .. amm.hbd
             /\ amm'.lc = amm.lc - MulDiv(amm.lc, x, amm.shares)
             /\ amm'.hbd = amm.hbd - LeavesDust(part)
             /\ amm'.shares = amm.shares - x
             /\ <<a, id>> \in Open /\ <<a, id>> \notin Open'
             /\ TrancheView(T(<<a, id>>)).value_hbd = part
             /\ \E t \in Tranche : Closes(a, id, t)
<1> DEFINE pool   == pool_liq + LiquidityEmission(acc_day, day)
           m      == SyncPoolAccumulator(amm, pool)
           s      == SettleTranche(a, id, day)
           lcOut  == MulDiv(amm.lc, s.t.shares, amm.shares)
           part   == MulDiv(amm.hbd, s.t.shares, amm.shares)
           hbdOut == LeavesDust(part)
           t      == [s.t EXCEPT !.closed = TRUE, !.weight = 0]
           n      == [s.amm EXCEPT !.lc = s.amm.lc - lcOut, !.hbd = s.amm.hbd - hbdOut,
                                   !.shares = s.amm.shares - s.t.shares,
                                   !.weight = s.amm.weight - s.t.weight]
           k      == <<a, id>>
<1>1. /\ ~ lp[a][id].closed /\ CanWithdraw(s.t) /\ amm' = n
      /\ lp' = Rewrite(lp, a, id, t)
  BY DEF Dissolve, Rewrite
<1>2. /\ k \in OpenOf(lp) /\ s.t \in Tranche /\ s.t.shares = lp[a][id].shares
      /\ s.amm \in Amm /\ s.amm.lc = m.lc /\ s.amm.hbd = m.hbd /\ s.amm.shares = m.shares
  BY <1>1, SettleSound
<1>3. m.lc = amm.lc /\ m.hbd = amm.hbd /\ m.shares = amm.shares
  BY WalkSound
<1>4. /\ lp \in [Accounts -> Seq(Tranche)]
      /\ amm.lc \in Nat /\ amm.hbd \in Nat /\ amm.shares \in Nat
  BY StateFields
<1>5. s.t.shares \in 1 .. amm.shares
  BY <1>1 DEF CanWithdraw
<1>6. lcOut \in 0 .. amm.lc /\ part \in 0 .. amm.hbd /\ hbdOut \in 0 .. amm.hbd
  BY <1>4, <1>5, WithdrawalFits
<1>7. n.lc = amm.lc - lcOut /\ n.hbd = amm.hbd - hbdOut /\ n.shares = amm.shares - s.t.shares
  BY <1>2, <1>3 DEF Amm
<1>8. TrancheView(lp[a][id]).value_hbd = part
  BY <1>2, <1>5 DEF TrancheView, WithdrawQuote, Reserves
<1> HIDE DEF s, m, n
<1>9. t \in Tranche /\ t.closed /\ t.weight = 0
  BY <1>2 DEF Tranche
<1> HIDE DEF t, lcOut, hbdOut
<1>10. OpenOf(Rewrite(lp, a, id, t)) = IF t.closed THEN OpenOf(lp) \ {k} ELSE OpenOf(lp)
  <2>1. <<a, id>> \in OpenOf(lp) /\ lp \in [Accounts -> Seq(Tranche)] /\ t \in Tranche
    BY <1>2, <1>4, <1>9
  <2> QED BY <2>1, OpenChanges, Zenon
<1>11. k \in Open /\ k \notin Open'
  <2>1. OpenOf(lp') = OpenOf(lp) \ {k}
    BY <1>1, <1>9, <1>10
  <2>2. Open' = OpenOf(lp') /\ Open = OpenOf(lp)
    BY DEF Open, OpenOf
  <2> HIDE DEF k
  <2> QED BY <1>2, <2>1, <2>2
<1>12. TrancheView(T(k)).value_hbd = part
  <2>1. T(k) = lp[a][id]
    BY DEF T
  <2> QED BY <1>8, <2>1
<1>13. \E u \in Tranche : Closes(a, id, u)
  BY <1>1, <1>9 DEF Rewrite, Closes
<1>14. /\ amm'.lc = amm.lc - lcOut /\ amm'.hbd = amm.hbd - hbdOut
       /\ amm'.shares = amm.shares - s.t.shares
  BY <1>1, <1>7
<1> QED BY <1>2, <1>5, <1>6, <1>11, <1>12, <1>13, <1>14 DEF lcOut, hbdOut

\* What a recorded call adds to the returns is what it moves.
LEMMA RecordedDrift ==
  ASSUME NEW next, Recorded(next), market \in [lc : Int, hbd : Int],
         amm.lc \in Nat, amm.hbd \in Nat, amm'.lc \in Nat, amm'.hbd \in Nat
  PROVE  /\ market' \in [lc : Int, hbd : Int] /\ chart' = next
         /\ amm'.lc - market'.lc = amm.lc - market.lc
         /\ amm'.hbd - market'.hbd = amm.hbd - market.hbd
<1> DEFINE x == market.lc + (amm'.lc - amm.lc)
           y == market.hbd + (amm'.hbd - amm.hbd)
<1>1. market' = [lc |-> x, hbd |-> y] /\ chart' = next
  BY DEF Recorded, MarketAfter, Return
<1>2. market.lc \in Int /\ market.hbd \in Int
  OBVIOUS
<1>3. x \in Int /\ y \in Int /\ amm'.lc - x = amm.lc - market.lc
      /\ amm'.hbd - y = amm.hbd - market.hbd
  BY <1>2
<1> HIDE DEF x, y
<1>4. market'.lc = x /\ market'.hbd = y /\ market' \in [lc : Int, hbd : Int]
  BY <1>1, <1>3
<1> QED BY <1>1, <1>3, <1>4

\* A replay that ends where the pool does is in step.
LEMMA StepInto ==
  ASSUME chart'.lc = amm'.lc, chart'.hbd = amm'.hbd, chart'.shares = amm'.shares,
         \A b \in Accounts :
           /\ Len(chart'.minted[b]) = Len(lp'[b])
           /\ \A i \in DOMAIN lp'[b] :
                chart'.minted[b][i] = IF lp'[b][i].closed THEN 0 ELSE lp'[b][i].shares
  PROVE  InStep'
BY DEF InStep, Reconciled

LEMMA SellFollows ==
  ASSUME PoolInv, HistoryInv, NEW a \in Accounts, NEW n \in LcAmounts,
         SwapLCForHBD(a, n), Recorded(ReplaySwap(TRUE, n))
  PROVE  HistoryInv' /\ Followed
<1> DEFINE c   == ReplaySwap(TRUE, n)
           out == SwapOut(amm.lc, amm.hbd, n)
<1>1. /\ MaySwap(amm.lc, amm.hbd, n) /\ lp' = lp
      /\ amm' = [amm EXCEPT !.lc = amm.lc + n, !.hbd = amm.hbd - out]
  BY DEF SwapLCForHBD, MaySell
<1>2. amm \in Amm /\ amm.lc \in Nat /\ amm.hbd \in Nat /\ n \in Nat \ {0}
  BY StateFields, ConstantTypes
<1>3. amm' \in Amm /\ amm'.lc \in Nat /\ amm'.hbd \in Nat
  <2>1. PoolInv'
    BY SellStep
  <2>2. amm' \in Amm
    BY <2>1 DEF PoolInv, Sound
  <2> QED BY <2>2 DEF Amm
<1>4. /\ market' \in [lc : Int, hbd : Int] /\ chart' = c
      /\ amm'.lc - market'.lc = amm.lc - market.lc
      /\ amm'.hbd - market'.hbd = amm.hbd - market.hbd
  BY <1>2, <1>3, RecordedDrift DEF HistoryInv
<1>5. /\ c \in Charts /\ c.minted = chart.minted /\ c.shares = chart.shares
      /\ chart.hbd > 0 /\ MaySwap(chart.lc, chart.hbd, n) =>
           c.lc = chart.lc + n /\ c.hbd = chart.hbd - SwapOut(chart.lc, chart.hbd, n)
  BY <1>2, SwapReplayed DEF HistoryInv
<1> HIDE DEF c
<1>6. HistoryInv'
  BY <1>1, <1>4, <1>5 DEF HistoryInv
<1>7. amm.hbd > 0
  BY <1>1, <1>2 DEF MaySwap
<1>8. amm'.lc = amm.lc + n /\ amm'.hbd = amm.hbd - out /\ amm'.shares = amm.shares
  BY <1>1, <1>2 DEF Amm
<1>9. InStep => InStep'
  <2> SUFFICES ASSUME InStep PROVE InStep'
    OBVIOUS
  <2>1. chart.lc = amm.lc /\ chart.hbd = amm.hbd /\ chart.shares = amm.shares
    BY DEF InStep, Reconciled
  <2>2. c.lc = amm'.lc /\ c.hbd = amm'.hbd /\ c.shares = amm'.shares
    BY <1>1, <1>5, <1>7, <1>8, <2>1
  <2>3. \A b \in Accounts :
           /\ Len(chart'.minted[b]) = Len(lp'[b])
           /\ \A i \in DOMAIN lp'[b] :
                chart'.minted[b][i] = IF lp'[b][i].closed THEN 0 ELSE lp'[b][i].shares
    BY <1>1, <1>4, <1>5 DEF InStep
  <2> QED BY <1>4, <2>2, <2>3, StepInto
<1> QED BY <1>4, <1>6, <1>9 DEF Followed

LEMMA BuyFollows ==
  ASSUME PoolInv, HistoryInv, NEW a \in Accounts, NEW n \in HbdAmounts,
         SwapHBDForLC(a, n), Recorded(ReplaySwap(FALSE, n))
  PROVE  HistoryInv' /\ Followed
<1> DEFINE c   == ReplaySwap(FALSE, n)
           out == SwapOut(amm.hbd, amm.lc, n)
<1>1. /\ MaySwap(amm.hbd, amm.lc, n) /\ lp' = lp
      /\ amm' = [amm EXCEPT !.hbd = amm.hbd + n, !.lc = amm.lc - out]
  BY DEF SwapHBDForLC, MayBuy
<1>2. amm \in Amm /\ amm.lc \in Nat /\ amm.hbd \in Nat /\ n \in Nat \ {0}
  BY StateFields, ConstantTypes
<1>3. amm' \in Amm /\ amm'.lc \in Nat /\ amm'.hbd \in Nat
  <2>1. PoolInv'
    BY BuyStep
  <2>2. amm' \in Amm
    BY <2>1 DEF PoolInv, Sound
  <2> QED BY <2>2 DEF Amm
<1>4. /\ market' \in [lc : Int, hbd : Int] /\ chart' = c
      /\ amm'.lc - market'.lc = amm.lc - market.lc
      /\ amm'.hbd - market'.hbd = amm.hbd - market.hbd
  BY <1>2, <1>3, RecordedDrift DEF HistoryInv
<1>5. /\ c \in Charts /\ c.minted = chart.minted /\ c.shares = chart.shares
      /\ chart.lc > 0 /\ MaySwap(chart.hbd, chart.lc, n) =>
           c.hbd = chart.hbd + n /\ c.lc = chart.lc - SwapOut(chart.hbd, chart.lc, n)
  BY <1>2, SwapReplayed DEF HistoryInv
<1> HIDE DEF c
<1>6. HistoryInv'
  BY <1>1, <1>4, <1>5 DEF HistoryInv
<1>7. amm.lc > 0
  BY <1>1, <1>2 DEF MaySwap
<1>8. amm'.lc = amm.lc - out /\ amm'.hbd = amm.hbd + n /\ amm'.shares = amm.shares
  BY <1>1, <1>2 DEF Amm
<1>9. InStep => InStep'
  <2> SUFFICES ASSUME InStep PROVE InStep'
    OBVIOUS
  <2>1. chart.lc = amm.lc /\ chart.hbd = amm.hbd /\ chart.shares = amm.shares
    BY DEF InStep, Reconciled
  <2>2. c.lc = amm'.lc /\ c.hbd = amm'.hbd /\ c.shares = amm'.shares
    BY <1>1, <1>5, <1>7, <1>8, <2>1
  <2>3. \A b \in Accounts :
           /\ Len(chart'.minted[b]) = Len(lp'[b])
           /\ \A i \in DOMAIN lp'[b] :
                chart'.minted[b][i] = IF lp'[b][i].closed THEN 0 ELSE lp'[b][i].shares
    BY <1>1, <1>4, <1>5 DEF InStep
  <2> QED BY <1>4, <2>2, <2>3, StepInto
<1> QED BY <1>4, <1>6, <1>9 DEF Followed

LEMMA RemoveFollows ==
  ASSUME PoolInv, HistoryInv, NEW day \in Walks, NEW a \in Accounts, NEW id \in DOMAIN lp[a],
         Dissolve(a, id, a, day), Recorded(ReplayRemove(a, id))
  PROVE  HistoryInv' /\ Followed
<1> DEFINE x    == lp[a][id].shares
           out  == MulDiv(amm.lc, x, amm.shares)
           part == MulDiv(amm.hbd, x, amm.shares)
           c    == ReplayRemove(a, id)
           held == chart.minted[a][id]
           w    == WithdrawQuote(held, chart)
           k    == <<a, id>>
           p    == [chart.minted EXCEPT ![a] = [chart.minted[a] EXCEPT ![id] = 0]]
<1>1. /\ x \in 1 .. amm.shares /\ out \in 0 .. amm.lc /\ LeavesDust(part) \in 0 .. amm.hbd
      /\ amm'.lc = amm.lc - out /\ amm'.hbd = amm.hbd - LeavesDust(part)
      /\ amm'.shares = amm.shares - x
      /\ k \in Open /\ k \notin Open' /\ TrancheView(T(k)).value_hbd = part
  BY DissolveFacts
<1>2. PICK t \in Tranche : Closes(a, id, t)
  BY DissolveFacts
<1>3. lp \in [Accounts -> Seq(Tranche)] /\ amm.lc \in Nat /\ amm.hbd \in Nat /\ amm.shares \in Nat
  BY StateFields
<1>4. amm'.lc \in Nat /\ amm'.hbd \in Nat
  BY <1>1, <1>3, SMTT(60)
<1>5. /\ market' \in [lc : Int, hbd : Int] /\ chart' = c
      /\ amm'.lc - market'.lc = amm.lc - market.lc
      /\ amm'.hbd - market'.hbd = amm.hbd - market.hbd
  BY <1>3, <1>4, RecordedDrift DEF HistoryInv
<1>6. /\ chart \in Charts /\ chart.minted \in [Accounts -> Seq(Int)]
      /\ \A b \in Accounts : Len(chart.minted[b]) = Len(lp[b])
                             /\ DOMAIN chart.minted[b] = DOMAIN lp[b]
  <2>1. chart \in Charts /\ chart.minted \in [Accounts -> Seq(Int)]
    BY DEF HistoryInv, Charts
  <2>2. \A b \in Accounts : Len(chart.minted[b]) = Len(lp[b])
    BY DEF HistoryInv
  <2> QED BY <1>3, <2>1, <2>2, LenProperties
<1>7. /\ c \in Charts
      /\ held = 0 => c = chart
      /\ held # 0 => /\ c.lc = chart.lc - w.lc /\ c.hbd = chart.hbd - w.hbd
                     /\ c.shares = chart.shares - held /\ c.minted = p
  BY <1>6, RemoveReplayed
<1>8. /\ \A b \in Accounts : Len(p[b]) = Len(chart.minted[b])
      /\ \A b \in Accounts : \A i \in DOMAIN chart.minted[b] :
           p[b][i] = IF b = a /\ i = id THEN 0 ELSE chart.minted[b][i]
  BY <1>6, EntryChanged
<1>9. /\ \A b \in Accounts : Len(lp'[b]) = Len(lp[b]) /\ DOMAIN lp'[b] = DOMAIN lp[b]
      /\ \A b \in Accounts : \A i \in DOMAIN lp[b] :
           lp'[b][i] = IF b = a /\ i = id THEN t ELSE lp[b][i]
  BY <1>2, <1>3, EntryChanged DEF Closes
<1> HIDE DEF c, p
<1>10. \A b \in Accounts : Len(c.minted[b]) = Len(lp'[b])
  <2>1. CASE held = 0
    BY <1>6, <1>7, <1>9, <2>1
  <2>2. CASE held # 0
    BY <1>6, <1>7, <1>8, <1>9, <2>2
  <2> QED BY <2>1, <2>2
<1>11. \A b \in Accounts : \A i \in DOMAIN lp'[b] : lp'[b][i].closed <=> lp'[b][i].weight = 0
  <2> TAKE b \in Accounts
  <2>1. DOMAIN lp'[b] = DOMAIN lp[b]
    BY <1>9
  <2> TAKE i \in DOMAIN lp'[b]
  <2>2. CASE b = a /\ i = id
    <3>1. lp'[b][i] = t
      BY <1>9, <2>1, <2>2
    <3> QED BY <1>2, <3>1 DEF Closes
  <2>3. CASE ~ (b = a /\ i = id)
    <3>1. lp'[b][i] = lp[b][i]
      BY <1>9, <2>1, <2>3
    <3> QED BY <2>1, <3>1 DEF HistoryInv
  <2> QED BY <2>2, <2>3
<1>12. HistoryInv'
  BY <1>5, <1>7, <1>10, <1>11 DEF HistoryInv
<1>13. InStep /\ ~ LeavesDustBehind => InStep'
  <2> SUFFICES ASSUME InStep, ~ LeavesDustBehind PROVE InStep'
    OBVIOUS
  <2>1. /\ chart.lc = amm.lc /\ chart.hbd = amm.hbd /\ chart.shares = amm.shares
        /\ \A b \in Accounts : \A i \in DOMAIN lp[b] :
             chart.minted[b][i] = IF lp[b][i].closed THEN 0 ELSE lp[b][i].shares
    BY DEF InStep, Reconciled
  <2>2. ~ lp[a][id].closed
    BY <1>1 DEF Open
  <2>3. held = x
    BY <2>1, <2>2
  <2>4. w.lc = out /\ w.hbd = part
    BY <1>1, <2>1, <2>3 DEF WithdrawQuote
  <2>5. LeavesDust(part) = part
    BY <1>1 DEF LeavesDustBehind
  <2>6. held # 0
    BY <1>1, <1>3, <2>3
  <2>7. c.lc = amm'.lc /\ c.hbd = amm'.hbd /\ c.shares = amm'.shares /\ c.minted = p
    BY <1>1, <1>7, <2>1, <2>3, <2>4, <2>5, <2>6
  <2>8. \A b \in Accounts : \A i \in DOMAIN lp'[b] :
          c.minted[b][i] = IF lp'[b][i].closed THEN 0 ELSE lp'[b][i].shares
    <3> TAKE b \in Accounts
    <3>1. DOMAIN lp'[b] = DOMAIN lp[b] /\ DOMAIN chart.minted[b] = DOMAIN lp[b]
      BY <1>6, <1>9
    <3> TAKE i \in DOMAIN lp'[b]
    <3>2. CASE b = a /\ i = id
      <4>1. lp'[b][i] = t /\ c.minted[b][i] = 0
        BY <1>8, <1>9, <2>7, <3>1, <3>2
      <4> QED BY <1>2, <4>1 DEF Closes
    <3>3. CASE ~ (b = a /\ i = id)
      <4>1. lp'[b][i] = lp[b][i] /\ c.minted[b][i] = chart.minted[b][i]
        BY <1>8, <1>9, <2>7, <3>1, <3>3
      <4> QED BY <2>1, <3>1, <4>1
    <3> QED BY <3>2, <3>3
  <2> QED BY <1>5, <1>10, <2>7, <2>8, StepInto
<1> QED BY <1>5, <1>12, <1>13 DEF Followed

\* An eviction is in none of the walks.
LEMMA SweepFollows ==
  ASSUME PoolInv, HistoryInv, NEW day \in Walks, NEW a \in Accounts, NEW id \in DOMAIN lp[a],
         Dissolve(a, id, a, day), replays' = replays
  PROVE  HistoryInv' /\ Followed
<1>1. <<a, id>> \in Open /\ <<a, id>> \notin Open'
  BY DissolveFacts
<1>2. PICK t \in Tranche : Closes(a, id, t)
  BY DissolveFacts
<1>3. lp \in [Accounts -> Seq(Tranche)]
  BY StateFields
<1>4. /\ \A b \in Accounts : Len(lp'[b]) = Len(lp[b]) /\ DOMAIN lp'[b] = DOMAIN lp[b]
      /\ \A b \in Accounts : \A i \in DOMAIN lp[b] :
           lp'[b][i] = IF b = a /\ i = id THEN t ELSE lp[b][i]
  BY <1>2, <1>3, EntryChanged DEF Closes
<1>5. \A b \in Accounts : \A i \in DOMAIN lp'[b] : lp'[b][i].closed <=> lp'[b][i].weight = 0
  <2> TAKE b \in Accounts
  <2>1. DOMAIN lp'[b] = DOMAIN lp[b]
    BY <1>4
  <2> TAKE i \in DOMAIN lp'[b]
  <2>2. CASE b = a /\ i = id
    <3>1. lp'[b][i] = t
      BY <1>4, <2>1, <2>2
    <3> QED BY <1>2, <3>1 DEF Closes
  <2>3. CASE ~ (b = a /\ i = id)
    <3>1. lp'[b][i] = lp[b][i]
      BY <1>4, <2>1, <2>3
    <3> QED BY <2>1, <3>1 DEF HistoryInv
  <2> QED BY <2>2, <2>3
<1>6. market' = market /\ chart' = chart
  BY DEF replays
<1>7. HistoryInv'
  BY <1>4, <1>5, <1>6 DEF HistoryInv
<1>8. Evicts
  BY <1>1 DEF Evicts
<1> QED BY <1>7, <1>8 DEF Followed

\* The engine quotes a deposit what the contract takes and gives for it.
LEMMA DepositIsQuoted ==
  ASSUME PoolInv, PageInv, InStep, NEW n \in Nat \ {0}, NEW h \in Nat
  PROVE  LET q == LiquidityQuote(n, chart)
         IN  /\ (IF q.first THEN h ELSE q.hbd) = HbdFor(n, h)
             /\ q.shares = LPSharesFor(n, amm.lc, amm.shares)
<1>1. chart.lc = amm.lc /\ chart.hbd = amm.hbd /\ chart.shares = amm.shares
  BY DEF InStep, Reconciled
<1>2. /\ amm.lc \in Nat /\ amm.hbd \in Nat /\ amm.shares \in Nat /\ n > 0
  BY StateFields
<1>3. CASE 0 \in {amm.shares, amm.lc, amm.hbd}
  <2>1. IsFirstDeposit /\ (amm.shares = 0 \/ amm.lc = 0)
    BY <1>2, <1>3 DEF IsFirstDeposit, PageInv
  <2>2. LiquidityQuote(n, chart) = [ok |-> TRUE, first |-> TRUE, hbd |-> 0, shares |-> n]
    BY <1>1, <1>3 DEF LiquidityQuote
  <2>3. HbdFor(n, h) = h /\ LPSharesFor(n, amm.lc, amm.shares) = n
    BY <2>1 DEF HbdFor, LPSharesFor
  <2> QED BY <2>2, <2>3
<1>4. CASE 0 \notin {amm.shares, amm.lc, amm.hbd}
  <2>1. ~ IsFirstDeposit
    BY <1>4 DEF IsFirstDeposit
  <2>2. LiquidityQuote(n, chart) =
          [ok |-> n > 0 /\ LPSharesFor(n, amm.lc, amm.shares) > 0, first |-> FALSE,
           hbd |-> IF n > 0 THEN HbdRequiredFor(n, amm.lc, amm.hbd) ELSE 0,
           shares |-> LPSharesFor(n, amm.lc, amm.shares)]
    BY <1>1, <1>4 DEF LiquidityQuote
  <2>3. HbdFor(n, h) = HbdRequiredFor(n, amm.lc, amm.hbd)
    BY <2>1 DEF HbdFor
  <2> QED BY <1>2, <2>2, <2>3
<1> QED BY <1>3, <1>4

LEMMA AddFollows ==
  ASSUME PoolInv, PageInv, HistoryInv, NEW day \in Walks, NEW a \in Accounts,
         NEW n \in LcAmounts, NEW h \in HbdAmounts,
         AddLiquidity(a, n, h, day), Recorded(ReplayAdd(a, n, h))
  PROVE  HistoryInv' /\ Followed
<1> DEFINE hbdIn  == HbdFor(n, h)
           shares == LPSharesFor(n, amm.lc, amm.shares)
           weight == TrancheWeight(shares, 0)
           pool   == pool_liq + LiquidityEmission(acc_day, day)
           m      == SyncPoolAccumulator(amm, pool)
           t      == [shares |-> shares, start |-> height, weight |-> weight,
                      closed |-> FALSE, accStart |-> m.acc, lastTouch |-> height]
           u      == [m EXCEPT !.lc = m.lc + n, !.hbd = m.hbd + hbdIn,
                               !.shares = m.shares + shares, !.weight = m.weight + weight]
           c      == ReplayAdd(a, n, h)
           q      == LiquidityQuote(n, chart)
           p      == [chart.minted EXCEPT ![a] = Append(chart.minted[a], q.shares)]
<1>1. /\ hbdIn \in 1 .. h /\ shares > 0 /\ amm' = u
      /\ lp' = [lp EXCEPT ![a] = Append(lp[a], t)]
  BY DEF AddLiquidity, MayAdd
<1>2. m \in Amm /\ m.lc = amm.lc /\ m.hbd = amm.hbd /\ m.shares = amm.shares
  BY WalkSound
<1>3. /\ amm.lc \in Nat /\ amm.hbd \in Nat /\ amm.shares \in Nat /\ n \in Nat \ {0} /\ h \in Nat
      /\ height \in Nat /\ lp \in [Accounts -> Seq(Tranche)]
  BY StateFields, ConstantTypes
<1>4. shares \in Nat \ {0} /\ weight \in Nat \ {0}
  <2>1. shares \in Nat
    BY <1>3, SharesNat
  <2>2. shares \in Nat \ {0}
    BY <1>1, <2>1
  <2> QED BY <2>2, WeightThere
<1>5. t \in Tranche /\ t.closed = FALSE /\ t.weight # 0 /\ t.shares = shares
  <2> HIDE DEF shares, weight, m
  <2>1. m.acc \in Nat
    BY <1>2 DEF Amm
  <2> QED BY <1>3, <1>4, <2>1 DEF Tranche
<1>6. u.lc = amm.lc + n /\ u.hbd = amm.hbd + hbdIn /\ u.shares = amm.shares + shares
  BY <1>2 DEF Amm
<1> HIDE DEF t, u, m, weight, shares, hbdIn
<1>7. /\ amm'.lc = amm.lc + n /\ amm'.hbd = amm.hbd + hbdIn /\ amm'.shares = amm.shares + shares
      /\ amm'.lc \in Nat /\ amm'.hbd \in Nat
  <2>1. amm'.lc = amm.lc + n /\ amm'.hbd = amm.hbd + hbdIn /\ amm'.shares = amm.shares + shares
    BY <1>1, <1>6
  <2>2. hbdIn \in Nat
    BY <1>1, <1>3
  <2> QED BY <1>3, <2>1, <2>2
<1>8. /\ market' \in [lc : Int, hbd : Int] /\ chart' = c
      /\ amm'.lc - market'.lc = amm.lc - market.lc
      /\ amm'.hbd - market'.hbd = amm.hbd - market.hbd
  BY <1>3, <1>7, RecordedDrift DEF HistoryInv
<1>9. /\ c \in Charts
      /\ c.lc = chart.lc + n /\ c.hbd = chart.hbd + (IF q.first THEN h ELSE q.hbd)
      /\ c.shares = chart.shares + q.shares /\ c.minted = p /\ q.shares \in Int
  <2>1. chart \in Charts /\ n \in Nat \ {0} /\ h \in Nat
    BY <1>3 DEF HistoryInv
  <2>2. LET r == LiquidityQuote(n, chart)
            d == ReplayAdd(a, n, h)
        IN  /\ d \in Charts
            /\ d.lc = chart.lc + n /\ d.hbd = chart.hbd + (IF r.first THEN h ELSE r.hbd)
            /\ d.shares = chart.shares + r.shares
            /\ d.minted = [chart.minted EXCEPT ![a] = Append(chart.minted[a], r.shares)]
            /\ r.shares \in Int
    BY <2>1, AddReplayed, Zenon
  <2> QED BY <2>2
<1> DEFINE v == q.shares
<1> HIDE DEF c, q
<1>10. /\ chart.minted \in [Accounts -> Seq(Int)]
       /\ \A b \in Accounts : Len(chart.minted[b]) = Len(lp[b])
  BY DEF HistoryInv, Charts
<1>11. /\ \A b \in Accounts : /\ Len(p[b]) = Len(chart.minted[b]) + (IF b = a THEN 1 ELSE 0)
                              /\ Len(chart.minted[b]) \in Nat
                              /\ DOMAIN chart.minted[b] = 1 .. Len(chart.minted[b])
       /\ \A b \in Accounts : \A i \in DOMAIN chart.minted[b] : p[b][i] = chart.minted[b][i]
       /\ p[a][Len(chart.minted[a]) + 1] = q.shares
  <2> DEFINE z == chart.minted
             r == [z EXCEPT ![a] = Append(z[a], v)]
  <2>1. v \in Int /\ p = r /\ z \in [Accounts -> Seq(Int)]
    BY <1>9, <1>10
  <2> HIDE DEF v, p, z
  <2>2. /\ \A b \in Accounts : /\ Len(r[b]) = Len(z[b]) + (IF b = a THEN 1 ELSE 0)
                               /\ Len(z[b]) \in Nat
                               /\ DOMAIN z[b] = 1 .. Len(z[b])
        /\ \A b \in Accounts : \A i \in DOMAIN z[b] : r[b][i] = z[b][i]
        /\ r[a][Len(z[a]) + 1] = v
    BY <2>1, EntryAdded
  <2> QED BY <2>1, <2>2 DEF v, z
<1>12. /\ \A b \in Accounts : /\ Len(lp'[b]) = Len(lp[b]) + (IF b = a THEN 1 ELSE 0)
                              /\ Len(lp[b]) \in Nat
                              /\ DOMAIN lp'[b] = 1 .. Len(lp'[b])
                              /\ DOMAIN lp[b] = 1 .. Len(lp[b])
       /\ \A b \in Accounts : \A i \in DOMAIN lp[b] : lp'[b][i] = lp[b][i]
       /\ lp'[a][Len(lp[a]) + 1] = t
  BY <1>1, <1>3, <1>5, EntryAdded
<1> HIDE DEF v, p
<1>13. \A b \in Accounts : Len(c.minted[b]) = Len(lp'[b])
  <2> TAKE b \in Accounts
  <2>1. c.minted = p /\ Len(chart.minted[b]) = Len(lp[b])
    BY <1>9, <1>10
  <2>2. Len(p[b]) = Len(chart.minted[b]) + (IF b = a THEN 1 ELSE 0)
    BY <1>11
  <2>3. Len(lp'[b]) = Len(lp[b]) + (IF b = a THEN 1 ELSE 0)
    BY <1>12
  <2> QED BY <2>1, <2>2, <2>3
<1>14. \A b \in Accounts : \A i \in DOMAIN lp'[b] :
         i \in DOMAIN lp[b] \/ (b = a /\ i = Len(lp[a]) + 1)
  <2> TAKE b \in Accounts
  <2> DEFINE l == Len(lp[b])
             k == Len(lp'[b])
  <2>1. l \in Nat /\ k = l + (IF b = a THEN 1 ELSE 0) /\ DOMAIN lp'[b] = 1 .. k /\ DOMAIN lp[b] = 1 .. l
    BY <1>12
  <2> HIDE DEF l, k
  <2>2. \A i \in 1 .. k : i \in 1 .. l \/ (b = a /\ i = l + 1)
    BY <2>1
  <2> QED BY <2>1, <2>2 DEF l
<1>15. \A b \in Accounts : \A i \in DOMAIN lp'[b] : lp'[b][i].closed <=> lp'[b][i].weight = 0
  <2> TAKE b \in Accounts
  <2> TAKE i \in DOMAIN lp'[b]
  <2>1. CASE i \in DOMAIN lp[b]
    BY <1>12, <2>1 DEF HistoryInv
  <2>2. CASE b = a /\ i = Len(lp[a]) + 1
    <3>1. lp'[b][i] = t
      BY <1>12, <2>2
    <3> QED BY <1>5, <3>1
  <2> QED BY <1>14, <2>1, <2>2
<1>16. HistoryInv'
  BY <1>8, <1>9, <1>13, <1>15 DEF HistoryInv
<1>17. InStep => InStep'
  <2> SUFFICES ASSUME InStep PROVE InStep'
    OBVIOUS
  <2>1. (IF q.first THEN h ELSE q.hbd) = hbdIn /\ q.shares = shares
    BY <1>3, DepositIsQuoted DEF hbdIn, shares, q
  <2>2. /\ chart.lc = amm.lc /\ chart.hbd = amm.hbd /\ chart.shares = amm.shares
        /\ \A b \in Accounts : \A i \in DOMAIN lp[b] :
             chart.minted[b][i] = IF lp[b][i].closed THEN 0 ELSE lp[b][i].shares
    BY DEF InStep, Reconciled
  <2>3. c.lc = amm'.lc /\ c.hbd = amm'.hbd /\ c.shares = amm'.shares
    BY <1>7, <1>9, <2>1, <2>2
  <2>4. \A b \in Accounts : \A i \in DOMAIN lp'[b] :
          c.minted[b][i] = IF lp'[b][i].closed THEN 0 ELSE lp'[b][i].shares
    <3> TAKE b \in Accounts
    <3> TAKE i \in DOMAIN lp'[b]
    <3>1. CASE i \in DOMAIN lp[b]
      <4>1. i \in DOMAIN chart.minted[b]
        BY <1>10, <1>11, <1>12, <3>1
      <4>2. lp'[b][i] = lp[b][i] /\ c.minted[b][i] = chart.minted[b][i]
        BY <1>9, <1>11, <1>12, <3>1, <4>1
      <4> QED BY <2>2, <3>1, <4>2
    <3>2. CASE b = a /\ i = Len(lp[a]) + 1
      <4>1. lp'[b][i] = t /\ c.minted[b][i] = q.shares
        BY <1>9, <1>10, <1>11, <1>12, <3>2
      <4> QED BY <1>5, <2>1, <4>1
    <3> QED BY <1>14, <3>1, <3>2
  <2> QED BY <1>8, <1>13, <2>3, <2>4, StepInto
<1> QED BY <1>8, <1>16, <1>17 DEF Followed

LEMMA HistoryStarts == HistoryInit => HistoryInv
<1> SUFFICES ASSUME HistoryInit PROVE HistoryInv
  OBVIOUS
<1>1. /\ market = [lc |-> 0, hbd |-> 0]
      /\ chart = [lc |-> 0, hbd |-> 0, shares |-> 0, minted |-> [a \in Accounts |-> <<>>]]
      /\ lp = [a \in Accounts |-> <<>>]
  BY DEF HistoryInit, Init
<1>2. <<>> \in Seq(Int) /\ Len(<<>>) = 0 /\ DOMAIN <<>> = {}
  BY EmptySeq
<1>3. [a \in Accounts |-> <<>>] \in [Accounts -> Seq(Int)]
  BY <1>2
<1>4. market \in [lc : Int, hbd : Int] /\ chart \in Charts
  BY <1>1, <1>3 DEF Charts
<1>5. \A a \in Accounts : chart.minted[a] = <<>> /\ lp[a] = <<>>
  BY <1>1
<1> QED BY <1>2, <1>4, <1>5 DEF HistoryInv

LEMMA HistoryStep ==
  PoolInv /\ PageInv /\ HistoryInv /\ [HistoryNext]_<<vars, replays>> =>
    HistoryInv' /\ [Followed /\ AllTranches = Open]_<<vars, replays>>
<1> SUFFICES ASSUME PoolInv, PageInv, HistoryInv, [HistoryNext]_<<vars, replays>>
             PROVE  HistoryInv' /\ [Followed /\ AllTranches = Open]_<<vars, replays>>
  OBVIOUS
<1>1. AllTranches = Open
  BY AllAreNamed
<1>2. ASSUME replays' = replays, lp' = lp, amm' = amm
      PROVE  HistoryInv' /\ Followed
  BY <1>2, SameTableFollows
<1>3. CASE UNCHANGED <<vars, replays>>
  <2>1. replays' = replays /\ lp' = lp /\ amm' = amm
    BY <1>3 DEF vars
  <2>2. HistoryInv'
    BY <1>2, <2>1
  <2> QED BY <1>3, <2>2
<1>4. ASSUME Tick, Unrecorded PROVE HistoryInv' /\ Followed
  BY <1>2, <1>4 DEF Tick, Unrecorded
<1>5. ASSUME NEW day \in Walks, Settle(day), Unrecorded PROVE HistoryInv' /\ Followed
  BY <1>2, <1>5 DEF Settle, Unrecorded
<1>6. ASSUME NEW day \in Walks, NEW a \in Accounts, NEW n \in LcAmounts, NEW h \in HbdAmounts,
             AddLiquidity(a, n, h, day), Recorded(ReplayAdd(a, n, h))
      PROVE  HistoryInv' /\ Followed
  BY <1>6, AddFollows
<1>7. ASSUME NEW day \in Walks, NEW a \in Accounts, NEW id \in DOMAIN lp[a],
             ClaimPoolRewards(a, id, day), Unrecorded
      PROVE  HistoryInv' /\ Followed
  BY <1>7, ClaimFollows DEF Unrecorded
<1>8. ASSUME NEW day \in Walks, NEW a \in Accounts, NEW id \in DOMAIN lp[a],
             RemoveLiquidity(a, id, day), Recorded(ReplayRemove(a, id))
      PROVE  HistoryInv' /\ Followed
  <2>1. Dissolve(a, id, a, day)
    BY <1>8, CloserIsNoMatter
  <2> QED BY <1>8, <2>1, RemoveFollows
<1>9. ASSUME NEW day \in Walks, NEW a \in Accounts, NEW id \in DOMAIN lp[a], NEW c \in Accounts,
             SweepTranche(c, a, id, day), Unrecorded
      PROVE  HistoryInv' /\ Followed
  <2>1. Dissolve(a, id, a, day)
    BY <1>9, CloserIsNoMatter
  <2> QED BY <1>9, <2>1, SweepFollows DEF Unrecorded
<1>10. ASSUME NEW a \in Accounts, NEW n \in Gifts, FundLiquidity(a, n), Unrecorded
       PROVE  HistoryInv' /\ Followed
  BY <1>2, <1>10 DEF FundLiquidity, Unrecorded
<1>11. ASSUME NEW a \in Accounts, NEW n \in LcAmounts,
              SwapLCForHBD(a, n), Recorded(ReplaySwap(TRUE, n))
       PROVE  HistoryInv' /\ Followed
  BY <1>11, SellFollows
<1>12. ASSUME NEW a \in Accounts, NEW n \in HbdAmounts,
              SwapHBDForLC(a, n), Recorded(ReplaySwap(FALSE, n))
       PROVE  HistoryInv' /\ Followed
  BY <1>12, BuyFollows
<1>13. HistoryNext => HistoryInv' /\ Followed
  BY <1>4, <1>5, <1>6, <1>7, <1>8, <1>9, <1>10, <1>11, <1>12, Zenon DEF HistoryNext
<1> QED BY <1>1, <1>3, <1>13

\* The two histories follow the pool except where an eviction or dust parts
\* them, and the list of positions names every open one (market.ts,
\* client.ts).
THEOREM HistoriesFollow == HistorySpec => HistoryFollowsPool /\ []PageInv
<1>1. HistoryInit => PageInv /\ HistoryInv
  BY PageStart, HistoryStarts DEF HistoryInit
<1>2. [HistoryNext]_<<vars, replays>> => [Next]_vars
  <2>1. HistoryNext => Next
    BY Zenon DEF HistoryNext, Next
  <2> QED BY <2>1
<1>3. PoolInv /\ PageInv /\ [Next]_vars => PageInv'
  BY PageStep
<1>4. PoolInv /\ PageInv /\ HistoryInv /\ [HistoryNext]_<<vars, replays>> =>
        HistoryInv' /\ [Followed /\ AllTranches = Open]_<<vars, replays>>
  BY HistoryStep
<1>5. HistorySpec => []PoolInv
  BY HistoryIsOfThePool, PoolInvariant, PTL
<1>6. HistorySpec => []PageInv
  BY <1>1, <1>2, <1>3, <1>5, PTL DEF HistorySpec
<1>7. HistorySpec => []HistoryInv
  BY <1>1, <1>4, <1>5, <1>6, PTL DEF HistorySpec
<1> QED BY <1>4, <1>5, <1>6, <1>7, PTL DEF HistorySpec, HistoryFollowsPool

\* A call moves what the page showed before it, and the histories follow the
\* pool, as long as the accumulator's reading stays an int64
\* (pool/+page.svelte, market.ts, client.ts).
THEOREM PoolKeepsWord == HistorySpec /\ []RoomInAcc => PoolKeepsItsWord
<1>1. [HistoryNext]_<<vars, replays>> => [Next]_vars
  <2>1. HistoryNext => Next
    BY Zenon DEF HistoryNext, Next
  <2> QED BY <2>1
<1>2. PoolInv /\ PageInv /\ RoomInAcc /\ [Next]_vars => [AsShown]_vars
  BY StepShown
<1>3. HistorySpec => []PoolInv /\ []PageInv
  BY HistoryIsOfThePool, PoolInvariant, HistoriesFollow, PTL
<1>4. HistorySpec /\ []RoomInAcc => PoolPaysWhatIsShown
  BY <1>1, <1>2, <1>3, PTL DEF HistorySpec, PoolPaysWhatIsShown
<1> QED BY <1>4, HistoriesFollow, PTL DEF PoolKeepsItsWord
=============================================================================
