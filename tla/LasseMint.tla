------------------------------ MODULE LasseMint ------------------------------
(***************************************************************************)
(* LasseMint: time-lock positions ("mints") and the accrual walk that pays  *)
(* them.                                                                   *)
(*                                                                         *)
(* One action is one successful contract call.  A call that returns a      *)
(* failure is aborted by app.finish and the chain reverts everything it    *)
(* wrote, so a failing call is a call whose action is not enabled.         *)
(*                                                                         *)
(* `store' is the part of the key-value store that the walk reads and      *)
(* writes; its fields carry the names of the contract's keys, and an       *)
(* absent row is its zero value, as getU64 and getAmount read it.          *)
(***************************************************************************)
EXTENDS Engine, Sequences

CONSTANTS
  Accounts,
  Snapshot,            \* what the migration owes: [Accounts -> [liquid, staked]]
  MigrationMintDays,
  HistoricHardCap,
  MinMintAmount,
  VolumeStart, VolumeEnd,   \* the governed parameters in force
  MaxAccrualDays,      \* days one walk may cross
  ExpiryChunkSize,     \* entries of one chunk of an expiry list
  UserRetireBudget,    \* retirements an ordinary call performs
  MaxRetirePerWalk,    \* retirements one `advance' performs
  Heights,             \* BOUND: the heights at which calls are made
  LastDay,             \* BOUND: no mint matures after it
  Principals,          \* BOUND: the amounts minted
  Durations,           \* BOUND: the durations minted
  Funding,             \* BOUND: the <<pool, amount>> pairs given to a pool
  AdvanceSteps,        \* BOUND: the arguments of `advance'
  MaxMints             \* BOUND: mints of each account

VARIABLES
  height,              \* the block height of the next call
  store,               \* accrual state and reward pools
  mint,                \* mint_<account>_<id>: a sequence per account, ids from 1
  bal,                 \* liquid balances
  migDone,             \* accounts with a migration record
  supMigrated          \* sup_migrated

vars == <<height, store, mint, bal, migDone, supMigrated>>

-----------------------------------------------------------------------------
DayOf(h) == IF h <= GenesisHeight THEN 0 ELSE (h - GenesisHeight) \div HeightsPerDay

HeightOfDay(day) == GenesisHeight + day * HeightsPerDay

MaturityDay(m) == DayOf(MaturityHeight(m))

Days == 0 .. LastDay

FundTargets == {"pob", "viral", "deep", "liquidity", "lshare", "all"}

ASSUME LasseMintAssumption ==
  /\ IsFiniteSet(Accounts)
  /\ Heights \subseteq Nat /\ GenesisHeight \in Heights
  /\ LastDay \in Nat
  /\ \A h \in Heights : DayOf(h) + MaxMintDays <= LastDay
  /\ Snapshot \in [Accounts -> [liquid : Nat, staked : Nat]]
  /\ MigrationMintDays \in MinMintDays .. MaxMintDays
  /\ HistoricHardCap \in Nat /\ EmissionCap <= HistoricHardCap
  /\ MinMintAmount \in Nat \ {0}
  /\ VolumeStart \in Nat /\ VolumeEnd \in Nat
  /\ MaxAccrualDays \in Nat \ {0}
  /\ ExpiryChunkSize \in Nat \ {0}
  /\ UserRetireBudget \in Nat /\ MaxRetirePerWalk \in Nat
  /\ Principals \subseteq Nat
  /\ Durations \subseteq Nat
  /\ Funding \subseteq FundTargets \X (Nat \ {0})
  /\ AdvanceSteps \subseteq Int
  /\ MaxMints \in [Accounts -> Nat]

Entry == [owner : Accounts, shares : Nat]

Mint == [principal : Nat, shares : Nat, start : Nat, days : Nat,
         goodAccounting : BOOLEAN, ended : BOOLEAN, accStart : Nat, expChunk : Nat]

(***************************************************************************)
(* expl[d] is the list of chunks of day d.  A chunk that was deleted is    *)
(* <<>>: the code deletes a chunk rather than store it empty.  explCur[d]  *)
(* counts the chunks a partial drain of day d has finished.                *)
(***************************************************************************)
Store == [acc_per : Nat, acc_held : Nat, acc_day : Days, settled : Nat,
          shares_total : Int, shr : [Accounts -> Nat],
          exp : [Days -> Nat], accAt : [Days -> Nat],
          expl : [Days -> Seq(Seq(Entry))], explCur : [Days -> Nat],
          sup_emitted : Nat,
          pool_lshare : Nat, pool_viral : Nat, pool_deep : Nat, pool_liq : Nat]

-----------------------------------------------------------------------------
(* The expiry list of a day.                                               *)

\* Mutant: a matured entry takes the whole of its owner's vote.
RetireAllVotes(shr, chunk) ==
  [a \in DOMAIN shr |-> IF \E i \in DOMAIN chunk : chunk[i].owner = a THEN 0 ELSE shr[a]]

\* Takes the entries of one chunk off their owners' voting shares.
Retire(shr, chunk) ==
  LET shares == [i \in DOMAIN chunk |-> chunk[i].shares]
  IN  [a \in Accounts |-> Monus(shr[a], Total(shares, {i \in DOMAIN chunk : chunk[i].owner = a}))]

\* Mutant: a chunk takes entries without a limit.
AddExpiryEntryUnbounded(chunks, entry) ==
  LET n == Len(chunks)
  IN  IF n > 0 /\ chunks[n] # <<>> THEN [chunks EXCEPT ![n] = Append(@, entry)]
      ELSE Append(chunks, <<entry>>)

\* Appends one entry: to the last chunk while it has room, else to a new one.
AddExpiryEntry(chunks, entry) ==
  LET n == Len(chunks)
  IN  IF n > 0 /\ chunks[n] # <<>> /\ Len(chunks[n]) < ExpiryChunkSize
      THEN [chunks EXCEPT ![n] = Append(@, entry)]
      ELSE Append(chunks, <<entry>>)

\* Removes the first entry of the chunk that matches.
RemoveExpiryEntry(chunks, i, entry) ==
  IF i \notin DOMAIN chunks THEN chunks
  ELSE LET c    == chunks[i]
           hits == {j \in DOMAIN c : c[j] = entry}
           hit  == CHOOSE j \in hits : \A k \in hits : j <= k
       IN  IF hits = {} THEN chunks
           ELSE [chunks EXCEPT ![i] = SubSeq(c, 1, hit - 1) \o SubSeq(c, hit + 1, Len(c))]

-----------------------------------------------------------------------------
(* The accrual walk.  Its loop bodies are functions on the state of the    *)
(* loop.                                                                   *)

DrainState == [shr : [Accounts -> Nat], budget : Nat, cur : Nat]

WalkState == [store : Store, emitted : Nat, lshare : Nat, budget : Nat, stopped : BOOLEAN]

(***************************************************************************)
(* Drains the list of the day from its cursor on, whole chunks only, until *)
(* one is longer than what is left of the budget; the walk then stops with *)
(* the cursor stored and the day open.                                     *)
(***************************************************************************)
DrainExpiryList(w) ==
  LET s      == w.store
      day    == s.acc_day
      chunks == s.expl[day]
      turn   == [r \in DrainState |->
                   IF r.cur >= Len(chunks) \/ r.budget < Len(chunks[r.cur + 1]) THEN r
                   ELSE [shr    |-> Retire(r.shr, chunks[r.cur + 1]),
                         budget |-> r.budget - Len(chunks[r.cur + 1]),
                         cur    |-> r.cur + 1]]
      first  == [shr |-> s.shr, budget |-> w.budget, cur |-> s.explCur[day]]
      leave  == [r \in DrainState |->
                   LET done == r.cur >= Len(chunks)
                   IN  [w EXCEPT
                          !.store.shr = r.shr,
                          !.store.expl[day] =
                             IF done THEN <<>>
                             ELSE [i \in 1 .. Len(chunks) |->
                                     IF i <= r.cur THEN <<>> ELSE chunks[i]],
                          !.store.explCur[day] = IF done THEN 0 ELSE r.cur,
                          !.budget = r.budget,
                          !.stopped = ~ done]]
  IN  leave[Iterate(turn, first, Len(chunks))]

\* Mutant: no checkpoint is written.
ExpireDayUnrecorded(s, day) ==
  [s EXCEPT !.shares_total = Monus(@, s.exp[day]), !.exp[day] = 0]

\* The mints that mature leave the denominator and get their checkpoint.
ExpireDay(s, day) ==
  IF s.exp[day] = 0 THEN s
  ELSE [s EXCEPT !.shares_total = Monus(@, s.exp[day]),
                 !.exp[day] = 0,
                 !.accAt[day] = s.acc_per]

\* A day whose list is drained: its emission goes through the accumulator
\* before anything expires.
CloseDay(w) ==
  LET s       == w.store
      day     == s.acc_day
      amount  == EmissionBetween(HeightOfDay(day), HeightOfDay(day + 1))
      lshare  == Split(amount).lshare
      step    == AccumulatorStep(s.acc_per, lshare, s.acc_held, s.shares_total)
      paid    == [s EXCEPT !.acc_per = step.acc, !.acc_held = step.held]
  IN  [store   |-> [ExpireDay(paid, day) EXCEPT !.acc_day = day + 1],
       emitted |-> w.emitted + amount,
       lshare  |-> w.lshare + lshare,
       budget  |-> w.budget,
       stopped |-> FALSE]

\* The loop of accrueWalk: at most maxDays turns, none past the target day.
WalkDays(s, target, maxDays, budget) ==
  LET close == [w \in WalkState |-> IF w.stopped THEN w ELSE CloseDay(w)]
      turn  == [w \in WalkState |->
                  IF w.stopped \/ w.store.acc_day >= target THEN w
                  ELSE close[DrainExpiryList(w)]]
      first == [store |-> s, emitted |-> 0, lshare |-> 0, budget |-> budget, stopped |-> FALSE]
  IN  Iterate(turn, first, maxDays)

\* What the loop found is minted and credited to the pools once, at the end.
CreditWalk ==
  [w \in WalkState |->
    LET alloc == Split(w.emitted)
        pob   == SplitPoB(alloc.pob)
    IN  [w.store EXCEPT !.sup_emitted = @ + w.emitted,
                        !.pool_viral  = @ + pob.viral,
                        !.pool_deep   = @ + pob.deep,
                        !.pool_liq    = @ + alloc.liquidity,
                        !.pool_lshare = @ + w.lshare,
                        !.settled     = HeightOfDay(w.store.acc_day)]]

AccrueWalk(s, toHeight, maxDays, budget) ==
  LET limit  == IF maxDays <= 0 \/ maxDays > MaxAccrualDays THEN MaxAccrualDays ELSE maxDays
      target == DayOf(toHeight)
  IN  IF s.acc_day >= target THEN s ELSE CreditWalk[WalkDays(s, target, limit, budget)]

Accrue(s, toHeight) == AccrueWalk(s, toHeight, MaxAccrualDays, UserRetireBudget)

AccrueSteps(s, toHeight, maxDays) == AccrueWalk(s, toHeight, maxDays, MaxRetirePerWalk)

CaughtUp(s, toHeight) == s.acc_day >= DayOf(toHeight)

\* Recycled value goes to the pool and through the accumulator, as emission does.
Recycle(s, amount) ==
  LET step == AccumulatorStep(s.acc_per, amount, s.acc_held, s.shares_total)
  IN  IF amount = 0 THEN s
      ELSE [s EXCEPT !.pool_lshare = @ + amount, !.acc_per = step.acc, !.acc_held = step.held]

\* The schedule of a mint closed before the walk reached its maturity day.
UnscheduleExpiry(s, day, shares) == [s EXCEPT !.exp[day] = Monus(@, shares)]

\* The vote of a mint closed before the walk retired it.
ReleaseVotes(s, owner, m) ==
  LET day == MaturityDay(m)
  IN  [s EXCEPT !.shr[owner] = Monus(@, m.shares),
                !.expl[day] = RemoveExpiryEntry(@, m.expChunk,
                                                [owner |-> owner, shares |-> m.shares])]

\* registerMints for one position, on a store whose accrual is current.
RegisterMint(s, owner, m) ==
  LET day == MaturityDay(m)
  IN  [s EXCEPT !.shr[owner] = @ + m.shares,
                !.shares_total = @ + m.shares,
                !.exp[day] = @ + m.shares,
                !.expl[day] = AddExpiryEntry(@, [owner |-> owner, shares |-> m.shares])]

NewMint(s, owner, principal, shares, start, days) ==
  LET m == [principal |-> principal, shares |-> shares, start |-> start, days |-> days,
            goodAccounting |-> FALSE, ended |-> FALSE, accStart |-> s.acc_per, expChunk |-> 0]
      chunks == RegisterMint(s, owner, m).expl[MaturityDay(m)]
  IN  [m EXCEPT !.expChunk = Len(chunks)]

-----------------------------------------------------------------------------
(* Contract calls.                                                         *)

Init ==
  /\ height = GenesisHeight
  /\ store = [acc_per |-> 0, acc_held |-> 0, acc_day |-> 0, settled |-> GenesisHeight,
              shares_total |-> 0, shr |-> [a \in Accounts |-> 0],
              exp |-> [d \in Days |-> 0], accAt |-> [d \in Days |-> 0],
              expl |-> [d \in Days |-> <<>>], explCur |-> [d \in Days |-> 0],
              sup_emitted |-> 0,
              pool_lshare |-> 0, pool_viral |-> 0, pool_deep |-> 0, pool_liq |-> 0]
  /\ mint = [a \in Accounts |-> <<>>]
  /\ bal = [a \in Accounts |-> 0]
  /\ migDone = {}
  /\ supMigrated = 0

\* Blocks are produced; the next call sees a later height.
Tick ==
  /\ \E h \in Heights : h > height /\ height' = h
  /\ UNCHANGED <<store, mint, bal, migDone, supMigrated>>

\* The owner credits one account of the snapshot, before emission starts.
CreditMigration(a) ==
  LET liquid == Snapshot[a].liquid
      staked == Snapshot[a].staked
      m      == NewMint(store, a, staked, staked, GenesisHeight, MigrationMintDays)
  IN  /\ store.settled <= GenesisHeight
      /\ a \notin migDone
      /\ liquid + staked > 0
      /\ supMigrated + liquid + staked + EmissionCap <= HistoricHardCap
      /\ supMigrated' = supMigrated + liquid + staked
      /\ bal' = [bal EXCEPT ![a] = @ + liquid]
      /\ IF staked > 0
         THEN /\ mint' = [mint EXCEPT ![a] = Append(@, m)]
              /\ store' = RegisterMint(store, a, m)
         ELSE UNCHANGED <<mint, store>>
      /\ migDone' = migDone \union {a}
      /\ UNCHANGED height

\* `settle', and the walk any ordinary call performs on its way.
Settle ==
  /\ store' = Accrue(store, height)
  /\ UNCHANGED <<height, mint, bal, migDone, supMigrated>>

\* `advance', the permissionless catch-up.
Advance(maxDays) ==
  /\ store' = AccrueSteps(store, height, maxDays)
  /\ UNCHANGED <<height, mint, bal, migDone, supMigrated>>

\* Mutant: the balance is not looked at.
MayMintUnfunded(a, principal, days) ==
  /\ principal >= MinMintAmount
  /\ days \in MinMintDays .. MaxMintDays

MayMint(a, principal, days) ==
  /\ principal >= MinMintAmount
  /\ days \in MinMintDays .. MaxMintDays
  /\ bal[a] >= principal

CreateMint(a, principal, days) ==
  LET s      == Accrue(store, height)
      params == [volumeStart |-> VolumeStart, volumeEnd |-> VolumeEnd,
                 shareRate |-> ShareRate(height)]
      shares == ComputeShares(principal, days, params)
      m      == NewMint(s, a, principal, shares, height, days)
  IN  /\ Len(mint[a]) < MaxMints[a]
      /\ MayMint(a, principal, days)
      /\ CaughtUp(s, height)
      /\ shares > 0
      /\ bal' = [bal EXCEPT ![a] = @ - principal]
      /\ mint' = [mint EXCEPT ![a] = Append(@, m)]
      /\ store' = RegisterMint(s, a, m)
      /\ UNCHANGED <<height, migDone, supMigrated>>

(***************************************************************************)
(* Closing a position, for claim_mint and sweep_mint alike.  Whether the   *)
(* walk caught up is not looked at; what matters is whether it has closed  *)
(* the maturity day.                                                       *)
(***************************************************************************)
EndMint(owner, id, sweep) ==
  LET m         == mint[owner][id]
      s         == Accrue(store, height)
      day       == MaturityDay(m)
      retired   == s.acc_day > day
      accEnd    == IF IsMature(m, height) THEN s.accAt[day] ELSE s.acc_per
      accrued   == AtMost(Entitlement(m.shares, m.accStart, accEnd), s.pool_lshare)
      payout    == SettleMint(m, height, accrued)
      paid      == [s EXCEPT !.pool_lshare = @ - accrued]
      unvoted   == IF retired \/ s.explCur[day] >= m.expChunk THEN paid
                   ELSE ReleaseVotes(paid, owner, m)
      released  == IF retired THEN unvoted
                   ELSE UnscheduleExpiry([unvoted EXCEPT !.shares_total = @ - m.shares],
                                         day, m.shares)
  IN  /\ ~ m.ended
      /\ IsMature(m, height) => retired
      /\ sweep => payout.toOwner = 0
      /\ mint' = [mint EXCEPT ![owner][id].ended = TRUE]
      /\ bal' = [bal EXCEPT ![owner] = @ + payout.toOwner]
      /\ store' = Recycle(released, payout.toRewardPool)
      /\ UNCHANGED <<height, migDone, supMigrated>>

ClaimMint(a, id) == EndMint(a, id, FALSE)

SweepMint(owner, id) == EndMint(owner, id, TRUE)

ArmGoodAccounting(a, id) ==
  /\ CanArmGoodAccounting(mint[a][id], height)
  /\ mint' = [mint EXCEPT ![a][id].goodAccounting = TRUE]
  /\ UNCHANGED <<height, store, bal, migDone, supMigrated>>

\* A gift to a reward pool.  No walk happens first.
FundPool(a, target, amount) ==
  LET all    == Split(amount)
      pob    == CASE target = "pob" -> amount [] target = "all" -> all.pob [] OTHER -> 0
      viral  == SplitPoB(pob).viral
      recycled == CASE target = "lshare" -> amount [] target = "all" -> all.lshare [] OTHER -> 0
      given  == [store EXCEPT
                   !.pool_viral = @ + viral + (IF target = "viral" THEN amount ELSE 0),
                   !.pool_deep  = @ + (pob - viral) + (IF target = "deep" THEN amount ELSE 0),
                   !.pool_liq   = @ + (CASE target = "liquidity" -> amount
                                         [] target = "all" -> all.liquidity [] OTHER -> 0)]
  IN  /\ bal[a] >= amount
      /\ bal' = [bal EXCEPT ![a] = @ - amount]
      /\ store' = Recycle(given, recycled)
      /\ UNCHANGED <<height, mint, migDone, supMigrated>>

Next ==
  \/ Tick
  \/ Settle
  \/ \E n \in AdvanceSteps : Advance(n)
  \/ \E a \in Accounts :
       \/ CreditMigration(a)
       \/ \E p \in Principals, d \in Durations : CreateMint(a, p, d)
       \/ \E id \in DOMAIN mint[a] :
            \/ ClaimMint(a, id)
            \/ SweepMint(a, id)
            \/ ArmGoodAccounting(a, id)
       \/ \E f \in Funding : FundPool(a, f[1], f[2])

(***************************************************************************)
(* Anyone may call `advance' and the site sends it whenever it sees a lag, *)
(* so some `advance' is fair; users are not.                               *)
(***************************************************************************)
Fairness == WF_vars(\E n \in AdvanceSteps : Advance(n))

Spec == Init /\ [][Next]_vars /\ Fairness

-----------------------------------------------------------------------------
(* What the properties speak of.                                           *)

LiveIds == UNION {{<<a, id>> : id \in {i \in DOMAIN mint[a] : ~ mint[a][i].ended}} :
                   a \in Accounts}

M(k) == mint[k[1]][k[2]]

\* The walk has closed the maturity day.
Retired(m) == store.acc_day > MaturityDay(m)

\* The walk has taken the mint's shares off its owner's vote.
Unvoted(m) ==
  \/ Retired(m)
  \/ store.acc_day = MaturityDay(m) /\ store.explCur[store.acc_day] >= m.expChunk

SharesOf(S) == Total([k \in S |-> M(k).shares], S)

\* What closing the mint would draw from the pool.
Yield(m) ==
  Entitlement(m.shares, m.accStart,
              IF Retired(m) THEN store.accAt[MaturityDay(m)] ELSE store.acc_per)

-----------------------------------------------------------------------------
(* Every row holds a value of its kind: no balance, pool, vote or schedule *)
(* goes below zero.  shares_total is a signed row; that it never goes      *)
(* below zero is part of VotesMatchLists.                                  *)
TypeOK ==
  /\ height \in Heights
  /\ store \in Store
  /\ mint \in [Accounts -> Seq(Mint)]
  /\ bal \in [Accounts -> Nat]
  /\ migDone \subseteq Accounts
  /\ supMigrated \in Nat

(* No call creates or destroys LASSECASH: balances, locked principals and  *)
(* the four pools add up to what was migrated and emitted (ledger.go).     *)
SupplyConserved ==
  Total(bal, Accounts)
    + Total([k \in LiveIds |-> M(k).principal], LiveIds)
    + store.pool_lshare + store.pool_viral + store.pool_deep + store.pool_liq
  = supMigrated + store.sup_emitted

(* The L-Share pool always covers the value still held back and the yield  *)
(* of every open mint together, so the cap in endMint never bites          *)
(* (mint.go: "never overdraw; flooring should make this unreachable").     *)
PoolCoversYield ==
  store.pool_lshare >= store.acc_held + Total([k \in LiveIds |-> Yield(M(k))], LiveIds)

(* The yield denominator is exactly the open mints whose maturity day the  *)
(* walk has not closed, and every open day is scheduled to lose exactly    *)
(* the shares that mature on it (accrual.go, unscheduleExpiry).            *)
DenominatorIsLive ==
  /\ store.shares_total = SharesOf({k \in LiveIds : ~ Retired(M(k))})
  /\ \A d \in Days :
       store.exp[d] = SharesOf({k \in LiveIds : MaturityDay(M(k)) = d /\ ~ Retired(M(k))})

(* An account votes with the shares of its open mints that the walk has    *)
(* not retired, each exactly once, whether it was retired by a partial     *)
(* drain, by a closed day or by an early end (drainExpiryList, endMint).   *)
VotesEndAtMaturity ==
  \A a \in Accounts :
    store.shr[a] = SharesOf({k \in LiveIds : k[1] = a /\ ~ Unvoted(M(k))})

(* Every mint still to be retired has its entry in the chunk it recorded,  *)
(* and the lists hold no other entry (removeExpiryEntry).                  *)
ExpiryListsMatchMints ==
  \A d \in Days :
    LET due    == {k \in LiveIds : MaturityDay(M(k)) = d /\ ~ Unvoted(M(k))}
        chunks == store.expl[d]
    IN  \A i \in DOMAIN chunks \union {M(k).expChunk : k \in due} :
          LET chunk == IF i \in DOMAIN chunks THEN chunks[i] ELSE <<>>
              mine  == {k \in due : M(k).expChunk = i}
          IN  /\ Len(chunk) = Cardinality(mine)
              /\ \A k \in mine :
                   LET same(e) == e = [owner |-> k[1], shares |-> M(k).shares]
                   IN  Cardinality({j \in DOMAIN chunk : same(chunk[j])})
                         = Cardinality({l \in mine : same([owner  |-> l[1],
                                                            shares |-> M(l).shares])})

(* Every open mint whose maturity day is closed finds the checkpoint of    *)
(* that day, at or above its own starting point and not above the present  *)
(* accumulator; a missing row would read as zero (AccAtDay).               *)
CheckpointsKept ==
  \A k \in LiveIds :
    LET m == M(k) IN
      /\ m.accStart <= store.acc_per
      /\ Retired(m) => store.accAt[MaturityDay(m)] \in m.accStart .. store.acc_per

(* A matured position can be paid what it is due: the pool covers it and   *)
(* the checkpoint it is paid by is there (endMint).                        *)
YieldIsPayable == PoolCoversYield /\ CheckpointsKept

(* No unit is lost or made on its way between balances, principals and     *)
(* pools, and what the pools owe they can pay (mint.go, accrual.go).       *)
BooksArePayable == SupplyConserved /\ YieldIsPayable

(* What earns, what votes and the lists by which the walk takes both back  *)
(* agree with the open mints, entry by entry (accrual.go, endMint).        *)
VotesMatchLists == DenominatorIsLive /\ VotesEndAtMaturity /\ ExpiryListsMatchMints

(* The supply counter is the closed-form schedule at the height settled,   *)
(* which is the start of the day the walk has reached (accrueWalk).        *)
EmissionMatchesWalk ==
  /\ store.settled = HeightOfDay(store.acc_day)
  /\ store.sup_emitted = TotalEmittedAt(store.settled)

(* Catching up in slices of one day gives the very store one long walk     *)
(* gives, pools included (the comment on the walk's single write-back).    *)
SlicedWalkAgrees ==
  LET days  == DayOf(height) - store.acc_day
      ample == Cardinality(LiveIds)
      slice == [s \in Store |-> AccrueWalk(s, height, 1, ample)]
  IN  days \in 1 .. MaxAccrualDays =>
        AccrueWalk(store, height, days, ample) = Iterate(slice, store, days)

(* The yield of an open mint never falls, whatever anyone else does, and   *)
(* is fixed from the moment its maturity day is closed: early and late     *)
(* claimers are treated identically (endMint).                             *)
YieldNeverFalls ==
  [][\A k \in LiveIds :
       k \in LiveIds' =>
         LET m == M(k) IN
           /\ Yield(m)' >= Yield(m)
           /\ Retired(m) => Yield(m)' = Yield(m)]_vars

(* "not for a day after it matured" (accrual.go:11-12): once a mint's      *)
(* maturity day is over, value recycled afterwards adds nothing to it.     *)
NoYieldAfterMaturity ==
  [][\A k \in LiveIds :
       (k \in LiveIds' /\ DayOf(height) > MaturityDay(M(k))
          /\ store.acc_day' = store.acc_day) =>
         Yield(M(k))' <= Yield(M(k))]_vars

(* However long nobody called and however many mints matured together, the *)
(* permissionless `advance' brings the walk up to date.                    *)
WalkCatchesUp == []<>CaughtUp(store, height)
=============================================================================
