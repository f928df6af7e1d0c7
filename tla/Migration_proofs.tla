--------------------------- MODULE Migration_proofs ---------------------------
(***************************************************************************)
(* The migration, for every snapshot, tree and batch.                      *)
(*                                                                         *)
(* Every unit enters the supply once, and claims and the sweep stay in the *)
(* cap.  Neither is inductive as it stands.  That a claim is counted once  *)
(* needs to know what a record in migDone may stand for; that the sweep    *)
(* fits needs the room that the commit reserved for what is not yet        *)
(* claimed (MigrationInv).  Then: that its calls keep the books of the     *)
(* mints, alone and mixed with the calls of their owners (ContractSpec);   *)
(* what a claim is worth; and what the claim panel says of it.             *)
(***************************************************************************)
EXTENDS ClaimPage, LasseMint_proofs

\* Who claimed: a record that no batch has left.
Claimers == (migDone \cap Qualified) \ (early \cup late)

Pushed == Holdings(early) + Holdings(late)

\* What the commit has reserved and nobody has been issued yet.
Reserved == IF mig.swept THEN 0 ELSE mig.total - mig.claimed

Records ==
  /\ early \subseteq migDone /\ late \subseteq migDone /\ early \cap late = {}
  /\ migDone \subseteq Accounts
  /\ mig \in [tree : SUBSET (Qualified \cup Burned), total : Nat, claimed : Nat, swept : BOOLEAN]
  /\ supMigrated \in Nat /\ height \in Nat
  /\ ~ Committed => Claimers = {} /\ ~ mig.swept
  /\ mig.swept => height >= ClaimDeadlineHeight

MigrationInv ==
  /\ Records
  /\ mig.total = Holdings(mig.tree \cap Qualified)
  /\ mig.claimed = Holdings(Claimers)
  /\ mig.claimed <= mig.total
  /\ supMigrated = Pushed + (IF mig.swept THEN Holdings(mig.tree)
                             ELSE Holdings(mig.tree \cap Burned) + mig.claimed)
  /\ supMigrated + Reserved + EmissionCap <= HistoricHardCap + Holdings(late)

-----------------------------------------------------------------------------
(* What a set of accounts holds in the snapshot.                           *)

LEMMA HoldingIsNat ==
  ASSUME NEW a \in Accounts
  PROVE  Holding(a) \in Nat
<1>1. Snapshot[a] \in [liquid : Nat, staked : Nat]
  BY LasseMintAssumption
<1> QED BY <1>1 DEF Holding

LEMMA HoldingsIsNat ==
  ASSUME NEW S \in SUBSET Accounts
  PROVE  IsFiniteSet(S) /\ Holdings(S) \in Nat
<1>1. IsFiniteSet(S)
  BY FS_Subset, LasseMintAssumption
<1> DEFINE f == [a \in Accounts |-> Holding(a)]
<1>2. \A x \in S : f[x] \in Nat
  BY HoldingIsNat
<1> HIDE DEF f
<1>3. Total(f, S) \in Nat
  BY <1>1, <1>2, TotalIsNat
<1> QED BY <1>1, <1>3 DEF Holdings, f

LEMMA HoldingsEmpty == Holdings({}) = 0
BY TotalEmpty DEF Holdings

\* Two sets without a common account hold what each of them holds.
LEMMA HoldingsUnion ==
  ASSUME NEW S \in SUBSET Accounts, NEW T \in SUBSET Accounts, S \cap T = {}
  PROVE  Holdings(S \cup T) = Holdings(S) + Holdings(T)
<1> DEFINE f == [a \in Accounts |-> Holding(a)]
<1>1. (\A x \in S : f[x] \in Nat) /\ (\A x \in T : f[x] \in Nat)
  BY HoldingIsNat
<1>2. IsFiniteSet(S) /\ IsFiniteSet(T)
  BY HoldingsIsNat
<1> HIDE DEF f
<1>3. Total(f, S \cup T) = Total(f, S) + Total(f, T)
  BY <1>1, <1>2, TotalUnion
<1> QED BY <1>3 DEF Holdings, f

LEMMA HoldingsAdd ==
  ASSUME NEW S \in SUBSET Accounts, NEW a \in Accounts, a \notin S
  PROVE  Holdings(S \cup {a}) = Holdings(S) + Holding(a)
<1> DEFINE f == [x \in Accounts |-> Holding(x)]
<1>1. (\A x \in S : f[x] \in Nat) /\ f[a] \in Nat /\ f[a] = Holding(a)
  BY HoldingIsNat
<1>2. IsFiniteSet(S)
  BY HoldingsIsNat
<1> HIDE DEF f
<1>3. Total(f, S \cup {a}) = Total(f, S) + f[a]
  BY <1>1, <1>2, TotalAdd
<1> QED BY <1>1, <1>3 DEF Holdings, f

\* The numbers of a state.
LEMMA NumbersOfRecords ==
  ASSUME Records
  PROVE  /\ Holdings(early) \in Nat /\ Holdings(late) \in Nat /\ Pushed \in Nat
         /\ Holdings(mig.tree \cap Qualified) \in Nat
         /\ Holdings(mig.tree \cap Burned) \in Nat
         /\ Holdings(mig.tree) = Holdings(mig.tree \cap Qualified) + Holdings(mig.tree \cap Burned)
         /\ Holdings(Claimers) \in Nat
         /\ mig.total \in Nat /\ mig.claimed \in Nat /\ mig.swept \in BOOLEAN
         /\ EmissionCap \in Nat /\ HistoricHardCap \in Nat
<1>1. early \in SUBSET Accounts /\ late \in SUBSET Accounts /\ Claimers \in SUBSET Accounts
  BY DEF Records, Claimers
<1>2. mig.tree \subseteq Qualified \cup Burned /\ Qualified \subseteq Accounts
      /\ Burned \subseteq Accounts /\ Qualified \cap Burned = {}
  BY MigrationAssumption DEF Records
<1> DEFINE Q == mig.tree \cap Qualified
           B == mig.tree \cap Burned
<1>3. Q \in SUBSET Accounts /\ B \in SUBSET Accounts /\ Q \cap B = {} /\ mig.tree = Q \cup B
  BY <1>2
<1> HIDE DEF Q, B
<1>4. Holdings(Q) \in Nat /\ Holdings(B) \in Nat /\ Holdings(mig.tree) = Holdings(Q) + Holdings(B)
  BY <1>3, HoldingsIsNat, HoldingsUnion
<1>5. Holdings(early) \in Nat /\ Holdings(late) \in Nat /\ Holdings(Claimers) \in Nat
  BY <1>1, HoldingsIsNat
<1>6. mig.total \in Nat /\ mig.claimed \in Nat /\ mig.swept \in BOOLEAN
  BY DEF Records
<1> QED BY <1>4, <1>5, <1>6, EngineAssumption, LasseMintAssumption DEF Q, B, Pushed

-----------------------------------------------------------------------------
(* The calls.                                                              *)

\* A batch adds to the supply what its new records hold.
LEMMA NothingCommitted ==
  ASSUME MigrationInv, ~ Committed
  PROVE  mig.tree = {} /\ mig.total = 0 /\ mig.claimed = 0
<1>1. mig.tree = {}
  BY DEF Committed
<1>2. mig.tree \cap Qualified = {}
  BY <1>1
<1>3. Holdings(mig.tree \cap Qualified) = 0
  BY <1>2, HoldingsEmpty
<1>4. mig.total = 0
  BY <1>3 DEF MigrationInv
<1>5. mig.claimed <= mig.total /\ mig.claimed \in Nat
  BY NumbersOfRecords DEF MigrationInv
<1> QED BY <1>1, <1>4, <1>5

\* The records do not look at who is pushed, only at what is recorded.
LEMMA RecordsKept ==
  ASSUME Records, mig' = mig, Claimers' = Claimers,
         early' \subseteq migDone' /\ late' \subseteq migDone' /\ early' \cap late' = {},
         migDone' \subseteq Accounts, supMigrated' \in Nat, height' \in Nat,
         mig.swept => height' >= ClaimDeadlineHeight
  PROVE  Records'
<1>1. /\ mig' \in [tree : SUBSET (Qualified \cup Burned), total : Nat, claimed : Nat, swept : BOOLEAN]
      /\ (~ Committed => Claimers = {} /\ ~ mig.swept)
  BY DEF Records
<1>2. Committed' <=> Committed
  BY DEF Committed
<1>3. ~ Committed' => Claimers' = {} /\ ~ mig'.swept
  BY <1>1, <1>2
<1>4. mig'.swept => height' >= ClaimDeadlineHeight
  OBVIOUS
<1> QED BY <1>1, <1>3, <1>4 DEF Records

LEMMA BatchKeeps ==
  ASSUME MigrationInv, NEW S \in SUBSET Accounts, S \cap migDone = {},
         FitsTheCap(Holdings(S)), supMigrated' = supMigrated + Holdings(S),
         migDone' = migDone \cup S, Remember(S), UNCHANGED <<height, mig>>
  PROVE  MigrationInv'
<1> USE DEF MigrationInv
<1>1. /\ Holdings(early) \in Nat /\ Holdings(late) \in Nat
      /\ Holdings(Claimers) \in Nat
      /\ mig.total \in Nat /\ mig.claimed \in Nat /\ mig.swept \in BOOLEAN
      /\ EmissionCap \in Nat /\ HistoricHardCap \in Nat
      /\ Holdings(mig.tree) \in Nat /\ Holdings(mig.tree \cap Burned) \in Nat
  BY NumbersOfRecords
<1>2. Holdings(S) \in Nat
  BY HoldingsIsNat
<1>3. /\ early \cup late \subseteq migDone /\ early \cap late = {} /\ migDone \subseteq Accounts
      /\ supMigrated \in Nat
  BY DEF Records
<1>4. Claimers' = Claimers
  BY <1>3 DEF Claimers, Remember
<1>5. Holdings(early \cup S) = Holdings(early) + Holdings(S)
      /\ Holdings(late \cup S) = Holdings(late) + Holdings(S)
  <2>1. early \in SUBSET Accounts /\ late \in SUBSET Accounts /\ early \cap S = {} /\ late \cap S = {}
    BY <1>3
  <2> QED BY <2>1, HoldingsUnion
<1>6. Records'
  <2>2. /\ early' \subseteq migDone' /\ late' \subseteq migDone' /\ early' \cap late' = {}
        /\ migDone' \subseteq Accounts
    BY <1>3 DEF Remember
  <2>3. supMigrated' \in Nat
    BY <1>2, <1>3
  <2>4. height' \in Nat /\ (mig.swept => height' >= ClaimDeadlineHeight)
    BY DEF Records
  <2> QED BY <1>4, <2>2, <2>3, <2>4, RecordsKept
<1>7. Holdings(early') + Holdings(late') = (Holdings(early) + Holdings(late)) + Holdings(S)
  <2>1. CASE Committed
    <3>1. early' = early /\ late' = late \cup S
      BY <2>1 DEF Remember
    <3> QED BY <1>1, <1>2, <1>5, <3>1
  <2>2. CASE ~ Committed
    <3>1. late' = late /\ early' = early \cup S
      BY <2>2 DEF Remember
    <3> QED BY <1>1, <1>2, <1>5, <3>1
  <2> QED BY <2>1, <2>2
<1>8. supMigrated' = Pushed' + (IF mig'.swept THEN Holdings(mig'.tree)
                                ELSE Holdings(mig'.tree \cap Burned) + mig'.claimed)
  BY <1>1, <1>2, <1>7 DEF Pushed
<1>9. supMigrated' + Reserved' + EmissionCap <= HistoricHardCap + Holdings(late')
  <2>1. Reserved' = Reserved /\ Reserved \in Nat
    BY <1>1 DEF Reserved
  <2>2. CASE Committed
    <3>1. Holdings(late') = Holdings(late) + Holdings(S)
      BY <1>5, <2>2 DEF Remember
    <3> QED BY <1>1, <1>2, <1>3, <2>1, <3>1
  <2>3. CASE ~ Committed
    <3>1. late' = late
      BY <2>3 DEF Remember
    <3>2. mig.total = 0 /\ mig.claimed = 0
      BY <2>3, NothingCommitted
    <3>3. Reserved = 0
      BY <3>2 DEF Reserved
    <3> QED BY <1>1, <1>2, <1>3, <2>1, <3>1, <3>3 DEF FitsTheCap
  <2> QED BY <2>2, <2>3
<1> QED BY <1>4, <1>6, <1>8, <1>9

LEMMA CreditBatchKeeps ==
  ASSUME MigrationInv, NEW b \in Batches, CreditMigrationBatch(b) \/ BurnMigrationBatch(b)
  PROVE  MigrationInv'
<1>1. Fresh(b) \in SUBSET Accounts /\ Fresh(b) \cap migDone = {}
  <2>1. Elements(b) \subseteq Qualified \/ Elements(b) \subseteq Burned
    BY DEF CreditMigrationBatch, BurnMigrationBatch
  <2> QED BY <2>1, MigrationAssumption DEF Fresh
<1>2. /\ FitsTheCap(Holdings(Fresh(b))) /\ supMigrated' = supMigrated + Holdings(Fresh(b))
      /\ migDone' = migDone \cup Fresh(b) /\ Remember(Fresh(b)) /\ UNCHANGED <<height, mig>>
  BY DEF CreditMigrationBatch, BurnMigrationBatch
<1> QED BY <1>1, <1>2, BatchKeeps

\* The commit issues the burned leaves and reserves the others.
LEMMA SetSnapshotKeeps ==
  ASSUME MigrationInv, NEW T \in Trees, SetSnapshot(T)
  PROVE  MigrationInv'
<1> USE DEF MigrationInv
<1> DEFINE total == Holdings(T \cap Qualified)
           burnt == Holdings(T \cap Burned)
<1>1. T \subseteq Qualified \cup Burned /\ T # {} /\ Qualified \subseteq Accounts /\ Burned \subseteq Accounts
  BY MigrationAssumption
<1>2. total \in Nat /\ burnt \in Nat
  <2>1. T \cap Qualified \in SUBSET Accounts /\ T \cap Burned \in SUBSET Accounts
    BY <1>1
  <2> QED BY <2>1, HoldingsIsNat
<1> HIDE DEF total, burnt
<1>3. /\ ~ Committed /\ SnapshotFits(total, burnt)
      /\ mig' = [mig EXCEPT !.tree = T, !.total = total]
      /\ supMigrated' = supMigrated + burnt
      /\ UNCHANGED <<height, migDone, early, late>>
  BY DEF SetSnapshot, total, burnt
<1>4. /\ Holdings(early) \in Nat /\ Holdings(late) \in Nat /\ Pushed \in Nat
      /\ EmissionCap \in Nat /\ HistoricHardCap \in Nat /\ supMigrated \in Nat
      /\ mig \in [tree : SUBSET (Qualified \cup Burned), total : Nat, claimed : Nat, swept : BOOLEAN]
  BY NumbersOfRecords DEF Records
<1>5. /\ mig'.tree = T /\ mig'.total = total /\ mig'.claimed = mig.claimed
      /\ mig'.swept = mig.swept /\ ~ mig.swept
      /\ mig' \in [tree : SUBSET (Qualified \cup Burned), total : Nat, claimed : Nat, swept : BOOLEAN]
  BY <1>1, <1>2, <1>3, <1>4 DEF Records
<1>6. Claimers = {} /\ mig.claimed = 0 /\ Holdings(mig.tree \cap Burned) = 0
  <2>1. Claimers = {} /\ mig.tree \cap Burned = {}
    BY <1>3 DEF Records, Committed
  <2> QED BY <2>1, HoldingsEmpty
<1>7. Claimers' = Claimers /\ Pushed' = Pushed
  BY <1>3 DEF Claimers, Pushed
<1>8. Records'
  BY <1>1, <1>2, <1>3, <1>4, <1>5, <1>7 DEF Records, Committed
<1>9. mig'.total = Holdings(mig'.tree \cap Qualified) /\ mig'.claimed = Holdings(Claimers')
      /\ mig'.claimed <= mig'.total
  BY <1>2, <1>5, <1>6, <1>7, HoldingsEmpty DEF total
<1>10. supMigrated' = Pushed' + (IF mig'.swept THEN Holdings(mig'.tree)
                                 ELSE Holdings(mig'.tree \cap Burned) + mig'.claimed)
  <2>1. supMigrated = Pushed + (0 + 0)
    BY <1>5, <1>6
  <2>2. Holdings(mig'.tree \cap Burned) = burnt
    BY <1>5 DEF burnt
  <2> QED BY <1>2, <1>3, <1>4, <1>5, <1>6, <1>7, <2>1, <2>2
<1>11. supMigrated' + Reserved' + EmissionCap <= HistoricHardCap + Holdings(late')
  <2>1. Reserved' = total
    BY <1>2, <1>5, <1>6 DEF Reserved
  <2>2. supMigrated + (total + burnt) + EmissionCap <= HistoricHardCap
    BY <1>3 DEF SnapshotFits, FitsTheCap
  <2> QED BY <1>2, <1>3, <1>4, <2>1, <2>2
<1> QED BY <1>8, <1>9, <1>10, <1>11

\* A claim is issued out of what was reserved for it.
LEMMA ClaimKeeps ==
  ASSUME MigrationInv, NEW a \in Accounts, ClaimMigration(a)
  PROVE  MigrationInv'
<1> USE DEF MigrationInv
<1> DEFINE n == Holding(a)
<1>1. /\ ClaimAccepted(a) /\ supMigrated' = supMigrated + n
      /\ mig' = [mig EXCEPT !.claimed = @ + n]
      /\ migDone' = migDone \cup {a}
      /\ UNCHANGED <<height, early, late>>
  BY DEF ClaimMigration
<1>2. n \in Nat
  BY HoldingIsNat
<1> HIDE DEF n
<1>3. /\ Committed /\ height < ClaimDeadlineHeight /\ a \notin migDone
      /\ a \in mig.tree \cap Qualified /\ mig.claimed + n <= mig.total
  BY <1>1 DEF ClaimAccepted, n
<1>4. /\ Holdings(late) \in Nat /\ Pushed \in Nat
      /\ EmissionCap \in Nat /\ HistoricHardCap \in Nat /\ supMigrated \in Nat /\ height \in Nat
      /\ Holdings(mig.tree \cap Burned) \in Nat /\ mig.total \in Nat /\ mig.claimed \in Nat
      /\ mig \in [tree : SUBSET (Qualified \cup Burned), total : Nat, claimed : Nat, swept : BOOLEAN]
  BY NumbersOfRecords DEF Records
<1>5. ~ mig.swept
  <2>1. ClaimDeadlineHeight \in Nat
    <3>1. \A x \in Nat, y \in Nat : x * y \in Nat
      OBVIOUS
    <3>2. /\ GenesisHeight \in Nat /\ MigrationMintDays \in Nat /\ GraceDays \in Nat
          /\ BleedDays \in Nat /\ HeightsPerDay \in Nat
      BY EngineAssumption, LasseMintAssumption
    <3>3. (MigrationMintDays + GraceDays + BleedDays) * HeightsPerDay \in Nat
      <4> DEFINE x == MigrationMintDays + GraceDays + BleedDays
      <4>1. x \in Nat
        BY <3>2
      <4> HIDE DEF x
      <4>2. x * HeightsPerDay \in Nat
        BY <3>1, <3>2, <4>1
      <4> QED BY <4>2 DEF x
    <3> QED BY <3>2, <3>3 DEF ClaimDeadlineHeight
  <2> QED BY <1>3, <1>4, <2>1 DEF Records
<1>6. /\ mig'.tree = mig.tree /\ mig'.total = mig.total /\ mig'.claimed = mig.claimed + n
      /\ mig'.swept = mig.swept
      /\ mig' \in [tree : SUBSET (Qualified \cup Burned), total : Nat, claimed : Nat, swept : BOOLEAN]
  BY <1>1, <1>2, <1>4
<1>7. Claimers' = Claimers \cup {a} /\ a \notin Claimers /\ Claimers \in SUBSET Accounts
  BY <1>1, <1>3 DEF Claimers, Records
<1>8. mig'.claimed = Holdings(Claimers')
  <2>1. Holdings(Claimers \cup {a}) = Holdings(Claimers) + n
    BY <1>7, HoldingsAdd DEF n
  <2> QED BY <1>6, <1>7, <2>1
<1>9. Pushed' = Pushed
  BY <1>1 DEF Pushed
<1>10. Records'
  BY <1>1, <1>2, <1>3, <1>4, <1>5, <1>6 DEF Records, Committed
<1>11. supMigrated' = Pushed' + (IF mig'.swept THEN Holdings(mig'.tree)
                                 ELSE Holdings(mig'.tree \cap Burned) + mig'.claimed)
  BY <1>1, <1>2, <1>4, <1>5, <1>6, <1>9
<1>12. supMigrated' + Reserved' + EmissionCap <= HistoricHardCap + Holdings(late')
  BY <1>1, <1>2, <1>4, <1>5, <1>6 DEF Reserved
<1> QED BY <1>2, <1>3, <1>4, <1>6, <1>8, <1>10, <1>11, <1>12

\* A receipt of a burn changes no sum.
LEMMA RecordBurnKeeps ==
  ASSUME MigrationInv, NEW a \in Accounts, RecordBurn(a)
  PROVE  MigrationInv'
<1> USE DEF MigrationInv
<1>1. /\ a \in mig.tree \cap Burned /\ migDone' = migDone \cup {a} /\ Committed
      /\ UNCHANGED <<height, supMigrated, mig, early, late>>
  BY DEF RecordBurn
<1>2. a \notin Qualified
  BY <1>1, MigrationAssumption
<1>3. Claimers' = Claimers
  BY <1>1, <1>2 DEF Claimers
<1>4. Records'
  BY <1>1, <1>3 DEF Records, Committed
<1>5. Pushed' = Pushed /\ Reserved' = Reserved
  BY <1>1 DEF Pushed, Reserved
<1> QED BY <1>1, <1>3, <1>4, <1>5

\* The sweep issues the rest of what was reserved.
LEMMA SweepKeeps ==
  ASSUME MigrationInv, SweepUnclaimed
  PROVE  MigrationInv'
<1> USE DEF MigrationInv
<1>1. /\ Committed /\ ~ mig.swept /\ height >= ClaimDeadlineHeight
      /\ supMigrated' = supMigrated + (mig.total - mig.claimed)
      /\ mig' = [mig EXCEPT !.swept = TRUE]
      /\ UNCHANGED <<height, migDone, early, late>>
  BY DEF SweepUnclaimed, Remainder
<1>2. /\ Holdings(late) \in Nat /\ Pushed \in Nat
      /\ EmissionCap \in Nat /\ HistoricHardCap \in Nat /\ supMigrated \in Nat
      /\ Holdings(mig.tree \cap Burned) \in Nat /\ mig.total \in Nat /\ mig.claimed \in Nat
      /\ Holdings(mig.tree) = mig.total + Holdings(mig.tree \cap Burned)
      /\ mig \in [tree : SUBSET (Qualified \cup Burned), total : Nat, claimed : Nat, swept : BOOLEAN]
  BY NumbersOfRecords DEF Records
<1>3. /\ mig'.tree = mig.tree /\ mig'.total = mig.total /\ mig'.claimed = mig.claimed
      /\ mig'.swept
      /\ mig' \in [tree : SUBSET (Qualified \cup Burned), total : Nat, claimed : Nat, swept : BOOLEAN]
  BY <1>1, <1>2
<1>4. Claimers' = Claimers /\ Pushed' = Pushed
  BY <1>1 DEF Claimers, Pushed
<1>5. supMigrated' \in Nat
  BY <1>1, <1>2
<1>6. Records'
  BY <1>1, <1>3, <1>4, <1>5 DEF Records, Committed
<1>7. supMigrated' = Pushed' + (IF mig'.swept THEN Holdings(mig'.tree)
                                ELSE Holdings(mig'.tree \cap Burned) + mig'.claimed)
  BY <1>1, <1>2, <1>3, <1>4
<1>8. supMigrated' + Reserved' + EmissionCap <= HistoricHardCap + Holdings(late')
  BY <1>1, <1>2, <1>3 DEF Reserved
<1> QED BY <1>3, <1>4, <1>6, <1>7, <1>8

LEMMA TimeGoesOn ==
  ASSUME Records, height' = height \/ (height' \in Heights /\ height' > height)
  PROVE  height \in Nat /\ height' \in Nat /\ height' >= height
<1>1. Heights \subseteq Nat
  BY LasseMintAssumption
<1>2. height \in Nat
  BY DEF Records
<1>3. CASE height' = height
  BY <1>2, <1>3
<1>4. CASE height' \in Heights /\ height' > height
  <2>1. height' \in Nat
    BY <1>1, <1>4
  <2> QED BY <1>2, <1>4, <2>1
<1> QED BY <1>3, <1>4

\* Neither time nor the calls of mints touch the books of the migration.
LEMMA OtherStepsKeep ==
  ASSUME MigrationInv, UNCHANGED <<migDone, supMigrated, mig, early, late>>,
         height' = height \/ (height' \in Heights /\ height' > height)
  PROVE  MigrationInv'
<1> USE DEF MigrationInv
<1>1. height \in Nat /\ height' \in Nat /\ height' >= height
  BY TimeGoesOn
<1>2. Claimers' = Claimers /\ Pushed' = Pushed /\ Reserved' = Reserved
  BY DEF Claimers, Pushed, Reserved
<1>3. mig.swept => height' >= ClaimDeadlineHeight
  <2>1. \A d : height >= d /\ d \in Int => height' >= d
    BY <1>1
  <2>2. ClaimDeadlineHeight \in Int
    <3>1. \A x \in Nat, y \in Nat : x * y \in Nat
      OBVIOUS
    <3>2. /\ GenesisHeight \in Nat /\ MigrationMintDays \in Nat /\ GraceDays \in Nat
          /\ BleedDays \in Nat /\ HeightsPerDay \in Nat
      BY EngineAssumption, LasseMintAssumption
    <3> DEFINE x == MigrationMintDays + GraceDays + BleedDays
    <3>3. x \in Nat
      BY <3>2
    <3> HIDE DEF x
    <3>4. GenesisHeight + x * HeightsPerDay \in Int
      BY <3>1, <3>2, <3>3
    <3> QED BY <3>4 DEF ClaimDeadlineHeight, x
  <2> QED BY <2>1, <2>2 DEF Records
<1>4. Records'
  <2>1. /\ early' \subseteq migDone' /\ late' \subseteq migDone' /\ early' \cap late' = {}
        /\ migDone' \subseteq Accounts /\ supMigrated' \in Nat
    BY DEF Records
  <2> QED BY <1>1, <1>2, <1>3, <2>1, RecordsKept
<1> QED BY <1>2, <1>4

LEMMA MintCallLeaves ==
  ASSUME MintCall
  PROVE  /\ UNCHANGED <<migDone, supMigrated, mig, early, late>>
         /\ height' = height \/ (height' \in Heights /\ height' > height)
<1>1. CASE Tick
  BY <1>1 DEF Tick, MintCall
<1>2. CASE Settle
  BY <1>2 DEF Settle, MintCall
<1>3. ASSUME NEW n \in AdvanceSteps, Advance(n)
      PROVE  UNCHANGED <<migDone, supMigrated>> /\ height' = height
  BY <1>3 DEF Advance
<1>4. ASSUME NEW a \in Qualified, NEW id \in DOMAIN mint[a], ClaimMint(a, id) \/ SweepMint(a, id)
      PROVE  UNCHANGED <<migDone, supMigrated>> /\ height' = height
  BY <1>4 DEF ClaimMint, SweepMint, EndMint
<1> QED BY <1>1, <1>2, <1>3, <1>4 DEF MintCall

LEMMA MintCallKeeps ==
  ASSUME MigrationInv, MintCall
  PROVE  MigrationInv'
BY MintCallLeaves, OtherStepsKeep

-----------------------------------------------------------------------------
(* The theorems.                                                           *)

LEMMA MigrationInitInv == MigrationInit => MigrationInv
<1> SUFFICES ASSUME MigrationInit PROVE MigrationInv
  OBVIOUS
<1>1. /\ mig = [tree |-> {}, total |-> 0, claimed |-> 0, swept |-> FALSE]
      /\ early = {} /\ late = {} /\ migDone = {} /\ supMigrated = 0 /\ height = GenesisHeight
  BY DEF MigrationInit, Init
<1>2. Claimers = {} /\ mig.tree \cap Qualified = {} /\ mig.tree \cap Burned = {}
  BY <1>1 DEF Claimers
<1>3. Records
  BY <1>1, <1>2, EngineAssumption DEF Records, Committed
<1>4. EmissionCap \in Nat /\ HistoricHardCap \in Nat /\ EmissionCap <= HistoricHardCap
  BY EngineAssumption, LasseMintAssumption
<1>5. Pushed = 0 /\ Reserved = 0
  BY <1>1, HoldingsEmpty DEF Pushed, Reserved
<1> QED BY <1>1, <1>2, <1>3, <1>4, <1>5, HoldingsEmpty DEF MigrationInv

LEMMA MigrationNextKeeps == MigrationInv /\ [MigrationNext]_mvars => MigrationInv'
<1> SUFFICES ASSUME MigrationInv, [MigrationNext]_mvars PROVE MigrationInv'
  OBVIOUS
<1>1. CASE MintCall
  BY <1>1, MintCallKeeps
<1>2. ASSUME NEW T \in Trees, SetSnapshot(T) PROVE MigrationInv'
  BY <1>2, SetSnapshotKeeps
<1>3. CASE SweepUnclaimed
  BY <1>3, SweepKeeps
<1>4. ASSUME NEW b \in Batches, CreditMigrationBatch(b) \/ BurnMigrationBatch(b) PROVE MigrationInv'
  BY <1>4, CreditBatchKeeps
<1>5. ASSUME NEW a \in Accounts, ClaimMigration(a) PROVE MigrationInv'
  BY <1>5, ClaimKeeps
<1>6. ASSUME NEW a \in Accounts, RecordBurn(a) PROVE MigrationInv'
  BY <1>6, RecordBurnKeeps
<1>7. CASE UNCHANGED mvars
  BY <1>7, OtherStepsKeep DEF mvars
<1> QED BY <1>1, <1>2, <1>3, <1>4, <1>5, <1>6, <1>7 DEF MigrationNext

\* The inductive invariant: what a record stands for, and the two sums.
THEOREM MigrationBooks == MigrationSpec => []MigrationInv
<1>1. MigrationInit => MigrationInv
  BY MigrationInitInv
<1>2. MigrationInv /\ [MigrationNext]_mvars => MigrationInv'
  BY MigrationNextKeeps
<1> QED BY <1>1, <1>2, PTL DEF MigrationSpec

\* The invariant in the words of the property.
LEMMA IssuedOnceHolds ==
  ASSUME MigrationInv
  PROVE  IssuedOnceWithinTheCap
<1>1. IssuedOnce
  BY DEF MigrationInv, IssuedOnce, Claimers, Pushed
<1>2. CapHoldsButForLateBatches
  <2>1. /\ Reserved \in Nat /\ supMigrated \in Nat /\ EmissionCap \in Nat
        /\ HistoricHardCap \in Nat /\ Holdings(late) \in Nat
    BY NumbersOfRecords DEF MigrationInv, Records, Reserved
  <2> QED BY <2>1 DEF MigrationInv, CapHoldsButForLateBatches
<1> QED BY <1>1, <1>2 DEF IssuedOnceWithinTheCap

\* Every unit of the snapshot is issued once, whichever way and however often
\* it is sent, and claims and the sweep stay within the hard cap (claim.go).
THEOREM IssuedOnceWithin == MigrationSpec => []IssuedOnceWithinTheCap
BY IssuedOnceHolds, MigrationBooks, PTL

-----------------------------------------------------------------------------
(* The mints under the migration: the calls of the migration keep what the *)
(* calls of LasseMint keep.  A batch registers its mints one by one; what  *)
(* is true between two of them is a loop invariant of RegisterAll.         *)

\* What a set of accounts holds staked.
Stakes(S) == Total([a \in Accounts |-> Snapshot[a].staked], S)

Liquids(S) == Total([a \in Accounts |-> Snapshot[a].liquid], S)

\* The turn of the loop, and the state it starts in.
RegisterTurn(b, S) ==
  [r \in Registering |->
     LET a == b[r.done + 1]
         m == MigrationMint(r.store, a)
         t == [r EXCEPT !.done = @ + 1]
     IN  IF r.done >= Len(b) THEN r
         ELSE IF a \notin S \/ Snapshot[a].staked = 0 THEN t
         ELSE [t EXCEPT !.store = RegisterMint(@, a, m), !.mint[a] = Append(@, m)]]

RegisterFirst == [store |-> store, mint |-> mint, done |-> 0]

LEMMA RegisterIs ==
  ASSUME NEW b, NEW S
  PROVE  RegisterAll(b, S) = Iterate(RegisterTurn(b, S), RegisterFirst, Len(b))
BY DEF RegisterAll, RegisterTurn, RegisterFirst

\* The accounts of S among the first n of the batch.
Among(b, S, n) == {b[i] : i \in 1 .. n} \cap S

\* The store s and the positions p, once the stakes of T are registered.
Stands(s, p, T) ==
  LET q == Positions(p)
      o == Positions(mint)
  IN  /\ p \in [Accounts -> Seq(Mint)] /\ AllPlaced(p)
      /\ Settled(s, height) /\ s.acc_day = 0
      /\ Sound(s, q, s.pool_lshare) /\ Rises(store, s, o)
      /\ DOMAIN o \subseteq DOMAIN q /\ \A k \in DOMAIN o : q[k] = o[k]
      /\ PoolsOf(s) = PoolsOf(store) /\ s.sup_emitted = store.sup_emitted
      /\ Total(Locked(q), DOMAIN q) = Total(Locked(o), DOMAIN o) + Stakes(T)
      /\ Listed(s, q)

Standing(b, S) ==
  {r \in Registering : r.done <= Len(b) /\ Stands(r.store, r.mint, Among(b, S, r.done))}

LEMMA StakesAdd ==
  ASSUME NEW S \in SUBSET Accounts, NEW a \in Accounts, a \notin S
  PROVE  /\ Stakes(S \cup {a}) = Stakes(S) + Snapshot[a].staked
         /\ Stakes(S) \in Nat /\ Snapshot[a].staked \in Nat /\ Snapshot[a].liquid \in Nat
<1> DEFINE f == [x \in Accounts |-> Snapshot[x].staked]
<1>1. \A x \in Accounts : f[x] \in Nat
  BY LasseMintAssumption
<1>2. IsFiniteSet(S)
  BY HoldingsIsNat
<1>3. f[a] = Snapshot[a].staked /\ Snapshot[a].liquid \in Nat
  BY LasseMintAssumption
<1>4. (\A x \in S : f[x] \in Nat) /\ f[a] \in Nat
  BY <1>1
<1> HIDE DEF f
<1>5. Total(f, S \cup {a}) = Total(f, S) + f[a] /\ Total(f, S) \in Nat
  BY <1>2, <1>4, TotalAdd, TotalIsNat
<1> QED BY <1>3, <1>4, <1>5 DEF Stakes, f

\* One more mint of a batch.
LEMMA StandsMore ==
  ASSUME BooksInv, NEW s, NEW p, NEW T \in SUBSET Accounts, Stands(s, p, T),
         NEW a \in Accounts, a \notin T, Snapshot[a].staked # 0
  PROVE  LET m == MigrationMint(s, a)
         IN  Stands(RegisterMint(s, a, m), [p EXCEPT ![a] = Append(@, m)], T \cup {a})
<1> DEFINE m == MigrationMint(s, a)
           new == [p EXCEPT ![a] = Append(@, m)]
           q == Positions(p)
           r == Positions(new)
           o == Positions(mint)
           k == <<a, Len(p[a]) + 1>>
           n == Snapshot[a].staked
           t == RegisterMint(s, a, m)
<1>1. /\ p \in [Accounts -> Seq(Mint)] /\ AllPlaced(p)
      /\ Settled(s, height) /\ s.acc_day = 0 /\ s \in Store
      /\ Sound(s, q, s.pool_lshare) /\ Rises(store, s, o)
      /\ DOMAIN o \subseteq DOMAIN q /\ (\A j \in DOMAIN o : q[j] = o[j])
      /\ PoolsOf(s) = PoolsOf(store) /\ s.sup_emitted = store.sup_emitted
      /\ Total(Locked(q), DOMAIN q) = Total(Locked(o), DOMAIN o) + Stakes(T)
      /\ Listed(s, q)
  BY DEF Stands, Settled
<1>2. /\ Stakes(T \cup {a}) = Stakes(T) + n /\ Stakes(T) \in Nat /\ n \in Nat \ {0}
  BY StakesAdd
<1>3. /\ GenesisHeight \in Heights /\ MigrationMintDays \in MinMintDays .. MaxMintDays
      /\ height \in Heights
  BY LasseMintAssumption, BooksRows
<1>4. m = NewMint(s, a, n, n, GenesisHeight, MigrationMintDays)
  BY DEF MigrationMint
<1> HIDE DEF n, m
<1>5. /\ Staked(m) /\ Placed(m) /\ ~ m.ended /\ m.principal = n /\ m.accStart = s.acc_per
      /\ m \in Mint /\ m.shares \in Nat
  <2>1. /\ Staked(m) /\ Placed(m) /\ ~ m.ended /\ m.principal = n /\ m.accStart = s.acc_per
    BY <1>1, <1>2, <1>3, <1>4, NewHolding
  <2> QED BY <2>1, HoldingFields DEF Staked
<1>6. Earns(s, m)
  BY <1>1, <1>3, <1>5, EarnsFromNow
<1>7. new \in [Accounts -> Seq(Mint)] /\ AllPlaced(new)
  BY <1>1, <1>5, AppendPlaced
<1>8. Joined(q, k, m, r)
  BY <1>1, <1>5, AppendPositions
<1>9. k[1] = a /\ m.expChunk = Len(AddExpiryEntry(s.expl[MaturityDay(m)], EntryOf(k, m)))
  <2>1. k[1] = a
    OBVIOUS
  <2> HIDE DEF k
  <2>2. n \in Nat
    BY <1>2
  <2> QED BY <1>1, <1>3, <1>4, <2>1, <2>2, NewChunk
<1> HIDE DEF q, r, o, k, new
<1>10. Listed(t, r)
  BY <1>1, <1>5, <1>6, <1>8, <1>9, RegisterVotes
<1>11. /\ Sound(t, r, t.pool_lshare) /\ Rises(s, t, q)
       /\ PoolsOf(t) = PoolsOf(s) /\ t.sup_emitted = s.sup_emitted
  BY <1>1, <1>5, <1>6, <1>8, RegisterBooks, ZenonT(60)
<1>12. t \in Store /\ SameYield(s, t) /\ Settled(t, height) /\ t.acc_day = 0
  <2>1. t \in Store /\ SameYield(s, t)
    BY <1>1, <1>5, RegisterMintFrame
  <2> HIDE DEF t
  <2>2. Settled(t, height)
    BY <1>1, <2>1, SameYieldFrame
  <2> QED BY <1>1, <2>1, <2>2 DEF SameYield
<1> HIDE DEF t
<1>13. Total(Locked(r), DOMAIN r) = Total(Locked(o), DOMAIN o) + Stakes(T \cup {a})
  <2>1. /\ Total(Locked(r), DOMAIN r) = Total(Locked(q), DOMAIN q) + m.principal
        /\ Total(Locked(q), DOMAIN q) \in Nat
    BY <1>1, <1>5, <1>8, LockedMore
  <2>2. Total(Locked(o), DOMAIN o) \in Nat
    BY BooksRows DEF o
  <2> QED BY <1>1, <1>2, <1>5, <2>1, <2>2
<1>14. DOMAIN o \subseteq DOMAIN r /\ \A j \in DOMAIN o : r[j] = o[j]
  BY <1>1, <1>8 DEF Joined
<1>15. Rises(store, t, o)
  <2>1. \A j \in DOMAIN o : EndOf(t, o[j]) = EndOf(s, o[j]) /\ (Earns(t, o[j]) <=> Earns(s, o[j]))
    BY <1>12 DEF SameYield, EndOf, Earns
  <2> QED BY <1>1, <2>1 DEF Rises
<1>16. PoolsOf(t) = PoolsOf(store) /\ t.sup_emitted = store.sup_emitted
  BY <1>1, <1>11
<1>17. Stands(t, new, T \cup {a})
  BY <1>7, <1>10, <1>11, <1>12, <1>13, <1>14, <1>15, <1>16 DEF Stands, o, r
<1> QED BY <1>17 DEF t, m, new

\* The next entry of a batch.
LEMMA AmongMore ==
  ASSUME NEW b \in Seq(Accounts), \A i, j \in DOMAIN b : b[i] = b[j] => i = j,
         NEW S, NEW n \in Nat, n < Len(b)
  PROVE  /\ b[n + 1] \in Accounts /\ b[n + 1] \notin Among(b, S, n)
         /\ Among(b, S, n) \in SUBSET Accounts
         /\ b[n + 1] \in S => Among(b, S, n + 1) = Among(b, S, n) \cup {b[n + 1]}
         /\ b[n + 1] \notin S => Among(b, S, n + 1) = Among(b, S, n)
<1>1. Len(b) \in Nat /\ DOMAIN b = 1 .. Len(b) /\ \A i \in 1 .. Len(b) : b[i] \in Accounts
  OBVIOUS
<1>2. n + 1 \in 1 .. Len(b) /\ 1 .. n \subseteq 1 .. Len(b) /\ 1 .. n + 1 = 1 .. n \cup {n + 1}
      /\ n + 1 \notin 1 .. n
  BY <1>1
<1>3. b[n + 1] \notin {b[i] : i \in 1 .. n}
  BY <1>1, <1>2
<1>4. {b[i] : i \in 1 .. n + 1} = {b[i] : i \in 1 .. n} \cup {b[n + 1]}
  BY <1>2
<1>5. {b[i] : i \in 1 .. n} \subseteq Accounts
  BY <1>1, <1>2
<1> QED BY <1>1, <1>2, <1>3, <1>4, <1>5 DEF Among

\* An account without a stake changes nothing.
LEMMA StandsIdle ==
  ASSUME NEW s, NEW p, NEW T \in SUBSET Accounts, Stands(s, p, T),
         NEW a \in Accounts, a \notin T, Snapshot[a].staked = 0
  PROVE  Stands(s, p, T \cup {a})
<1>1. Stakes(T \cup {a}) = Stakes(T)
  BY StakesAdd
<1> QED BY <1>1 DEF Stands

\* One turn keeps what stands between two of them.
LEMMA TurnStands ==
  ASSUME BooksInv, NEW b \in Seq(Accounts), \A i, j \in DOMAIN b : b[i] = b[j] => i = j,
         NEW S, NEW r \in Standing(b, S)
  PROVE  /\ RegisterTurn(b, S)[r] \in Standing(b, S)
         /\ r.done < Len(b) => RegisterTurn(b, S)[r].done = r.done + 1
<1> DEFINE T == Among(b, S, r.done)
           a == b[r.done + 1]
           m == MigrationMint(r.store, a)
           t == [r EXCEPT !.done = @ + 1]
           u == [t EXCEPT !.store = RegisterMint(@, a, m), !.mint[a] = Append(@, m)]
           s == RegisterMint(r.store, a, m)
           p == [r.mint EXCEPT ![a] = Append(@, m)]
           next == RegisterTurn(b, S)[r]
<1>1. /\ r \in Registering /\ r.done <= Len(b) /\ Stands(r.store, r.mint, T)
      /\ r.done \in Nat /\ Len(b) \in Nat
      /\ r = [store |-> r.store, mint |-> r.mint, done |-> r.done]
  BY DEF Standing, Registering
<1>2. next = IF r.done >= Len(b) THEN r
             ELSE IF a \notin S \/ Snapshot[a].staked = 0 THEN t
             ELSE u
  BY <1>1 DEF RegisterTurn
<1>3. CASE r.done >= Len(b)
  <2>1. next = r /\ ~ (r.done < Len(b))
    BY <1>1, <1>2, <1>3
  <2> QED BY <2>1
<1>4. CASE r.done < Len(b)
  <2> DEFINE n == r.done + 1
             U == Among(b, S, n)
  <2>1. /\ a \in Accounts /\ a \notin T /\ T \in SUBSET Accounts
        /\ a \in S => U = T \cup {a}
        /\ a \notin S => U = T
    BY <1>1, <1>4, AmongMore
  <2>2. n \in Nat /\ n <= Len(b) /\ ~ (r.done >= Len(b))
    BY <1>1, <1>4
  <2>3. t = [store |-> r.store, mint |-> r.mint, done |-> n]
    BY <1>1
  <2>4. r.store \in Store /\ r.mint \in [Accounts -> Seq(Mint)]
    BY <1>1 DEF Registering
  <2>5. u = [store |-> s, mint |-> p, done |-> n]
    <3> HIDE DEF m, a, t
    <3>1. t.store = r.store /\ t.mint = r.mint
      BY <2>3
    <3>2. u = [t EXCEPT !.store = s, !.mint = p]
      BY <3>1
    <3> HIDE DEF u, s, p
    <3> QED BY <2>3, <3>2
  <2> HIDE DEF U, t, u, s, p, next, n
  <2>6. CASE a \notin S \/ Snapshot[a].staked = 0
    <3>1. Stands(r.store, r.mint, U)
      <4>1. CASE a \notin S
        BY <1>1, <2>1, <4>1
      <4>2. CASE a \in S /\ Snapshot[a].staked = 0
        <5> HIDE DEF T, a
        <5>1. Stands(r.store, r.mint, T \cup {a})
          BY <1>1, <2>1, <4>2, StandsIdle
        <5> QED BY <2>1, <4>2, <5>1
      <4> QED BY <2>6, <4>1, <4>2
    <3>2. next = t
      BY <1>2, <2>2, <2>6
    <3>3. t \in Registering /\ t.done = n /\ t.store = r.store /\ t.mint = r.mint
      BY <2>2, <2>3, <2>4 DEF Registering
    <3>4. t \in Standing(b, S)
      BY <2>2, <3>1, <3>3 DEF Standing, U
    <3> QED BY <3>2, <3>3, <3>4 DEF n, next
  <2>7. CASE a \in S /\ Snapshot[a].staked # 0
    <3>1. Stands(s, p, U)
      <4> HIDE DEF T, a, m
      <4>1. Stands(s, p, T \cup {a})
        BY <1>1, <2>1, <2>7, StandsMore DEF s, p, m
      <4> QED BY <2>1, <2>7, <4>1
    <3>2. next = u
      BY <1>2, <2>2, <2>7
    <3>3. s \in Store /\ p \in [Accounts -> Seq(Mint)]
      BY <3>1 DEF Stands, Settled
    <3>4. u \in Registering /\ u.done = n /\ u.store = s /\ u.mint = p
      BY <2>2, <2>5, <3>3 DEF Registering
    <3>5. u \in Standing(b, S)
      BY <2>2, <3>1, <3>4 DEF Standing, U
    <3> QED BY <3>2, <3>4, <3>5 DEF n, next
  <2> QED BY <2>6, <2>7 DEF next
<1> QED BY <1>1, <1>3, <1>4

\* The whole batch.
LEMMA BatchStands ==
  ASSUME VotesInv, store.settled <= GenesisHeight,
         NEW b \in Seq(Accounts), \A i, j \in DOMAIN b : b[i] = b[j] => i = j, NEW S
  PROVE  LET done == RegisterAll(b, S)
         IN  done.store \in Store /\ Stands(done.store, done.mint, Among(b, S, Len(b)))
<1> DEFINE F     == Standing(b, S)
           turn  == RegisterTurn(b, S)
           first == RegisterFirst
           after(i) == Iterate(turn, first, i)
<1>1. BooksInv /\ Listed(store, Positions(mint)) /\ Len(b) \in Nat
  BY DEF VotesInv
<1>2. first \in F
  <2>1. /\ store \in Store /\ Settled(store, height) /\ mint \in [Accounts -> Seq(Mint)]
        /\ Sound(store, Positions(mint), store.pool_lshare)
        /\ Total(Locked(Positions(mint)), DOMAIN Positions(mint)) \in Nat
    BY <1>1, BooksRows
  <2>2. AllPlaced(mint)
    BY <1>1 DEF BooksInv, SafetyInv, AllPlaced
  <2>3. store.acc_day = 0
    BY <2>1, WalkAtGenesis
  <2>4. Rises(store, store, Positions(mint))
    BY <2>1, RisesStill
  <2>5. Stakes({}) = 0
    BY TotalEmpty DEF Stakes
  <2>6. Stands(store, mint, {})
    BY <1>1, <2>1, <2>2, <2>3, <2>4, <2>5 DEF Stands
  <2>7. Among(b, S, 0) = {}
    <3>1. 1 .. 0 = {}
      OBVIOUS
    <3> QED BY <3>1 DEF Among
  <2>8. first \in Registering /\ first.store = store /\ first.mint = mint /\ first.done = 0
    BY <2>1 DEF Registering, RegisterFirst
  <2> HIDE DEF first
  <2>9. Stands(first.store, first.mint, Among(b, S, first.done))
    <3>1. Among(b, S, first.done) = {}
      BY <2>7, <2>8, Zenon
    <3> QED BY <2>6, <2>8, <3>1, Zenon
  <2>10. first.done <= Len(b)
    BY <1>1, <2>8
  <2> QED BY <2>8, <2>9, <2>10 DEF Standing, F
<1>3. \A r \in F : turn[r] \in F /\ (r.done < Len(b) => turn[r].done = r.done + 1)
  BY <1>1, TurnStands
<1>4. first.done = 0
  BY DEF RegisterFirst
<1> HIDE DEF F, turn, first
<1>5. /\ after(0) = first
      /\ \A i \in Nat : after(i + 1) = turn[after(i)]
      /\ \A i \in Nat : after(i) \in F
  BY <1>2, <1>3, IterateLoop
<1> HIDE DEF after
<1>6. after(Len(b)).done = Len(b)
  <2> DEFINE I == {i \in Nat : i <= Len(b) => after(i).done = i}
  <2>1. 0 \in I
    BY <1>4, <1>5
  <2>2. ASSUME NEW i \in I PROVE i + 1 \in I
    <3>1. i \in Nat /\ (i <= Len(b) => after(i).done = i)
      OBVIOUS
    <3>2. CASE i + 1 <= Len(b)
      <4>1. i < Len(b) /\ i <= Len(b)
        BY <1>1, <3>1, <3>2
      <4>2. after(i).done = i
        BY <3>1, <4>1, Zenon
      <4>3. after(i) \in F /\ after(i + 1) = turn[after(i)]
        BY <1>5, <3>1, Zenon
      <4>4. after(i + 1).done = i + 1
        BY <1>3, <4>1, <4>2, <4>3
      <4> QED BY <3>1, <4>4
    <3>3. CASE ~ (i + 1 <= Len(b))
      BY <3>1, <3>3
    <3> QED BY <3>2, <3>3
  <2>3. I \subseteq Nat
    OBVIOUS
  <2> HIDE DEF I
  <2>4. I = Nat
    BY <2>1, <2>2, <2>3, SetInduction
  <2>5. Len(b) \in I
    BY <1>1, <2>4
  <2> QED BY <1>1, <2>5 DEF I
<1>7. RegisterAll(b, S) = after(Len(b))
  BY RegisterIs DEF after, turn, first
<1> DEFINE done == after(Len(b))
<1>8. done \in F /\ done.done = Len(b)
  BY <1>1, <1>5, <1>6
<1> HIDE DEF done
<1>9. done.store \in Store /\ Stands(done.store, done.mint, Among(b, S, Len(b)))
  BY <1>8 DEF F, Standing, Registering
<1> QED BY <1>7, <1>9 DEF done

-----------------------------------------------------------------------------
(* The calls.                                                              *)

\* What every call of the migration leaves of the mints.
MintsStay == SafetyInv' /\ BooksStay /\ VotesStay

LEMMA MintsStayKeeps ==
  ASSUME MintsStay
  PROVE  VotesInv' /\ BooksStay
BY DEF MintsStay, BooksStay, VotesStay, VotesInv, BooksInv

\* A store that the walk may have left, ready for the call's own writes.
Ready(s) ==
  LET q == Positions(mint)
  IN  /\ Settled(s, height) /\ Sound(s, q, s.pool_lshare) /\ Rises(store, s, q) /\ Listed(s, q)
      /\ PoolsOf(s) + store.sup_emitted = PoolsOf(store) + s.sup_emitted

LEMMA StoreReady ==
  ASSUME VotesInv
  PROVE  Ready(store) /\ Ready(Accrue(store, height))
<1> DEFINE q == Positions(mint)
<1>1. BooksInv /\ Listed(store, q)
  BY DEF VotesInv
<1>2. /\ Settled(store, height) /\ Sound(store, q, store.pool_lshare)
  BY <1>1, BooksRows
<1>3. Listed(Accrue(store, height), q)
  BY AccrueVotesNow
<1>4. /\ Settled(Accrue(store, height), height)
      /\ Sound(Accrue(store, height), q, Accrue(store, height).pool_lshare)
      /\ Rises(store, Accrue(store, height), q)
      /\ PoolsOf(Accrue(store, height)) + store.sup_emitted
           = PoolsOf(store) + Accrue(store, height).sup_emitted
  BY <1>1, AccrueBooksNow
<1>5. Rises(store, store, q)
  <2> HIDE DEF q
  <2> QED BY <1>2, RisesStill
<1> HIDE DEF q
<1>6. Ready(store)
  BY <1>1, <1>2, <1>5 DEF Ready, q
<1>7. Ready(Accrue(store, height))
  BY <1>3, <1>4 DEF Ready, q
<1> QED BY <1>6, <1>7

\* An account is credited with v, and r is recycled.
LEMMA IncomeStays ==
  ASSUME VotesInv, NEW s, Ready(s), NEW v \in Nat, NEW r \in Nat, NEW a \in Accounts,
         store' = Recycle(s, r), bal' = [bal EXCEPT ![a] = @ + v],
         supMigrated' = supMigrated + v + r, migDone' \subseteq Accounts,
         UNCHANGED <<height, mint>>
  PROVE  MintsStay
<1> DEFINE q == Positions(mint)
           t == Recycle(s, r)
           x == bal[a] + v
           B == Total(bal, Accounts)
           C == Total(bal', Accounts)
           L == Total(Locked(q), DOMAIN q)
<1>1. /\ Conserved(bal, q, store, supMigrated) /\ supMigrated \in Nat /\ height \in Heights
      /\ PoolsOf(store) \in Nat /\ store.sup_emitted \in Nat /\ store \in Store
      /\ B \in Nat /\ L \in Nat /\ bal \in [Accounts -> Nat] /\ mint \in [Accounts -> Seq(Mint)]
  BY BooksRows DEF VotesInv
<1>2. /\ Settled(s, height) /\ Sound(s, q, s.pool_lshare) /\ Rises(store, s, q) /\ Listed(s, q)
      /\ PoolsOf(s) + store.sup_emitted = PoolsOf(store) + s.sup_emitted /\ s \in Store
  BY DEF Ready, Settled
<1>3. bal[a] \in Nat /\ x \in Nat /\ bal' = [bal EXCEPT ![a] = x] /\ bal' \in [Accounts -> Nat]
  BY <1>1
<1>4. C = B - bal[a] + x
  BY <1>1, <1>3, BalanceMoves
<1>5. store' = t /\ mint' = mint
  OBVIOUS
<1> HIDE DEF q
<1>6. /\ Sound(t, q, t.pool_lshare) /\ Rises(s, t, q)
      /\ PoolsOf(t) = PoolsOf(s) + r /\ t.sup_emitted = s.sup_emitted
  BY <1>2, RecycleBooks
<1>7. Settled(t, height) /\ t \in Store
  BY <1>2, RecycleFrame DEF Settled
<1>8. Listed(t, q)
  <2>1. SameVotes(s, t)
    BY <1>2, <1>7, RecycleRows DEF SameVotes
  <2> HIDE DEF t
  <2> QED BY <1>2, <2>1, SameVotesListed
<1>9. PoolsOf(s) \in Nat /\ s.sup_emitted \in Nat
  BY <1>2, PoolsAreNat
<1> HIDE DEF t
<1>10. Rises(store, t, q)
  <2>1. Sound(store, q, store.pool_lshare)
    BY BooksRows DEF VotesInv, q
  <2> QED BY <1>1, <1>2, <1>6, <2>1, RisesTwice
<1>11. Conserved(bal', q, t, supMigrated')
  <2> DEFINE P == PoolsOf(store)
             Q == PoolsOf(s)
             E == store.sup_emitted
             F == s.sup_emitted
  <2>1. B + L + P = supMigrated + E /\ Q + E = P + F
    BY <1>1, <1>2 DEF Conserved
  <2>2. P \in Nat /\ Q \in Nat /\ E \in Nat /\ F \in Nat /\ B \in Nat /\ L \in Nat /\ supMigrated \in Nat
    BY <1>1, <1>9
  <2>3. PoolsOf(t) = Q + r /\ t.sup_emitted = F
    BY <1>6
  <2>4. C = B + v
    <3> HIDE DEF B, C, x
    <3>1. x = bal[a] + v
      BY DEF x
    <3> QED BY <1>1, <1>3, <1>4, <3>1
  <2> HIDE DEF P, Q, E, F, B, C, L, x
  <2>5. C + L + (Q + r) = (supMigrated + v + r) + F
    BY <2>1, <2>2, <2>4
  <2> QED BY <2>3, <2>5 DEF Conserved, C, L
<1>12. Kept(store, q, t, q)
  BY <1>10, RisesKept
<1>13. SafetyInv'
  <2>1. supMigrated' \in Nat
    BY <1>1
  <2> QED BY <1>1, <1>3, <1>5, <1>7, <2>1 DEF VotesInv, BooksInv, SafetyInv, TypeOK, Settled
<1>14. BooksStay /\ VotesStay
  BY <1>5, <1>6, <1>8, <1>11, <1>12 DEF BooksStay, VotesStay, q
<1> QED BY <1>13, <1>14 DEF MintsStay

\* Null, or nobody, is credited; no value is recycled.
LEMMA CreditStays ==
  ASSUME VotesInv, NEW v \in Nat, NEW a \in Accounts, bal' = [bal EXCEPT ![a] = @ + v],
         supMigrated' = supMigrated + v, migDone' \subseteq Accounts, UNCHANGED <<height, store, mint>>
  PROVE  MintsStay
<1>1. Ready(store)
  BY StoreReady
<1>2. store' = Recycle(store, 0)
  BY DEF Recycle
<1>3. supMigrated' = supMigrated + v + 0
  <2>1. supMigrated \in Nat
    BY BooksRows DEF VotesInv
  <2> QED BY <2>1
<1> QED BY <1>1, <1>2, <1>3, IncomeStays

\* The commit credits null with the burned leaves, a batch of burns with its own.
LEMMA BurnStays ==
  ASSUME VotesInv, MigrationInv,
         \/ \E T \in Trees : SetSnapshot(T)
         \/ \E b \in Batches : BurnMigrationBatch(b)
         \/ \E a \in Accounts : RecordBurn(a)
  PROVE  MintsStay
<1>1. Null \in Accounts /\ Qualified \subseteq Accounts /\ Burned \subseteq Accounts
  BY MigrationAssumption
<1>2. /\ migDone \subseteq Accounts /\ bal \in [Accounts -> Nat] /\ supMigrated \in Nat
  BY DEF VotesInv, BooksInv, SafetyInv, TypeOK
<1>3. ASSUME NEW T \in Trees, SetSnapshot(T) PROVE MintsStay
  <2> DEFINE n == Holdings(T \cap Burned)
  <2>1. n \in Nat
    <3>1. T \cap Burned \in SUBSET Accounts
      BY <1>1
    <3> QED BY <3>1, HoldingsIsNat
  <2>2. /\ supMigrated' = supMigrated + n /\ bal' = [bal EXCEPT ![Null] = @ + n]
        /\ UNCHANGED <<height, store, mint, migDone>>
    BY <1>3 DEF SetSnapshot
  <2> HIDE DEF n
  <2> QED BY <1>1, <1>2, <2>1, <2>2, CreditStays
<1>4. ASSUME NEW b \in Batches, BurnMigrationBatch(b) PROVE MintsStay
  <2> DEFINE n == Holdings(Fresh(b))
  <2>1. Fresh(b) \in SUBSET Accounts
    BY <1>1, <1>4 DEF BurnMigrationBatch, Fresh
  <2>2. n \in Nat
    BY <2>1, HoldingsIsNat
  <2>3. /\ supMigrated' = supMigrated + n /\ bal' = [bal EXCEPT ![Null] = @ + n]
        /\ UNCHANGED <<height, store, mint>> /\ migDone' = migDone \cup Fresh(b)
    BY <1>4 DEF BurnMigrationBatch
  <2> HIDE DEF n
  <2> QED BY <1>1, <1>2, <2>1, <2>2, <2>3, CreditStays
<1>5. ASSUME NEW a \in Accounts, RecordBurn(a) PROVE MintsStay
  <2>1. /\ UNCHANGED <<height, store, mint, bal, supMigrated>> /\ migDone' = migDone \cup {a}
    BY <1>5 DEF RecordBurn
  <2>2. bal' = [bal EXCEPT ![Null] = @ + 0] /\ supMigrated' = supMigrated + 0
    BY <1>1, <1>2, <2>1
  <2> QED BY <1>1, <1>2, <2>1, <2>2, CreditStays
<1> QED BY <1>3, <1>4, <1>5

\* The sweep recycles what nobody claimed.
LEMMA SweepStays ==
  ASSUME VotesInv, MigrationInv, SweepUnclaimed
  PROVE  MintsStay
<1> DEFINE s == Accrue(store, height)
<1>1. /\ supMigrated' = supMigrated + Remainder /\ store' = Recycle(s, Remainder)
      /\ UNCHANGED <<height, mint, bal, migDone>>
  BY DEF SweepUnclaimed
<1>2. Remainder \in Nat
  BY NumbersOfRecords DEF MigrationInv, Remainder
<1>3. Ready(s) /\ Null \in Accounts
  BY StoreReady, MigrationAssumption
<1>4. /\ migDone \subseteq Accounts /\ bal \in [Accounts -> Nat] /\ supMigrated \in Nat
  BY DEF VotesInv, BooksInv, SafetyInv, TypeOK
<1> HIDE DEF s
<1>5. bal' = [bal EXCEPT ![Null] = @ + 0] /\ supMigrated' = supMigrated + 0 + Remainder
  BY <1>1, <1>2, <1>3, <1>4
<1> QED BY <1>1, <1>2, <1>3, <1>4, <1>5, IncomeStays

\* What a claim settles, when its mint would have matured.
ClaimPaid(a) ==
  LET m == MigrationMint(store, a)
  IN  IF Snapshot[a].staked > 0 /\ IsMature(m, height) THEN SettleMint(m, height, 0)
      ELSE [toOwner |-> 0, toRewardPool |-> 0]

\* A claim that makes no mint pays and recycles what the account had staked.
LEMMA ClaimPaidExact ==
  ASSUME VotesInv, NEW a \in Accounts,
         ~ (Snapshot[a].staked > 0 /\ ~ IsMature(MigrationMint(store, a), height))
  PROVE  /\ ClaimPaid(a).toOwner \in Nat /\ ClaimPaid(a).toRewardPool \in Nat
         /\ ClaimPaid(a).toOwner + ClaimPaid(a).toRewardPool = Snapshot[a].staked
<1> DEFINE m == MigrationMint(store, a)
           n == Snapshot[a].staked
<1>1. n \in Nat /\ GenesisHeight \in Heights /\ MigrationMintDays \in MinMintDays .. MaxMintDays
  BY LasseMintAssumption
<1>2. store \in Store /\ height \in Nat
  BY BooksRows DEF VotesInv
<1>3. CASE n > 0 /\ IsMature(m, height)
  <2>1. Staked(m) /\ m.principal = n
    <3>1. n \in Nat \ {0}
      BY <1>1, <1>3
    <3> HIDE DEF n
    <3>2. m = NewMint(store, a, n, n, GenesisHeight, MigrationMintDays)
      BY DEF MigrationMint, n
    <3> QED BY <1>1, <1>2, <3>1, <3>2, NewHolding
  <2>2. ClaimPaid(a) = SettleMint(m, height, 0)
    BY <1>3 DEF ClaimPaid
  <2> HIDE DEF m
  <2>3. /\ m.principal \in Nat /\ m.start \in Nat /\ m.days \in Nat /\ m.goodAccounting \in BOOLEAN
    BY <2>1, HoldingFields
  <2> DEFINE p == SettleMint(m, height, 0)
  <2>4. p.toOwner \in Nat /\ p.toRewardPool \in Nat /\ p.toOwner + p.toRewardPool = m.principal + 0
    BY <1>2, <2>3, SettlementExact
  <2> HIDE DEF p, n
  <2>5. p.toOwner + p.toRewardPool = n
    BY <1>1, <2>1, <2>4
  <2>6. ClaimPaid(a) = p
    BY <2>2 DEF p
  <2> QED BY <2>4, <2>5, <2>6, Zenon DEF n
<1>4. CASE ~ (n > 0)
  <2>1. ClaimPaid(a) = [toOwner |-> 0, toRewardPool |-> 0]
    BY <1>4 DEF ClaimPaid
  <2> QED BY <1>1, <1>4, <2>1
<1> QED BY <1>1, <1>3, <1>4

LEMMA LateClaimStays ==
  ASSUME VotesInv, NEW a \in Accounts, ClaimMigration(a),
         ~ (Snapshot[a].staked > 0 /\ ~ IsMature(MigrationMint(store, a), height))
  PROVE  MintsStay /\ bal'[a] = bal[a] + Snapshot[a].liquid + ClaimPaid(a).toOwner
         /\ (\A b \in Accounts \ {a} : bal'[b] = bal[b]) /\ mint' = mint
<1> DEFINE v == Snapshot[a].liquid + ClaimPaid(a).toOwner
           r == ClaimPaid(a).toRewardPool
<1>1. /\ store' = Recycle(store, r) /\ mint' = mint
      /\ supMigrated' = supMigrated + Holding(a)
      /\ bal' = [bal EXCEPT ![a] = @ + Snapshot[a].liquid + ClaimPaid(a).toOwner]
      /\ migDone' = migDone \cup {a} /\ UNCHANGED height
  BY DEF ClaimMigration, ClaimPaid
<1>2. /\ ClaimPaid(a).toOwner \in Nat /\ r \in Nat
      /\ ClaimPaid(a).toOwner + r = Snapshot[a].staked /\ Snapshot[a].liquid \in Nat
  BY ClaimPaidExact, LasseMintAssumption
<1>3. /\ migDone \subseteq Accounts /\ bal \in [Accounts -> Nat] /\ supMigrated \in Nat
  BY DEF VotesInv, BooksInv, SafetyInv, TypeOK
<1>4. Ready(store)
  BY StoreReady
<1> HIDE DEF r
<1>5. v \in Nat /\ bal' = [bal EXCEPT ![a] = @ + v] /\ supMigrated' = supMigrated + v + r
  <2> DEFINE o == ClaimPaid(a).toOwner
             l == Snapshot[a].liquid
             k == Snapshot[a].staked
  <2>1. o \in Nat /\ r \in Nat /\ l \in Nat /\ k = o + r /\ v = l + o
    BY <1>2
  <2>2. supMigrated' = supMigrated + (l + k) /\ bal' = [bal EXCEPT ![a] = @ + l + o]
    BY <1>1 DEF Holding
  <2> HIDE DEF o, l, k, v
  <2>3. bal[a] + l + o = bal[a] + v
    BY <1>3, <2>1
  <2>4. bal' = [bal EXCEPT ![a] = @ + v]
    BY <2>2, <2>3
  <2>5. v \in Nat /\ supMigrated + (l + k) = supMigrated + v + r
    BY <1>3, <2>1
  <2> QED BY <2>2, <2>4, <2>5
<1>6. MintsStay
  <2> HIDE DEF v
  <2> QED BY <1>1, <1>2, <1>3, <1>4, <1>5, IncomeStays
<1>7. bal'[a] = bal[a] + Snapshot[a].liquid + ClaimPaid(a).toOwner
      /\ \A b \in Accounts \ {a} : bal'[b] = bal[b]
  BY <1>1, <1>3
<1> QED BY <1>1, <1>6, <1>7

\* A claim before maturity registers the mint on the day it would be on.
LEMMA EarlyClaimStays ==
  ASSUME VotesInv, NEW a \in Accounts, ClaimMigration(a),
         Snapshot[a].staked > 0 /\ ~ IsMature(MigrationMint(store, a), height)
  PROVE  LET live == MigrationMint(Accrue(store, height), a)
         IN  /\ MintsStay /\ bal'[a] = bal[a] + Snapshot[a].liquid
             /\ \A b \in Accounts \ {a} : bal'[b] = bal[b]
             /\ mint' = [mint EXCEPT ![a] = Append(@, live)]
<1> DEFINE n == Snapshot[a].staked
           l == Snapshot[a].liquid
           s == Accrue(store, height)
           m == MigrationMint(s, a)
           q == Positions(mint)
           x == bal[a] + l
           B == Total(bal, Accounts)
           C == Total(bal', Accounts)
<1>1. /\ store' = RegisterMint(s, a, m) /\ mint' = [mint EXCEPT ![a] = Append(@, m)]
      /\ supMigrated' = supMigrated + Holding(a)
      /\ bal' = [bal EXCEPT ![a] = @ + l + [toOwner |-> 0, toRewardPool |-> 0].toOwner]
      /\ migDone' = migDone \cup {a} /\ UNCHANGED height
  BY DEF ClaimMigration
<1>2. /\ n \in Nat \ {0} /\ l \in Nat /\ GenesisHeight \in Heights
      /\ MigrationMintDays \in MinMintDays .. MaxMintDays /\ Holding(a) = l + n
  BY LasseMintAssumption DEF Holding
<1>3. /\ supMigrated \in Nat /\ height \in Heights /\ height \in Nat /\ B \in Nat
      /\ bal \in [Accounts -> Nat] /\ mint \in [Accounts -> Seq(Mint)] /\ migDone \subseteq Accounts
      /\ BooksInv
  BY BooksRows DEF VotesInv, BooksInv, SafetyInv, TypeOK
<1>4. Ready(s)
  BY StoreReady
<1>5. /\ Settled(s, height) /\ s \in Store /\ Sound(s, q, s.pool_lshare) /\ Rises(store, s, q)
      /\ PoolsOf(s) + store.sup_emitted = PoolsOf(store) + s.sup_emitted /\ Listed(s, q)
  BY <1>4 DEF Ready, Settled
<1>6. m = NewMint(s, a, n, n, GenesisHeight, MigrationMintDays)
  BY DEF MigrationMint
<1>7. ~ IsMature(m, height)
  BY DEF IsMature, MaturityHeight, MigrationMint, NewMint
<1> HIDE DEF n, l, s, m, q
<1>8. /\ Staked(m) /\ Placed(m) /\ ~ m.ended /\ m.principal = n /\ m.accStart = s.acc_per
      /\ m \in Mint
  <2>1. /\ Staked(m) /\ Placed(m) /\ ~ m.ended /\ m.principal = n /\ m.accStart = s.acc_per
    BY <1>2, <1>5, <1>6, NewHolding
  <2> QED BY <2>1 DEF Staked
<1>9. Earns(s, m)
  <2> DEFINE top == MaturityHeight(m)
  <2>1. top \in Nat
    <3>1. m.start \in Nat /\ m.days \in Nat /\ HeightsPerDay \in Nat
      BY <1>8, HoldingFields, ConstantTypes
    <3>2. m.days * HeightsPerDay \in Nat
      BY <3>1, ProductNat
    <3> QED BY <3>1, <3>2 DEF MaturityHeight
  <2>2. height <= top
    <3>1. ~ (height >= top)
      BY <1>7 DEF IsMature
    <3> HIDE DEF top
    <3> QED BY <1>3, <2>1, <3>1
  <2> HIDE DEF top
  <2>3. DayOf(height) <= DayOf(top) /\ DayOf(height) \in Nat /\ DayOf(top) \in Nat
    BY <1>3, <2>1, <2>2, DayOfMono, DayOfNat
  <2>4. s.acc_day \in Nat /\ s.acc_day <= DayOf(height)
    BY <1>5, StoreFields DEF Settled
  <2> QED BY <2>3, <2>4 DEF Earns, MaturityDay, top
<1>10. bal[a] \in Nat /\ x \in Nat /\ bal' = [bal EXCEPT ![a] = x] /\ bal' \in [Accounts -> Nat]
  <2>1. bal[a] \in Nat /\ x \in Nat /\ x + 0 = x
    BY <1>2, <1>3
  <2>2. [toOwner |-> 0, toRewardPool |-> 0].toOwner = 0
    OBVIOUS
  <2>3. bal' = [bal EXCEPT ![a] = x]
    BY <1>1, <2>1, <2>2
  <2> HIDE DEF x
  <2> QED BY <1>3, <2>1, <2>3
<1>11. C = B - bal[a] + x
  BY <1>3, <1>10, BalanceMoves
<1>12. C \in Nat
  <2>1. IsFiniteSet(Accounts)
    BY LasseMintAssumption
  <2> QED BY <1>10, <2>1, TotalIsNat
<1>13. C - B + m.principal = supMigrated' - supMigrated /\ supMigrated' \in Nat
  <2> DEFINE p == m.principal
             y == bal[a]
  <2>1. C = B - y + x /\ y \in Nat /\ x = y + l /\ p = n
    BY <1>8, <1>10, <1>11
  <2>2. supMigrated' = supMigrated + (l + n)
    BY <1>1, <1>2
  <2> HIDE DEF B, C, x, y, p
  <2>3. C - B + p = (supMigrated + (l + n)) - supMigrated /\ supMigrated + (l + n) \in Nat
    BY <1>2, <1>3, <1>12, <2>1
  <2> QED BY <2>2, <2>3 DEF p
<1>14. BooksStay
  <2> HIDE DEF x
  <2> QED BY <1>1, <1>3, <1>5, <1>8, <1>9, <1>12, <1>13, NewPositionBooks DEF B, C, q
<1>15. VotesStay
  BY <1>1, <1>2, <1>3, <1>5, <1>6, <1>9, NewPositionVotes DEF q
<1>16. SafetyInv'
  <2> DEFINE t == RegisterMint(s, a, m)
  <2>1. t \in Store /\ Settled(t, height)
    <3>1. m.shares \in Nat
      BY <1>8, HoldingFields
    <3>2. t \in Store /\ SameYield(s, t)
      BY <1>5, <1>8, <3>1, RegisterMintFrame
    <3> HIDE DEF t
    <3> QED BY <1>5, <3>2, SameYieldFrame
  <2>2. /\ mint' \in [Accounts -> Seq(Mint)]
        /\ \A b \in Accounts : \A i \in DOMAIN mint'[b] : Placed(mint'[b][i])
    <3>1. SafetyInv
      BY <1>3 DEF BooksInv
    <3> QED BY <1>1, <1>8, <3>1, AppendMint
  <2> QED BY <1>1, <1>3, <1>10, <1>13, <2>1, <2>2 DEF SafetyInv, TypeOK, Settled
<1>17. bal'[a] = bal[a] + l /\ \A b \in Accounts \ {a} : bal'[b] = bal[b]
  BY <1>3, <1>10
<1>18. MintsStay
  BY <1>14, <1>15, <1>16 DEF MintsStay
<1> QED BY <1>1, <1>17, <1>18 DEF m, s, l

-----------------------------------------------------------------------------
(* A batch.                                                                *)

\* Liquid and staked, a set of accounts holds what it holds.
LEMMA HoldingsSplit ==
  ASSUME NEW S \in SUBSET Accounts
  PROVE  Holdings(S) = Liquids(S) + Stakes(S) /\ Liquids(S) \in Nat /\ Stakes(S) \in Nat
<1> DEFINE f == [a \in Accounts |-> Snapshot[a].liquid]
           w == [a \in Accounts |-> Snapshot[a].staked]
           g == [a \in Accounts |-> Holding(a)]
<1>1. IsFiniteSet(S)
  BY HoldingsIsNat
<1>2. \A a \in S : f[a] \in Nat /\ w[a] \in Nat /\ g[a] = f[a] + 1 * w[a]
  <2> TAKE a \in S
  <2>1. Snapshot[a].liquid \in Nat /\ Snapshot[a].staked \in Nat
    BY LasseMintAssumption
  <2> QED BY <2>1 DEF Holding
<1> HIDE DEF f, w, g
<1>3. \A a \in S : f[a] \in Nat
  BY <1>2
<1>4. \A a \in S : w[a] \in Nat
  BY <1>2
<1>5. \A a \in S : g[a] = f[a] + 1 * w[a]
  BY <1>2
<1>6. 1 \in Nat
  OBVIOUS
<1>7. Total(g, S) = Total(f, S) + 1 * Total(w, S)
  BY ONLY <1>1, <1>3, <1>4, <1>5, <1>6, TotalScale
<1>8. Total(f, S) \in Nat /\ Total(w, S) \in Nat
  BY <1>1, <1>3, <1>4, TotalIsNat
<1>9. Total(g, S) = Total(f, S) + Total(w, S)
  BY <1>7, <1>8
<1> QED BY <1>8, <1>9 DEF Holdings, Liquids, Stakes, f, w, g

\* The balances of a batch grow by what its accounts held liquid.
LEMMA BatchBalances ==
  ASSUME bal \in [Accounts -> Nat], NEW S \in SUBSET Accounts, NEW new,
         new = [a \in Accounts |-> bal[a] + (IF a \in S THEN Snapshot[a].liquid ELSE 0)]
  PROVE  new \in [Accounts -> Nat] /\ Total(new, Accounts) = Total(bal, Accounts) + Liquids(S)
<1> DEFINE w == [a \in Accounts |-> IF a \in S THEN Snapshot[a].liquid ELSE 0]
           f == [a \in Accounts |-> Snapshot[a].liquid]
           b == bal
<1>1. IsFiniteSet(Accounts)
  BY LasseMintAssumption
<1>2. \A a \in Accounts : b[a] \in Nat /\ w[a] \in Nat /\ new[a] = b[a] + 1 * w[a]
  <2> TAKE a \in Accounts
  <2>1. Snapshot[a].liquid \in Nat
    BY LasseMintAssumption
  <2> QED BY <2>1
<1>3. new \in [Accounts -> Nat]
  BY <1>2
<1>4. (\A a \in S : f[a] = w[a]) /\ \A a \in Accounts \ S : w[a] = 0
  OBVIOUS
<1> HIDE DEF w, f, b
<1>5. Total(new, Accounts) = Total(b, Accounts) + 1 * Total(w, Accounts)
  BY <1>1, <1>2, TotalScale
<1>6. Total(f, S) = Total(w, Accounts)
  BY <1>4, TotalFilter
<1>7. Total(w, Accounts) \in Nat /\ Total(b, Accounts) \in Nat
  BY <1>1, <1>2, TotalIsNat
<1> QED BY <1>3, <1>5, <1>6, <1>7 DEF Liquids, f, b

\* A batch registers the mints of the accounts that no batch has before.
LEMMA CreditBatchStays ==
  ASSUME VotesInv, MigrationInv, NEW b \in Batches, CreditMigrationBatch(b)
  PROVE  MintsStay
<1> DEFINE S == Fresh(b)
           done == RegisterAll(b, S)
           o == Positions(mint)
           q == Positions(mint')
           B == Total(bal, Accounts)
           C == Total(bal', Accounts)
           L == Total(Locked(o), DOMAIN o)
           N == Total(Locked(q), DOMAIN q)
<1>1. /\ store' = done.store /\ mint' = done.mint
      /\ supMigrated' = supMigrated + Holdings(S)
      /\ bal' = [a \in Accounts |-> bal[a] + (IF a \in S THEN Snapshot[a].liquid ELSE 0)]
      /\ migDone' = migDone \cup S /\ UNCHANGED height /\ store.settled <= GenesisHeight
  BY DEF CreditMigrationBatch, BeforeEmission
<1>2. b \in Seq(Accounts) /\ \A i, j \in DOMAIN b : b[i] = b[j] => i = j
  BY MigrationAssumption
<1>3. S \in SUBSET Accounts /\ Among(b, S, Len(b)) = S
  <2>1. DOMAIN b = 1 .. Len(b) /\ \A i \in DOMAIN b : b[i] \in Accounts
    BY <1>2
  <2> QED BY <2>1 DEF Fresh, Elements, Among
<1>4. store' \in Store /\ Stands(store', mint', S)
  <2>1. LET end == RegisterAll(b, S)
        IN  end.store \in Store /\ Stands(end.store, end.mint, Among(b, S, Len(b)))
    BY <1>1, <1>2, BatchStands
  <2> HIDE DEF S
  <2>2. done.store \in Store /\ Stands(done.store, done.mint, S)
    BY <1>3, <2>1
  <2> HIDE DEF done
  <2> QED BY <1>1, <2>2
<1> HIDE DEF done
<1>5. /\ BooksInv /\ Conserved(bal, o, store, supMigrated) /\ supMigrated \in Nat
      /\ PoolsOf(store) \in Nat /\ store.sup_emitted \in Nat /\ store \in Store
      /\ B \in Nat /\ L \in Nat /\ bal \in [Accounts -> Nat] /\ height \in Heights
      /\ migDone \subseteq Accounts
  <2>1. BooksInv /\ SafetyInv
    BY DEF VotesInv, BooksInv
  <2>2. migDone \subseteq Accounts
    BY <2>1 DEF SafetyInv, TypeOK
  <2> QED BY <2>1, <2>2, BooksRows
<1>6. Holdings(S) = Liquids(S) + Stakes(S) /\ Liquids(S) \in Nat /\ Stakes(S) \in Nat
  BY <1>3, HoldingsSplit
<1>7. bal' \in [Accounts -> Nat] /\ C = B + Liquids(S)
  <2> HIDE DEF S
  <2> QED BY <1>1, <1>3, <1>5, BatchBalances
<1> HIDE DEF S
<1>8. /\ mint' \in [Accounts -> Seq(Mint)] /\ AllPlaced(mint')
      /\ Settled(store', height) /\ Sound(store', q, store'.pool_lshare) /\ Rises(store, store', o)
      /\ DOMAIN o \subseteq DOMAIN q /\ (\A k \in DOMAIN o : q[k] = o[k])
      /\ PoolsOf(store') = PoolsOf(store) /\ store'.sup_emitted = store.sup_emitted
      /\ N = L + Stakes(S) /\ Listed(store', q)
  BY <1>4 DEF Stands
<1>9. Conserved(bal', q, store', supMigrated')
  <2> DEFINE P == PoolsOf(store)
             E == store.sup_emitted
             x == Liquids(S)
             y == Stakes(S)
  <2>1. /\ B + L + P = supMigrated + E /\ P \in Nat /\ E \in Nat /\ B \in Nat /\ L \in Nat
        /\ supMigrated \in Nat /\ x \in Nat /\ y \in Nat
        /\ C = B + x /\ N = L + y /\ supMigrated' = supMigrated + (x + y)
    BY <1>1, <1>5, <1>6, <1>7, <1>8 DEF Conserved
  <2> HIDE DEF P, E, x, y, B, C, L, N
  <2>2. C + N + P = supMigrated' + E
    BY <2>1
  <2> QED BY <1>8, <2>2 DEF Conserved, P, E, C, N
<1>10. Kept(store, o, store', q)
  BY <1>8 DEF Kept, Rises
<1>11. BooksStay /\ VotesStay
  BY <1>8, <1>9, <1>10 DEF BooksStay, VotesStay
<1>12. supMigrated' \in Nat /\ migDone' \subseteq Accounts /\ height' \in Heights
  BY <1>1, <1>3, <1>5, <1>6
<1>13. SafetyInv'
  BY <1>1, <1>4, <1>7, <1>8, <1>12 DEF SafetyInv, TypeOK, AllPlaced
<1> QED BY <1>11, <1>13 DEF MintsStay

\* A claim, early or late.
LEMMA ClaimStays ==
  ASSUME VotesInv, NEW a \in Accounts, ClaimMigration(a)
  PROVE  MintsStay
BY EarlyClaimStays, LateClaimStays

\* The calls of LasseMint that the migration composes.
LEMMA MintCallStays ==
  ASSUME VotesInv, MintCall
  PROVE  VotesInv' /\ BooksStay
<1>1. Next
  <2>1. Qualified \subseteq Accounts
    BY MigrationAssumption
  <2> QED BY <2>1 DEF MintCall, Next
<1> QED BY <1>1, NextVotes, NextBooks DEF VotesInv

\* Every step of the migration keeps the books of the mints.
LEMMA MintsUnderMigration ==
  VotesInv /\ MigrationInv /\ [MigrationNext]_mvars => VotesInv' /\ BooksStay
<1> SUFFICES ASSUME VotesInv, MigrationInv, [MigrationNext]_mvars PROVE VotesInv' /\ BooksStay
  OBVIOUS
<1>1. CASE MintCall
  BY <1>1, MintCallStays
<1>2. CASE UNCHANGED mvars
  <2>1. UNCHANGED vars
    BY <1>2 DEF mvars, vars
  <2> QED BY <2>1, NextVotes, NextBooks DEF VotesInv
<1>3. CASE \/ \E T \in Trees : SetSnapshot(T)
           \/ \E b \in Batches : BurnMigrationBatch(b)
           \/ \E a \in Accounts : RecordBurn(a)
  BY <1>3, BurnStays, MintsStayKeeps
<1>4. CASE SweepUnclaimed
  BY <1>4, SweepStays, MintsStayKeeps
<1>5. ASSUME NEW b \in Batches, CreditMigrationBatch(b) PROVE VotesInv' /\ BooksStay
  BY <1>5, CreditBatchStays, MintsStayKeeps
<1>6. ASSUME NEW a \in Accounts, ClaimMigration(a) PROVE VotesInv' /\ BooksStay
  BY <1>6, ClaimStays, MintsStayKeeps
<1> QED BY <1>1, <1>2, <1>3, <1>4, <1>5, <1>6 DEF MigrationNext

-----------------------------------------------------------------------------
(* The whole contract: the migration, and what owners of mints and donors  *)
(* do besides, in any order.                                               *)

OwnersCall ==
  /\ \E a \in Accounts :
       \/ \E p \in Principals, d \in Durations : CreateMint(a, p, d)
       \/ \E id \in DOMAIN mint[a] : ClaimMint(a, id) \/ SweepMint(a, id) \/ ArmGoodAccounting(a, id)
       \/ \E f \in Funding : FundPool(a, f[1], f[2])
  /\ UNCHANGED <<mig, early, late>>

ContractNext == MigrationNext \/ OwnersCall

ContractSpec == MigrationInit /\ [][ContractNext]_mvars

\* The specification of the migration alone is a part of it.
LEMMA MigrationIsContract == MigrationSpec => ContractSpec
<1>1. [MigrationNext]_mvars => [ContractNext]_mvars
  BY DEF ContractNext
<1> QED BY <1>1, PTL DEF MigrationSpec, ContractSpec

LEMMA OwnersCallLeaves ==
  ASSUME OwnersCall
  PROVE  UNCHANGED <<migDone, supMigrated, mig, early, late, height>>
<1>1. UNCHANGED <<mig, early, late>>
  BY DEF OwnersCall
<1>2. ASSUME NEW a \in Accounts, NEW p \in Principals, NEW d \in Durations, CreateMint(a, p, d)
      PROVE  UNCHANGED <<migDone, supMigrated, height>>
  BY <1>2 DEF CreateMint
<1>3. ASSUME NEW a \in Accounts, NEW id \in DOMAIN mint[a], ClaimMint(a, id) \/ SweepMint(a, id)
      PROVE  UNCHANGED <<migDone, supMigrated, height>>
  BY <1>3 DEF ClaimMint, SweepMint, EndMint
<1>4. ASSUME NEW a \in Accounts, NEW id \in DOMAIN mint[a], ArmGoodAccounting(a, id)
      PROVE  UNCHANGED <<migDone, supMigrated, height>>
  BY <1>4 DEF ArmGoodAccounting
<1>5. ASSUME NEW a \in Accounts, NEW f \in Funding, FundPool(a, f[1], f[2])
      PROVE  UNCHANGED <<migDone, supMigrated, height>>
  BY <1>5 DEF FundPool
<1>6. UNCHANGED <<migDone, supMigrated, height>>
  BY <1>2, <1>3, <1>4, <1>5 DEF OwnersCall
<1> QED BY <1>1, <1>6

\* Every step of the contract keeps the books of the mints and the migration.
LEMMA ContractStays ==
  VotesInv /\ MigrationInv /\ [ContractNext]_mvars => VotesInv' /\ MigrationInv' /\ BooksStay
<1> SUFFICES ASSUME VotesInv, MigrationInv, [ContractNext]_mvars
             PROVE  VotesInv' /\ MigrationInv' /\ BooksStay
  OBVIOUS
<1>1. CASE [MigrationNext]_mvars
  BY <1>1, MintsUnderMigration, MigrationNextKeeps
<1>2. CASE OwnersCall
  <2>1. Next
    BY <1>2 DEF OwnersCall, Next
  <2> QED BY <1>2, <2>1, OwnersCallLeaves, OtherStepsKeep, NextVotes, NextBooks DEF VotesInv
<1> QED BY <1>1, <1>2 DEF ContractNext

LEMMA ContractInvariant == ContractSpec => [](VotesInv /\ MigrationInv)
<1>1. MigrationInit => VotesInv /\ MigrationInv
  BY InitVotes, MigrationInitInv DEF MigrationInit
<1>2. VotesInv /\ MigrationInv /\ [ContractNext]_mvars => VotesInv' /\ MigrationInv'
  BY ContractStays
<1> QED BY <1>1, <1>2, PTL DEF ContractSpec

(* The mints keep every promise while the migration goes on around them:   *)
(* no unit is lost or made and the pool covers the yields, who votes, what *)
(* earns and the expiry lists match the open mints, the supply counter is  *)
(* the schedule's and slices agree with one walk, through batches, claims  *)
(* before and after maturity, the sweep, and whatever owners do besides    *)
(* (ledger.go, claim.go, mint.go, accrual.go).                             *)
THEOREM MintsStaySound ==
  ContractSpec => [](BooksArePayable /\ VotesMatchLists /\ EmissionMatchesWalk /\ SlicedWalkAgrees
                       /\ IssuedOnceWithinTheCap)
<1>1. VotesInv => BooksArePayable /\ VotesMatchLists /\ EmissionMatchesWalk /\ SlicedWalkAgrees
  <2>1. VotesInv => BooksInv
    BY DEF VotesInv
  <2>2. BooksInv => EmissionMatchesWalk
    BY DEF BooksInv, SafetyInv, Settled, EmissionMatchesWalk
  <2> QED BY <2>1, <2>2, BooksPay, VotesTell, SlicesHold
<1>2. MigrationInv => IssuedOnceWithinTheCap
  BY IssuedOnceHolds
<1> QED BY <1>1, <1>2, ContractInvariant, PTL

(* No call of the migration lowers the yield of an open mint: a batch, an  *)
(* early claim and the mint it registers, what a late claim or the sweep   *)
(* recycles (registerMints, recycle).                                      *)
THEOREM YieldsRiseThroughout == ContractSpec => YieldNeverFalls
<1>1. VotesInv /\ MigrationInv /\ [ContractNext]_mvars => [YieldsRise]_vars
  BY ContractStays, KeptYieldsRise DEF VotesInv
<1> QED BY <1>1, ContractInvariant, PTL DEF ContractSpec, YieldNeverFalls, YieldsRise

-----------------------------------------------------------------------------
(* What a claim is worth.                                                  *)

\* The open positions of one account, and what closing them would leave.
OpenIn(p) == {id \in DOMAIN p : ~ p[id].ended}

PaysOut(p, h) == [id \in OpenIn(p) |-> SettleMint(p[id], h, 0).toOwner]

Closing(p, h) == Total(PaysOut(p, h), OpenIn(p))

\* The leaf of an account, as a position that runs from genesis.
Leaf(a) ==
  [principal |-> Snapshot[a].staked, start |-> GenesisHeight,
   days |-> MigrationMintDays, goodAccounting |-> FALSE]

\* The settlement looks at four fields of a position.
LEMMA SettledAlike ==
  ASSUME NEW m, NEW n, m.principal = n.principal, m.start = n.start, m.days = n.days,
         m.goodAccounting = n.goodAccounting, NEW h, NEW y
  PROVE  SettleMint(m, h, y) = SettleMint(n, h, y) /\ (IsMature(m, h) <=> IsMature(n, h))
<1>1. MaturityHeight(m) = MaturityHeight(n)
  BY Zenon DEF MaturityHeight
<1>2. IsMature(m, h) <=> IsMature(n, h)
  BY <1>1, Zenon DEF IsMature
<1>3. GraceDaysFor(m) = GraceDaysFor(n)
  BY Zenon DEF GraceDaysFor
<1>4. BleedRemaining(m, h) = BleedRemaining(n, h)
  BY <1>1, <1>3 DEF BleedRemaining
<1>5. EarlyEndRecovery(m, h) = EarlyEndRecovery(n, h)
  BY <1>2 DEF EarlyEndRecovery
<1> QED BY <1>2, <1>4, <1>5 DEF SettleMint

LEMMA ClosingIsNat ==
  ASSUME NEW p \in Seq(Mint), NEW h \in Nat
  PROVE  /\ IsFiniteSet(OpenIn(p)) /\ OpenIn(p) \subseteq DOMAIN p
         /\ \A id \in OpenIn(p) : PaysOut(p, h)[id] \in Nat
         /\ Closing(p, h) \in Nat
<1>1. IsFiniteSet(OpenIn(p)) /\ OpenIn(p) \subseteq DOMAIN p
  <2>1. DOMAIN p = 1 .. Len(p) /\ Len(p) \in Nat
    OBVIOUS
  <2>2. IsFiniteSet(1 .. Len(p))
    BY <2>1, FS_Interval
  <2> QED BY <2>1, <2>2, FS_Subset DEF OpenIn
<1>2. ASSUME NEW id \in OpenIn(p) PROVE PaysOut(p, h)[id] \in Nat
  <2> DEFINE m == p[id]
  <2>1. m \in Mint
    BY <1>1
  <2>2. PaysOut(p, h)[id] = SettleMint(m, h, 0).toOwner
    BY DEF PaysOut
  <2> HIDE DEF m
  <2>3. m.principal \in Nat /\ m.start \in Nat /\ m.days \in Nat /\ m.goodAccounting \in BOOLEAN
    BY <2>1 DEF Mint
  <2>4. SettleMint(m, h, 0).toOwner \in Nat
    BY <2>3, SettlementExact
  <2> QED BY <2>2, <2>4
<1> DEFINE f == PaysOut(p, h)
           S == OpenIn(p)
<1>3. \A id \in S : f[id] \in Nat
  BY <1>2
<1> HIDE DEF f, S
<1>4. Total(f, S) \in Nat
  BY <1>1, <1>3, TotalIsNat DEF S
<1> QED BY <1>1, <1>2, <1>4 DEF Closing, f, S

\* One more open position is worth what it would be settled for.
LEMMA ClosingMore ==
  ASSUME NEW p \in Seq(Mint), NEW m \in Mint, ~ m.ended, NEW h \in Nat
  PROVE  Closing(Append(p, m), h) = Closing(p, h) + SettleMint(m, h, 0).toOwner
<1> DEFINE r == Append(p, m)
           y == Len(p) + 1
           f == PaysOut(p, h)
           g == PaysOut(r, h)
           S == OpenIn(p)
           R == OpenIn(r)
<1>1. /\ r \in Seq(Mint) /\ DOMAIN p = 1 .. Len(p) /\ DOMAIN r = 1 .. y /\ Len(p) \in Nat
      /\ r[y] = m /\ \A id \in DOMAIN p : r[id] = p[id] /\ id # y
  OBVIOUS
<1>2. y \notin S /\ R = S \cup {y}
  <2>1. DOMAIN r = DOMAIN p \cup {y} /\ y \notin DOMAIN p
    BY <1>1
  <2> HIDE DEF r, y
  <2> QED BY <1>1, <2>1 DEF OpenIn
<1>3. IsFiniteSet(S) /\ S \subseteq DOMAIN p /\ \A id \in S : f[id] \in Nat
  BY ClosingIsNat
<1>4. \A id \in R : g[id] \in Nat
  BY <1>1, ClosingIsNat
<1>5. (\A id \in S : g[id] = f[id]) /\ g[y] = SettleMint(m, h, 0).toOwner
  <2> HIDE DEF r, y
  <2> QED BY <1>1, <1>2, <1>3 DEF PaysOut
<1> HIDE DEF f, g, S, R, y, r
<1>6. Total(g, R) = Total(f, S) + g[y]
  BY <1>2, <1>3, <1>4, <1>5, TotalGains
<1> QED BY <1>5, <1>6 DEF Closing, f, g, S, R, r

\* The properties' words in these.
LEMMA WorthIs ==
  ASSUME NEW a \in Accounts
  PROVE  /\ Worth(a) = bal[a] + Closing(mint[a], height)
         /\ Worth(a)' = bal'[a] + Closing(mint'[a], height')
         /\ Unclaimed(a) = Snapshot[a].liquid + SettleMint(Leaf(a), height, 0).toOwner
BY DEF Worth, Unclaimed, Closing, PaysOut, OpenIn, Leaf

\* A migration mint is settled as the leaf is.
LEMMA LeafIsMint ==
  ASSUME NEW s, NEW a \in Accounts, NEW h, NEW y
  PROVE  LET m == MigrationMint(s, a)
         IN  /\ SettleMint(m, h, y) = SettleMint(Leaf(a), h, y)
             /\ IsMature(m, h) <=> IsMature(Leaf(a), h)
<1> DEFINE m == MigrationMint(s, a)
<1>1. /\ m.principal = Leaf(a).principal /\ m.start = Leaf(a).start
      /\ m.days = Leaf(a).days /\ m.goodAccounting = Leaf(a).goodAccounting
  BY DEF MigrationMint, NewMint, Leaf
<1> HIDE DEF m
<1>2. SettleMint(m, h, y) = SettleMint(Leaf(a), h, y) /\ (IsMature(m, h) <=> IsMature(Leaf(a), h))
  BY <1>1, SettledAlike
<1> QED BY <1>2 DEF m

\* What a claim pays that makes no mint is what the leaf would be settled for.
LEMMA ClaimPaysTheLeaf ==
  ASSUME VotesInv, NEW a \in Accounts,
         ~ (Snapshot[a].staked > 0 /\ ~ IsMature(MigrationMint(store, a), height))
  PROVE  ClaimPaid(a).toOwner = SettleMint(Leaf(a), height, 0).toOwner
<1> DEFINE m == MigrationMint(store, a)
<1>1. SettleMint(m, height, 0) = SettleMint(Leaf(a), height, 0)
  BY LeafIsMint
<1>2. CASE Snapshot[a].staked > 0 /\ IsMature(m, height)
  BY <1>1, <1>2 DEF ClaimPaid
<1>3. CASE ~ (Snapshot[a].staked > 0)
  <2> DEFINE n == Leaf(a)
             p == SettleMint(n, height, 0)
  <2>1. /\ n.principal = 0 /\ n.start \in Nat /\ n.days \in Nat /\ n.goodAccounting \in BOOLEAN
    <3>1. Snapshot[a].staked \in Nat /\ GenesisHeight \in Nat /\ MigrationMintDays \in Nat
      BY LasseMintAssumption, EngineAssumption
    <3> QED BY <1>3, <3>1 DEF Leaf
  <2>2. height \in Nat
    BY BooksRows DEF VotesInv
  <2> HIDE DEF n
  <2>3. p.toOwner \in Nat /\ p.toRewardPool \in Nat /\ p.toOwner + p.toRewardPool = n.principal + 0
    BY <2>1, <2>2, SettlementExact
  <2> HIDE DEF p
  <2>4. p.toOwner = 0
    BY <2>1, <2>3
  <2>5. ClaimPaid(a).toOwner = 0
    BY <1>3 DEF ClaimPaid
  <2> QED BY <2>4, <2>5 DEF p, n
<1> QED BY <1>2, <1>3

\* A claim makes its account worth its leaf more.
LEMMA ClaimIsWorth ==
  ASSUME VotesInv, NEW a \in Accounts, ClaimMigration(a)
  PROVE  /\ Worth(a)' = Worth(a) + Unclaimed(a)
         /\ \A b \in Accounts \ {a} : Worth(b)' = Worth(b)
<1> DEFINE l == Snapshot[a].liquid
           o == SettleMint(Leaf(a), height, 0).toOwner
           w == Closing(mint[a], height)
           x == bal[a]
<1>1. /\ height \in Nat /\ mint \in [Accounts -> Seq(Mint)] /\ bal \in [Accounts -> Nat]
  BY BooksRows DEF VotesInv
<1>2. height' = height
  BY DEF ClaimMigration
<1>3. w \in Nat /\ x \in Nat /\ l \in Nat
  <2>1. mint[a] \in Seq(Mint)
    BY <1>1
  <2> QED BY <1>1, <2>1, ClosingIsNat, LasseMintAssumption
<1>4. /\ Worth(a) = x + w /\ Worth(a)' = bal'[a] + Closing(mint'[a], height)
      /\ Unclaimed(a) = l + o
  BY <1>2, WorthIs
<1>5. ASSUME \A b \in Accounts \ {a} : bal'[b] = bal[b] /\ mint'[b] = mint[b]
      PROVE  \A b \in Accounts \ {a} : Worth(b)' = Worth(b)
  <2> TAKE b \in Accounts \ {a}
  <2>1. bal'[b] = bal[b] /\ mint'[b] = mint[b]
    BY <1>5
  <2>2. Worth(b) = bal[b] + Closing(mint[b], height)
        /\ Worth(b)' = bal'[b] + Closing(mint'[b], height')
    BY WorthIs
  <2> QED BY <1>2, <2>1, <2>2
<1>6. CASE Snapshot[a].staked > 0 /\ ~ IsMature(MigrationMint(store, a), height)
  <2> DEFINE s == Accrue(store, height)
             m == MigrationMint(s, a)
  <2>1. /\ bal'[a] = x + l /\ (\A b \in Accounts \ {a} : bal'[b] = bal[b])
        /\ mint' = [mint EXCEPT ![a] = Append(@, m)]
    BY <1>6, EarlyClaimStays
  <2>2. SettleMint(m, height, 0).toOwner = o
    BY LeafIsMint
  <2>3. m \in Mint /\ ~ m.ended
    <3>1. s \in Store
      BY StoreReady DEF Ready, Settled
    <3> DEFINE n == Snapshot[a].staked
    <3>2. n \in Nat \ {0} /\ GenesisHeight \in Heights /\ MigrationMintDays \in MinMintDays .. MaxMintDays
      BY <1>6, LasseMintAssumption
    <3> HIDE DEF s, n
    <3>3. m = NewMint(s, a, n, n, GenesisHeight, MigrationMintDays)
      BY DEF MigrationMint, n
    <3> QED BY <3>1, <3>2, <3>3, NewMintType
  <2> HIDE DEF s, m, x, l
  <2>4. mint'[a] = Append(mint[a], m) /\ \A b \in Accounts \ {a} : mint'[b] = mint[b]
    BY <1>1, <2>1
  <2>5. Closing(mint'[a], height) = w + SettleMint(m, height, 0).toOwner
    <3>1. mint[a] \in Seq(Mint)
      BY <1>1
    <3> QED BY <1>1, <2>3, <2>4, <3>1, ClosingMore
  <2>6. o \in Nat
    <3> DEFINE y == SettleMint(m, height, 0)
    <3>1. m.principal \in Nat /\ m.start \in Nat /\ m.days \in Nat /\ m.goodAccounting \in BOOLEAN
      BY <2>3 DEF Mint
    <3>2. y.toOwner \in Nat
      BY <1>1, <3>1, SettlementExact
    <3> QED BY <2>2, <3>2
  <2> HIDE DEF o, w
  <2>7. Worth(a)' = (x + l) + (w + o) /\ (x + l) + (w + o) = (x + w) + (l + o)
    BY <1>3, <1>4, <2>1, <2>2, <2>5, <2>6
  <2> QED BY <1>4, <1>5, <2>1, <2>4, <2>7
<1>7. CASE ~ (Snapshot[a].staked > 0 /\ ~ IsMature(MigrationMint(store, a), height))
  <2>1. /\ bal'[a] = x + l + ClaimPaid(a).toOwner /\ (\A b \in Accounts \ {a} : bal'[b] = bal[b])
        /\ mint' = mint
    BY <1>7, LateClaimStays
  <2>2. ClaimPaid(a).toOwner = o /\ ClaimPaid(a).toOwner \in Nat
    BY <1>7, ClaimPaysTheLeaf, ClaimPaidExact
  <2> HIDE DEF o, x, l
  <2>3. Closing(mint'[a], height) = w
    BY <2>1
  <2> HIDE DEF w
  <2>4. Worth(a)' = (x + l + o) + w /\ (x + l + o) + w = (x + w) + (l + o)
    BY <1>3, <1>4, <2>1, <2>2, <2>3
  <2>5. \A b \in Accounts \ {a} : bal'[b] = bal[b] /\ mint'[b] = mint[b]
    BY <2>1
  <2>6. Worth(a)' = Worth(a) + Unclaimed(a)
    BY <1>4, <2>4
  <2> QED BY <1>5, <2>5, <2>6
<1> QED BY <1>6, <1>7

\* What one step does to the accounts, when something is claimed in it.
ClaimCollects ==
  \A a \in Qualified : (mig'.claimed # mig.claimed) =>
    Worth(a)' = Worth(a) + (IF a \in migDone' \ migDone THEN Unclaimed(a) ELSE 0)

\* Only a claim moves what was claimed.
LEMMA OnlyClaimsClaim ==
  ASSUME MigrationInv, [ContractNext]_mvars, mig'.claimed # mig.claimed
  PROVE  \E c \in Accounts : ClaimMigration(c)
<1> DEFINE Type == [tree : SUBSET (Qualified \cup Burned), total : Nat, claimed : Nat,
                    swept : BOOLEAN]
<1>1. mig \in Type
  BY DEF MigrationInv, Records
<1>2. ~ MintCall /\ ~ OwnersCall /\ ~ UNCHANGED mvars
  BY DEF MintCall, OwnersCall, mvars
<1>3. \A T \in Trees : ~ SetSnapshot(T)
  BY <1>1 DEF SetSnapshot
<1>4. ~ SweepUnclaimed
  BY <1>1 DEF SweepUnclaimed
<1>5. \A b \in Batches : ~ CreditMigrationBatch(b) /\ ~ BurnMigrationBatch(b)
  BY DEF CreditMigrationBatch, BurnMigrationBatch
<1>6. \A b \in Accounts : ~ RecordBurn(b)
  BY DEF RecordBurn
<1> QED BY <1>2, <1>3, <1>4, <1>5, <1>6 DEF ContractNext, MigrationNext

LEMMA StepCollects == VotesInv /\ MigrationInv /\ [ContractNext]_mvars => ClaimCollects
<1> SUFFICES ASSUME VotesInv, MigrationInv, [ContractNext]_mvars, NEW a \in Qualified,
                    mig'.claimed # mig.claimed
             PROVE  Worth(a)' = Worth(a) + (IF a \in migDone' \ migDone THEN Unclaimed(a) ELSE 0)
  BY DEF ClaimCollects
<1>1. PICK c \in Accounts : ClaimMigration(c)
  BY OnlyClaimsClaim
<1>2. /\ Worth(c)' = Worth(c) + Unclaimed(c)
      /\ \A b \in Accounts \ {c} : Worth(b)' = Worth(b)
  BY <1>1, ClaimIsWorth
<1>3. migDone' = migDone \cup {c} /\ c \notin migDone
  BY <1>1 DEF ClaimMigration, ClaimAccepted
<1>4. a \in Accounts
  BY MigrationAssumption
<1>5. CASE a = c
  BY <1>2, <1>3, <1>5
<1>6. CASE a # c
  <2>1. a \notin migDone' \ migDone
    BY <1>3, <1>6
  <2>2. Worth(a)' = Worth(a)
    BY <1>2, <1>4, <1>6
  <2>3. Worth(a) \in Nat
    <3> DEFINE w == Closing(mint[a], height)
               x == bal[a]
    <3>1. height \in Nat /\ mint[a] \in Seq(Mint) /\ x \in Nat
      BY <1>4, BooksRows DEF VotesInv
    <3>2. w \in Nat
      BY <3>1, ClosingIsNat
    <3>3. Worth(a) = x + w
      BY <1>4, WorthIs
    <3> HIDE DEF x, w
    <3> QED BY <3>1, <3>2, <3>3
  <2> QED BY <2>1, <2>2, <2>3
<1> QED BY <1>5, <1>6

(* The claim is the mint: whenever it comes, and whether it registers a    *)
(* mint or is paid out, it gives the account what its mint, running from   *)
(* genesis, is worth that day without yield, and nobody else anything      *)
(* (claim.go).                                                             *)
THEOREM ClaimingCollects == ContractSpec => ClaimingMerelyCollects
<1>1. VotesInv /\ MigrationInv /\ [ContractNext]_mvars => [ClaimCollects]_mvars
  BY StepCollects
<1> QED BY <1>1, ContractInvariant, PTL DEF ContractSpec, ClaimingMerelyCollects, ClaimCollects

-----------------------------------------------------------------------------
(* The claim panel.  That a claim still fits needs to know that only       *)
(* leaves of the committed tree were ever claimed.                         *)

PanelInv == VotesInv /\ MigrationInv /\ Claimers \subseteq mig.tree

LEMMA ClaimersStay ==
  ASSUME MigrationInv, Claimers \subseteq mig.tree, [ContractNext]_mvars
  PROVE  Claimers' \subseteq mig'.tree
<1> DEFINE Type == [tree : SUBSET (Qualified \cup Burned), total : Nat, claimed : Nat,
                    swept : BOOLEAN]
<1>1. mig \in Type /\ Burned \cap Qualified = {}
  BY MigrationAssumption DEF MigrationInv, Records
<1>2. ASSUME UNCHANGED <<migDone, mig, early, late>> PROVE Claimers' \subseteq mig'.tree
  BY <1>2 DEF Claimers
<1>3. CASE MintCall
  BY <1>2, <1>3, MintCallLeaves
<1>4. CASE OwnersCall
  BY <1>2, <1>4, OwnersCallLeaves
<1>5. CASE UNCHANGED mvars
  BY <1>2, <1>5 DEF mvars
<1>6. ASSUME NEW T \in Trees, SetSnapshot(T) PROVE Claimers' \subseteq mig'.tree
  <2>1. ~ Committed /\ UNCHANGED <<migDone, early, late>>
    BY <1>6 DEF SetSnapshot
  <2>2. Claimers = {}
    BY <2>1 DEF MigrationInv, Records
  <2> QED BY <2>1, <2>2 DEF Claimers
<1>7. CASE SweepUnclaimed
  <2>1. mig' = [mig EXCEPT !.swept = TRUE] /\ UNCHANGED <<migDone, early, late>>
    BY <1>7 DEF SweepUnclaimed
  <2> QED BY <1>1, <2>1 DEF Claimers
<1>8. ASSUME NEW b \in Batches, CreditMigrationBatch(b) \/ BurnMigrationBatch(b)
      PROVE  Claimers' \subseteq mig'.tree
  <2>1. migDone' = migDone \cup Fresh(b) /\ Remember(Fresh(b)) /\ UNCHANGED mig
    BY <1>8 DEF CreditMigrationBatch, BurnMigrationBatch
  <2>2. early' \cup late' = early \cup late \cup Fresh(b)
    BY <2>1 DEF Remember
  <2> QED BY <2>1, <2>2 DEF Claimers
<1>9. ASSUME NEW a \in Accounts, ClaimMigration(a) PROVE Claimers' \subseteq mig'.tree
  <2>1. /\ a \in mig.tree /\ migDone' = migDone \cup {a} /\ UNCHANGED <<early, late>>
        /\ mig' = [mig EXCEPT !.claimed = @ + Holding(a)]
    BY <1>9 DEF ClaimMigration, ClaimAccepted
  <2>2. mig'.tree = mig.tree
    BY <1>1, <2>1
  <2> QED BY <2>1, <2>2 DEF Claimers
<1>10. ASSUME NEW a \in Accounts, RecordBurn(a) PROVE Claimers' \subseteq mig'.tree
  <2>1. a \in Burned /\ migDone' = migDone \cup {a} /\ UNCHANGED <<mig, early, late>>
    BY <1>10 DEF RecordBurn
  <2> QED BY <1>1, <2>1 DEF Claimers
<1> QED BY <1>3, <1>4, <1>5, <1>6, <1>7, <1>8, <1>9, <1>10 DEF ContractNext, MigrationNext

\* The mint's liquidation and the chain's deadline are one height.
LEMMA OneDeadline ==
  ASSUME NEW a \in Accounts
  PROVE  LiquidationHeight(LeafMint(a)) = ClaimDeadlineHeight /\ ClaimDeadlineHeight \in Nat
<1> DEFINE x == MigrationMintDays
           y == GraceDays + BleedDays
           z == HeightsPerDay
<1>1. x \in Nat /\ GraceDays \in Nat /\ BleedDays \in Nat /\ y \in Nat /\ z \in Nat
      /\ GenesisHeight \in Nat
  BY EngineAssumption, LasseMintAssumption
<1>2. MaturityHeight(LeafMint(a)) = GenesisHeight + x * z
  BY DEF MaturityHeight, LeafMint
<1>3. GraceDaysFor(LeafMint(a)) = GraceDays
  BY DEF GraceDaysFor, LeafMint
<1>4. LiquidationHeight(LeafMint(a)) = GenesisHeight + x * z + y * z
  BY <1>2, <1>3 DEF LiquidationHeight
<1>5. MigrationMintDays + GraceDays + BleedDays = x + y
  BY <1>1
<1>6. ClaimDeadlineHeight = GenesisHeight + (x + y) * z
  BY <1>5 DEF ClaimDeadlineHeight
<1> HIDE DEF x, y, z
<1>7. (x + y) * z = x * z + y * z
  BY <1>1
<1>8. x * z \in Nat /\ y * z \in Nat
  BY <1>1, ProductNat
<1> DEFINE v == x * z
           w == y * z
<1>9. LiquidationHeight(LeafMint(a)) = GenesisHeight + v + w
      /\ ClaimDeadlineHeight = GenesisHeight + (v + w) /\ v \in Nat /\ w \in Nat
  BY <1>4, <1>6, <1>7, <1>8
<1> HIDE DEF v, w
<1> QED BY <1>1, <1>9

\* When the panel offers a claim.
LEMMA PanelOffers ==
  ASSUME NEW a \in Qualified, NEW served, NEW seen \in Nat
  PROVE  Panel(a, served, seen) = "claim"
           <=> /\ Committed /\ a \notin migDone /\ served = mig.tree
               /\ a \in served /\ seen < ClaimDeadlineHeight
<1>1. Closed(a, seen) <=> ~ (seen < ClaimDeadlineHeight)
  <2>1. a \in Accounts
    BY MigrationAssumption
  <2> QED BY <2>1, OneDeadline DEF Closed
<1>2. a \notin Burned
  BY MigrationAssumption
<1>3. CASE ~ Committed \/ a \in migDone \/ served = {}
  <2>1. Panel(a, served, seen) = "hidden"
    BY <1>3 DEF Panel, Committed
  <2> QED BY <1>3, <2>1 DEF Committed
<1>4. CASE Committed /\ a \notin migDone /\ served \notin {{}, mig.tree}
  <2>1. Panel(a, served, seen) = "mismatch"
    BY <1>4 DEF Panel
  <2> QED BY <1>4, <2>1
<1>5. CASE Committed /\ a \notin migDone /\ served = mig.tree /\ served # {}
  <2>1. Panel(a, served, seen) = (IF a \notin served THEN "hidden"
                                  ELSE IF Closed(a, seen) THEN "closed" ELSE "claim")
    BY <1>2, <1>5 DEF Panel
  <2> QED BY <1>1, <1>5, <2>1
<1> QED BY <1>3, <1>4, <1>5

\* Room is left for every leaf that has no record.
LEMMA ClaimFits ==
  ASSUME PanelInv, NEW a \in Qualified, a \in mig.tree, a \notin migDone
  PROVE  mig.claimed + Holding(a) <= mig.total
<1> DEFINE S == Claimers \cup {a}
           R == (mig.tree \cap Qualified) \ S
<1>1. a \in Accounts /\ Claimers \in SUBSET Accounts /\ a \notin Claimers
      /\ S \in SUBSET Accounts /\ R \in SUBSET Accounts /\ S \cap R = {}
  BY MigrationAssumption DEF Claimers
<1>2. S \cup R = mig.tree \cap Qualified
  BY DEF PanelInv, Claimers
<1>3. mig.claimed = Holdings(Claimers) /\ mig.total = Holdings(mig.tree \cap Qualified)
  BY DEF PanelInv, MigrationInv
<1>4. Holdings(S) = mig.claimed + Holding(a)
  BY <1>1, <1>3, HoldingsAdd
<1> HIDE DEF S, R
<1>5. mig.total = Holdings(S) + Holdings(R) /\ Holdings(S) \in Nat /\ Holdings(R) \in Nat
  BY <1>1, <1>2, <1>3, HoldingsUnion, HoldingsIsNat
<1> QED BY <1>4, <1>5

\* What the panel offers the chain takes, and the other way round.
LEMMA OffersAreAccepted ==
  ASSUME PanelInv, NEW a \in Qualified, NEW served
  PROVE  /\ Panel(a, served, height) = "claim" => ClaimAccepted(a) /\ LandsOnMint(a)
         /\ served = mig.tree => (ClaimAccepted(a) => Panel(a, served, height) = "claim")
<1>1. height \in Nat
  BY BooksRows DEF PanelInv, VotesInv
<1>2. Panel(a, served, height) = "claim"
        <=> /\ Committed /\ a \notin migDone /\ served = mig.tree
            /\ a \in served /\ height < ClaimDeadlineHeight
  BY <1>1, PanelOffers
<1>3. a \in mig.tree /\ a \notin migDone => mig.claimed + Holding(a) <= mig.total
  BY ClaimFits
<1> QED BY <1>2, <1>3 DEF ClaimAccepted, LandsOnMint

-----------------------------------------------------------------------------
(* What was shown is what is paid, and time only takes from it.            *)

\* The bleed leaves less the later it is.
LEMMA BleedFalls ==
  ASSUME NEW m, m.start \in Nat, m.days \in Nat, m.goodAccounting \in BOOLEAN,
         NEW h \in Nat, NEW k \in Nat, h <= k
  PROVE  BleedRemaining(m, k) <= BleedRemaining(m, h)
<1> DEFINE g == MaturityHeight(m) + GraceDaysFor(m) * HeightsPerDay
           span == BleedDays * HeightsPerDay
           less == span - (k - g)
           more == span - (h - g)
<1>1. /\ MultScale \in Nat \ {0} /\ HeightsPerDay \in Nat \ {0} /\ BleedDays \in Nat \ {0}
      /\ GraceDaysFor(m) \in Nat
  BY EngineAssumption DEF GraceDaysFor
<1>2. g \in Nat /\ span \in Nat \ {0}
  <2>1. m.days * HeightsPerDay \in Nat /\ GraceDaysFor(m) * HeightsPerDay \in Nat
    BY <1>1, ProductNat
  <2>2. MaturityHeight(m) \in Nat
    BY <2>1 DEF MaturityHeight
  <2>3. span \in Nat /\ span # 0
    BY <1>1, ProductNat
  <2> QED BY <2>1, <2>2, <2>3
<1>3. BleedRemaining(m, h) \in 0 .. MultScale /\ BleedRemaining(m, k) \in 0 .. MultScale
  BY BleedBounded
<1>4. \A n \in Nat :
        /\ n <= g => BleedRemaining(m, n) = MultScale
        /\ ~ (n <= g) /\ n - g >= span => BleedRemaining(m, n) = 0
        /\ ~ (n <= g) /\ ~ (n - g >= span) =>
             BleedRemaining(m, n) = MulDiv(span - (n - g), MultScale, span)
  BY DEF BleedRemaining, MulDiv
<1> HIDE DEF g, span
<1>5. CASE h <= g
  BY <1>1, <1>3, <1>4, <1>5
<1>6. CASE ~ (h <= g)
  <2>1. ~ (k <= g)
    BY <1>2, <1>6
  <2>2. CASE k - g >= span
    BY <1>1, <1>3, <1>4, <2>1, <2>2
  <2>3. CASE ~ (k - g >= span)
    <3>1. ~ (h - g >= span) /\ less \in Nat /\ more \in Nat /\ less <= more
      BY <1>2, <1>6, <2>1, <2>3
    <3>2. /\ BleedRemaining(m, h) = MulDiv(more, MultScale, span)
          /\ BleedRemaining(m, k) = MulDiv(less, MultScale, span)
      BY <1>4, <1>6, <2>1, <2>3, <3>1
    <3> HIDE DEF less, more
    <3> QED BY <1>1, <1>2, <3>1, <3>2, MulDivMono
  <2> QED BY <2>2, <2>3
<1> QED BY <1>5, <1>6

\* So does the settlement of a mature position.
LEMMA SettlementFalls ==
  ASSUME NEW m, m.principal \in Nat, m.start \in Nat, m.days \in Nat, m.goodAccounting \in BOOLEAN,
         NEW h \in Nat, NEW k \in Nat, h <= k, IsMature(m, h)
  PROVE  SettleMint(m, k, 0).toOwner <= SettleMint(m, h, 0).toOwner
<1> DEFINE p == m.principal + 0
           a == BleedRemaining(m, k)
           c == BleedRemaining(m, h)
<1>1. MultScale \in Nat \ {0} /\ p \in Nat
  BY EngineAssumption
<1>2. a \in Nat /\ c \in Nat /\ a <= c
  BY <1>1, BleedFalls, BleedBounded
<1>3. IsMature(m, k)
  <2>1. MaturityHeight(m) \in Nat
    <3>1. m.days * HeightsPerDay \in Nat
      BY EngineAssumption, ProductNat
    <3> QED BY <3>1 DEF MaturityHeight
  <2> QED BY <2>1 DEF IsMature
<1>4. /\ SettleMint(m, k, 0).toOwner = MulDiv(p, a, MultScale)
      /\ SettleMint(m, h, 0).toOwner = MulDiv(p, c, MultScale)
  BY <1>3 DEF SettleMint
<1> HIDE DEF p, a, c
<1>5. MulDiv(p, a, MultScale) = MulDiv(a, p, MultScale)
      /\ MulDiv(p, c, MultScale) = MulDiv(c, p, MultScale)
  <2>1. p * a = a * p /\ p * c = c * p
    BY <1>1, <1>2
  <2> QED BY <2>1, Zenon DEF MulDiv
<1>6. MulDiv(a, p, MultScale) <= MulDiv(c, p, MultScale)
  BY <1>1, <1>2, MulDivMono
<1> QED BY <1>4, <1>5, <1>6

\* The page's leaf is the contract's.
LEMMA PageLeaf ==
  ASSUME NEW a \in Accounts, NEW h \in Nat
  PROVE  /\ SettleMint(LeafMint(a), h, 0) = SettleMint(Leaf(a), h, 0)
         /\ Matured(a, h) <=> IsMature(Leaf(a), h)
         /\ LeafMint(a).principal \in Nat /\ LeafMint(a).start \in Nat
         /\ LeafMint(a).days \in Nat /\ LeafMint(a).goodAccounting \in BOOLEAN
<1>1. /\ LeafMint(a).principal = Leaf(a).principal /\ LeafMint(a).start = Leaf(a).start
      /\ LeafMint(a).days = Leaf(a).days /\ LeafMint(a).goodAccounting = Leaf(a).goodAccounting
  BY DEF LeafMint, Leaf
<1>2. /\ SettleMint(LeafMint(a), h, 0) = SettleMint(Leaf(a), h, 0)
      /\ IsMature(LeafMint(a), h) <=> IsMature(Leaf(a), h)
  BY <1>1, SettledAlike
<1>3. Matured(a, h) <=> IsMature(LeafMint(a), h)
  BY DEF Matured, IsMature
<1>4. /\ LeafMint(a).principal \in Nat /\ LeafMint(a).start \in Nat
      /\ LeafMint(a).days \in Nat /\ LeafMint(a).goodAccounting \in BOOLEAN
  <2>1. Snapshot[a].staked \in Nat /\ GenesisHeight \in Nat /\ MigrationMintDays \in Nat
    BY EngineAssumption, LasseMintAssumption
  <2> QED BY <2>1 DEF LeafMint
<1> QED BY <1>2, <1>3, <1>4

\* What the panel shows before a claim, whenever it was drawn.
ClaimAsShown(a) ==
  /\ bal'[a] - bal[a] = Yields(a, height).liquid
  /\ (mint' # mint) <=> Yields(a, height).mint > 0
  /\ Cheap(a, height) <=> mint' = mint
  /\ \A seen \in {h \in Heights : h <= height} :
       /\ Cheap(a, seen) => mint' = mint /\ bal'[a] - bal[a] <= Yields(a, seen).liquid
       /\ Panel(a, mig.tree, seen) = "claim"

LEMMA ClaimShown ==
  ASSUME VotesInv, NEW a \in Qualified, ClaimMigration(a)
  PROVE  ClaimAsShown(a)
<1> DEFINE n == Snapshot[a].staked
           l == Snapshot[a].liquid
           x == bal[a]
           o(h) == SettleMint(Leaf(a), h, 0).toOwner
           m == MigrationMint(store, a)
           young == n > 0 /\ ~ IsMature(m, height)
<1>1. /\ a \in Accounts /\ height \in Nat /\ mint \in [Accounts -> Seq(Mint)] /\ x \in Nat
      /\ n \in Nat /\ l \in Nat
  <2>1. a \in Accounts
    BY MigrationAssumption
  <2> QED BY <2>1, BooksRows, LasseMintAssumption DEF VotesInv
<1>2. IsMature(m, height) <=> Matured(a, height)
  BY <1>1, LeafIsMint, PageLeaf
<1>3. \A h \in Nat :
        /\ Yields(a, h).liquid = IF Matured(a, h) /\ n > 0 THEN l + o(h) ELSE l
        /\ Yields(a, h).mint = IF Matured(a, h) /\ n > 0 THEN 0 ELSE n
  <2> TAKE h \in Nat
  <2>1. SettleMint(LeafMint(a), h, 0) = SettleMint(Leaf(a), h, 0)
    BY <1>1, PageLeaf
  <2> QED BY <2>1 DEF Yields, HasStake
<1>4. \A h \in Nat : Cheap(a, h) <=> ~ (n > 0) \/ Matured(a, h)
  BY DEF Cheap, HasStake
<1>5. \A h \in Nat : h <= height /\ Matured(a, h) => Matured(a, height) /\ o(height) <= o(h)
  <2> TAKE h \in Nat
  <2> HAVE h <= height /\ Matured(a, h)
  <2> DEFINE p == LeafMint(a)
  <2>1. /\ p.principal \in Nat /\ p.start \in Nat /\ p.days \in Nat /\ p.goodAccounting \in BOOLEAN
        /\ SettleMint(p, h, 0) = SettleMint(Leaf(a), h, 0)
        /\ SettleMint(p, height, 0) = SettleMint(Leaf(a), height, 0)
    BY <1>1, PageLeaf
  <2>2. IsMature(p, h)
    BY DEF Matured, IsMature
  <2> HIDE DEF p
  <2>3. SettleMint(p, height, 0).toOwner <= SettleMint(p, h, 0).toOwner
    BY <1>1, <2>1, <2>2, SettlementFalls
  <2>4. MaturityHeight(p) \in Nat
    <3>1. p.days * HeightsPerDay \in Nat
      BY <2>1, EngineAssumption, ProductNat
    <3> QED BY <2>1, <3>1 DEF MaturityHeight
  <2>5. Matured(a, height)
    BY <1>1, <2>2, <2>4 DEF Matured, IsMature, p
  <2> QED BY <2>1, <2>3, <2>5
<1>6. ASSUME NEW seen \in Heights, seen <= height
      PROVE  Panel(a, mig.tree, seen) = "claim"
  <2>1. ClaimAccepted(a)
    BY DEF ClaimMigration
  <2>2. seen \in Nat /\ ClaimDeadlineHeight \in Nat
    BY <1>1, LasseMintAssumption, OneDeadline
  <2>3. seen < ClaimDeadlineHeight
    BY <1>1, <1>6, <2>1, <2>2 DEF ClaimAccepted
  <2> QED BY <2>1, <2>2, <2>3, PanelOffers DEF ClaimAccepted
<1>7. Heights \subseteq Nat
  BY LasseMintAssumption
<1>8. CASE young
  <2> DEFINE live == MigrationMint(Accrue(store, height), a)
  <2>1. bal'[a] = x + l /\ mint' = [mint EXCEPT ![a] = Append(@, live)]
    BY <1>1, <1>8, EarlyClaimStays
  <2> HIDE DEF live, x, l
  <2>2. mint' # mint
    <3>1. mint[a] \in Seq(Mint) /\ mint'[a] = Append(mint[a], live)
      BY <1>1, <2>1
    <3>2. Len(mint'[a]) = Len(mint[a]) + 1 /\ Len(mint[a]) \in Nat
      BY <3>1
    <3> QED BY <3>2
  <2>3. ~ Matured(a, height) /\ n > 0
    BY <1>2, <1>8
  <2>4. \A seen \in Nat : seen <= height => ~ Cheap(a, seen)
    BY <1>4, <1>5, <2>3
  <2>5. bal'[a] - x = l
    BY <1>1, <2>1
  <2> HIDE DEF n, o
  <2>6. bal'[a] - bal[a] = Yields(a, height).liquid
    BY <1>1, <1>3, <2>3, <2>5 DEF x
  <2>7. Yields(a, height).mint > 0 /\ ~ Cheap(a, height)
    BY <1>1, <1>3, <2>3, <2>4
  <2> QED BY <1>6, <1>7, <2>2, <2>4, <2>6, <2>7 DEF ClaimAsShown
<1>9. CASE ~ young
  <2> DEFINE paid == ClaimPaid(a).toOwner
  <2>1. bal'[a] = x + l + paid /\ mint' = mint
    BY <1>1, <1>9, LateClaimStays
  <2>2. paid = o(height) /\ paid \in Nat /\ (~ (n > 0) => paid = 0)
    <3>1. paid = o(height) /\ paid \in Nat
      BY <1>1, <1>9, ClaimPaysTheLeaf, ClaimPaidExact
    <3>2. ~ (n > 0) => paid = 0
      BY DEF ClaimPaid
    <3> QED BY <3>1, <3>2
  <2>3. ~ (n > 0) \/ Matured(a, height)
    BY <1>2, <1>9
  <2> HIDE DEF paid, x, l, n, o
  <2>4. bal'[a] - x = l + paid
    BY <1>1, <2>1, <2>2
  <2>5. Yields(a, height).liquid = l + paid
    BY <1>1, <1>3, <2>2, <2>3
  <2>6. ~ (Yields(a, height).mint > 0) /\ Cheap(a, height)
    BY <1>1, <1>3, <1>4, <2>3
  <2>7. ASSUME NEW seen \in Nat, seen <= height, Cheap(a, seen)
        PROVE  l + paid <= Yields(a, seen).liquid
    <3>1. CASE ~ (n > 0)
      BY <1>1, <1>3, <2>2, <3>1
    <3>2. CASE n > 0
      <4>1. Matured(a, seen) /\ o(height) <= o(seen)
        BY <1>4, <1>5, <2>7, <3>2
      <4>2. Yields(a, seen).liquid = l + o(seen)
        BY <1>3, <3>2, <4>1
      <4>3. o(seen) \in Nat
        <5> DEFINE p == LeafMint(a)
        <5>1. /\ p.principal \in Nat /\ p.start \in Nat /\ p.days \in Nat
              /\ p.goodAccounting \in BOOLEAN /\ SettleMint(p, seen, 0) = SettleMint(Leaf(a), seen, 0)
          BY <1>1, PageLeaf
        <5> HIDE DEF p
        <5>2. SettleMint(p, seen, 0).toOwner \in Nat
          BY <5>1, SettlementExact
        <5> QED BY <5>1, <5>2 DEF o
      <4> QED BY <1>1, <2>2, <4>1, <4>2, <4>3
    <3> QED BY <3>1, <3>2
  <2> QED BY <1>6, <1>7, <2>1, <2>4, <2>5, <2>6, <2>7 DEF ClaimAsShown, x
<1> QED BY <1>8, <1>9

\* What one step does, and what was on the page before it.
PanelTells ==
  \A a \in Qualified :
       LET claimed == a \in migDone' \ migDone /\ mig'.claimed # mig.claimed
           shown   == Yields(a, height)
       IN  /\ \A served \in Trees \cup {{}} :
                /\ Panel(a, served, height) = "claim" => ClaimAccepted(a) /\ LandsOnMint(a)
                /\ served = mig.tree => (ClaimAccepted(a) => Panel(a, served, height) = "claim")
           /\ claimed =>
                /\ bal'[a] - bal[a] = shown.liquid
                /\ (mint' # mint) <=> shown.mint > 0
                /\ Cheap(a, height) <=> mint' = mint
                /\ \A seen \in {h \in Heights : h <= height} :
                     /\ Cheap(a, seen) => mint' = mint /\ bal'[a] - bal[a] <= Yields(a, seen).liquid
                     /\ Panel(a, mig.tree, seen) = "claim"

LEMMA StepTells == PanelInv /\ [ContractNext]_mvars => PanelTells
<1> SUFFICES ASSUME PanelInv, [ContractNext]_mvars, NEW a \in Qualified,
                    a \in migDone' \ migDone, mig'.claimed # mig.claimed
             PROVE  ClaimAsShown(a)
  BY OffersAreAccepted DEF PanelTells, ClaimAsShown
<1>1. PICK c \in Accounts : ClaimMigration(c)
  BY OnlyClaimsClaim DEF PanelInv
<1>2. a = c
  BY <1>1 DEF ClaimMigration
<1> QED BY <1>1, <1>2, ClaimShown DEF PanelInv

(* The claim panel keeps its word, for every snapshot, tree, schedule and  *)
(* height at which it was drawn: it offers a claim exactly when the chain  *)
(* takes it, what it shows is what is paid, nobody is paid more than was   *)
(* shown, and the small allowance is asked for when no mint is made.       *)
THEOREM PanelKeepsWord == ContractSpec => PanelKeepsItsWord
<1>1. MigrationInit => PanelInv
  BY InitVotes, MigrationInitInv DEF MigrationInit, Init, PanelInv, Claimers
<1>2. PanelInv /\ [ContractNext]_mvars => PanelInv'
  BY ContractStays, ClaimersStay DEF PanelInv
<1>3. PanelInv /\ [ContractNext]_mvars => [PanelTells]_mvars
  BY StepTells
<1> QED BY <1>1, <1>2, <1>3, PTL DEF ContractSpec, PanelKeepsItsWord, PanelTells
=============================================================================
