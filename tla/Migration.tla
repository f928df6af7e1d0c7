------------------------------ MODULE Migration ------------------------------
(***************************************************************************)
(* The migration of the Hive-Engine snapshot, composed with the mints and  *)
(* the accrual walk of LasseMint.                                          *)
(*                                                                         *)
(* Before emission starts the owner pushes batches of the snapshot or      *)
(* commits its Merkle root; afterwards every holder claims an own leaf,    *)
(* anyone records burned leaves, and what nobody claimed is swept into the *)
(* reward pool.  A proof holds for the leaves of the tree and for nothing  *)
(* else.  `Snapshot' is what both the batches and the tree owe.            *)
(***************************************************************************)
EXTENDS LasseMint

CONSTANTS
  Null,                \* BurnAccount
  Qualified, Burned,   \* the accounts of the two kinds of leaves
  Trees,               \* BOUND: the sets of accounts a tree is built from
  Batches              \* BOUND: the batches of the operator's tool

ASSUME MigrationAssumption ==
  /\ Null \in Accounts
  /\ Qualified \subseteq Accounts \ {Null} /\ Burned \subseteq Accounts \ (Qualified \cup {Null})
  /\ \A a \in Qualified \cup Burned : Snapshot[a].liquid + Snapshot[a].staked > 0
  /\ \A T \in Trees : T # {} /\ T \subseteq Qualified \cup Burned
  /\ \A b \in Batches : b \in Seq(Qualified \cup Burned) /\ b # <<>>
       /\ \A i, j \in DOMAIN b : b[i] = b[j] => i = j

VARIABLES
  mig,                 \* [tree, total, claimed, swept]; tree = {} until the commit
  early, late          \* HISTORY: the accounts of batches before and after the commit

mvars == <<height, store, mint, bal, migDone, supMigrated, mig, early, late>>

Holding(a) == Snapshot[a].liquid + Snapshot[a].staked

Holdings(S) == Total([a \in Accounts |-> Holding(a)], S)

Elements(b) == {b[i] : i \in DOMAIN b}

ClaimDeadlineHeight ==
  GenesisHeight + (MigrationMintDays + GraceDays + BleedDays) * HeightsPerDay

Committed == mig.tree # {}

FitsTheCap(added) == supMigrated + added + EmissionCap <= HistoricHardCap

\* Mutant: the clock of a migration mint starts with the call.
MigrationMintFromCall(s, a) ==
  NewMint(s, a, Snapshot[a].staked, Snapshot[a].staked, height, MigrationMintDays)

\* Staked power becomes a mint on the clock that started at genesis.
MigrationMint(s, a) ==
  NewMint(s, a, Snapshot[a].staked, Snapshot[a].staked, GenesisHeight, MigrationMintDays)

-----------------------------------------------------------------------------
(* The owner's batches, each sent as often as the operator's tool likes.   *)

BeforeEmission == store.settled <= GenesisHeight

\* Mutant: the records of earlier batches are not looked at.
AllEntries(b) == Elements(b)

\* The accounts of a batch that have no record yet.
Fresh(b) == Elements(b) \ migDone

\* History: whether the batch came before or after the commit.
Remember(S) ==
  IF Committed THEN late' = late \cup S /\ UNCHANGED early
  ELSE early' = early \cup S /\ UNCHANGED late

Registering == [store : Store, mint : [Accounts -> Seq(Mint)], done : Nat]

\* The mints of the accounts S, registered in the order of the batch b.
RegisterAll(b, S) ==
  LET turn == [r \in Registering |->
                 LET a == b[r.done + 1]
                     m == MigrationMint(r.store, a)
                     t == [r EXCEPT !.done = @ + 1]
                 IN  IF r.done >= Len(b) THEN r
                     ELSE IF a \notin S \/ Snapshot[a].staked = 0 THEN t
                     ELSE [t EXCEPT !.store = RegisterMint(@, a, m), !.mint[a] = Append(@, m)]]
  IN  Iterate(turn, [store |-> store, mint |-> mint, done |-> 0], Len(b))

CreditMigrationBatch(b) ==
  LET fresh == Fresh(b)
      added == Holdings(fresh)
      done  == RegisterAll(b, fresh)
  IN  /\ BeforeEmission
      /\ Elements(b) \subseteq Qualified
      /\ FitsTheCap(added)
      /\ supMigrated' = supMigrated + added
      /\ bal' = [a \in Accounts |-> bal[a] + (IF a \in fresh THEN Snapshot[a].liquid ELSE 0)]
      /\ store' = done.store /\ mint' = done.mint
      /\ migDone' = migDone \cup fresh
      /\ Remember(fresh)
      /\ UNCHANGED <<height, mig>>

\* What does not qualify goes to null, with a record for each account.
BurnMigrationBatch(b) ==
  LET fresh == Fresh(b)
      added == Holdings(fresh)
  IN  /\ BeforeEmission
      /\ Elements(b) \subseteq Burned
      /\ FitsTheCap(added)
      /\ supMigrated' = supMigrated + added
      /\ bal' = [bal EXCEPT ![Null] = @ + added]
      /\ migDone' = migDone \cup fresh
      /\ Remember(fresh)
      /\ UNCHANGED <<height, store, mint, mig>>

-----------------------------------------------------------------------------
(* The committed tree.                                                     *)

\* Mutant: only what is minted at once is measured against the cap.
SnapshotFitsBurn(total, burnTotal) == FitsTheCap(burnTotal)

SnapshotFits(total, burnTotal) == FitsTheCap(total + burnTotal)

\* The owner commits a tree, once.  Nothing compares it with the batches sent.
SetSnapshot(T) ==
  LET total     == Holdings(T \cap Qualified)
      burnTotal == Holdings(T \cap Burned)
  IN  /\ BeforeEmission
      /\ ~ Committed
      /\ SnapshotFits(total, burnTotal)
      /\ mig' = [mig EXCEPT !.tree = T, !.total = total]
      /\ supMigrated' = supMigrated + burnTotal
      /\ bal' = [bal EXCEPT ![Null] = @ + burnTotal]
      /\ UNCHANGED <<height, store, mint, migDone, early, late>>

\* What a claim needs besides a walk that is up to date where it makes a mint.
ClaimAccepted(a) ==
  /\ Committed
  /\ height < ClaimDeadlineHeight
  /\ a \notin migDone
  /\ a \in mig.tree \cap Qualified
  /\ mig.claimed + Holding(a) <= mig.total

(***************************************************************************)
(* A claim before the maturity of the migration mints registers the mint,  *)
(* which needs a walk up to date; a later one is paid what the mint would  *)
(* pay without yield, and recycles the rest with no walk at all.           *)
(***************************************************************************)
ClaimMigration(a) ==
  LET amount == Holding(a)
      staked == Snapshot[a].staked
      m      == MigrationMint(store, a)
      mature == IsMature(m, height)
      walked == Accrue(store, height)
      live   == MigrationMint(walked, a)
      paid   == IF staked > 0 /\ mature THEN SettleMint(m, height, 0)
                ELSE [toOwner |-> 0, toRewardPool |-> 0]
  IN  /\ ClaimAccepted(a)
      /\ IF staked > 0 /\ ~ mature
         THEN /\ CaughtUp(walked, height)
              /\ store' = RegisterMint(walked, a, live)
              /\ mint' = [mint EXCEPT ![a] = Append(@, live)]
         ELSE /\ store' = Recycle(store, paid.toRewardPool)
              /\ UNCHANGED mint
      /\ supMigrated' = supMigrated + amount
      /\ bal' = [bal EXCEPT ![a] = @ + Snapshot[a].liquid + paid.toOwner]
      /\ mig' = [mig EXCEPT !.claimed = @ + amount]
      /\ migDone' = migDone \cup {a}
      /\ UNCHANGED <<height, early, late>>

\* A receipt; null was credited with the total when the root was committed.
RecordBurn(a) ==
  /\ Committed
  /\ a \notin migDone
  /\ a \in mig.tree \cap Burned
  /\ migDone' = migDone \cup {a}
  /\ UNCHANGED <<height, store, mint, bal, supMigrated, mig, early, late>>

Remainder == mig.total - mig.claimed

SweepUnclaimed ==
  LET walked == Accrue(store, height)
  IN  /\ Committed /\ ~ mig.swept
      /\ height >= ClaimDeadlineHeight
      /\ CaughtUp(walked, height)
      /\ supMigrated' = supMigrated + Remainder
      /\ store' = Recycle(walked, Remainder)
      /\ mig' = [mig EXCEPT !.swept = TRUE]
      /\ UNCHANGED <<height, mint, bal, migDone, early, late>>

-----------------------------------------------------------------------------
MigrationInit ==
  /\ Init
  /\ mig = [tree |-> {}, total |-> 0, claimed |-> 0, swept |-> FALSE]
  /\ early = {} /\ late = {}

\* The calls of LasseMint that move what was migrated.
MintCall ==
  /\ \/ Tick
     \/ Settle
     \/ \E n \in AdvanceSteps : Advance(n)
     \/ \E a \in Qualified : \E id \in DOMAIN mint[a] : ClaimMint(a, id) \/ SweepMint(a, id)
  /\ UNCHANGED <<mig, early, late>>

MigrationNext ==
  \/ MintCall
  \/ \E T \in Trees : SetSnapshot(T)
  \/ SweepUnclaimed
  \/ \E b \in Batches : CreditMigrationBatch(b) \/ BurnMigrationBatch(b)
  \/ \E a \in Accounts : ClaimMigration(a) \/ RecordBurn(a)

\* Blocks are produced, and anyone may send `advance' and the sweep.
MigrationFairness ==
  /\ WF_mvars(Tick /\ UNCHANGED <<mig, early, late>>)
  /\ WF_mvars((\E n \in AdvanceSteps : Advance(n)) /\ UNCHANGED <<mig, early, late>>)
  /\ WF_mvars(SweepUnclaimed)

MigrationSpec == MigrationInit /\ [][MigrationNext]_mvars /\ MigrationFairness

-----------------------------------------------------------------------------
(* Every unit of the snapshot enters the supply exactly once: with its     *)
(* batch, with the commit, by its claim or with the sweep, whatever is     *)
(* sent twice, resumed, or left to the deadline (migDoneKey, sup_claimed). *)
(* After the sweep the supply is what was pushed and what was committed.   *)
IssuedOnce ==
  LET pushed  == Holdings(early) + Holdings(late)
      claimed == Holdings((migDone \cap Qualified) \ (early \cup late))
      burned  == Holdings(mig.tree \cap Burned)
  IN  /\ mig.claimed = claimed
      /\ supMigrated = pushed + (IF mig.swept THEN Holdings(mig.tree) ELSE burned + claimed)

(* "The hardcap is checked against the whole snapshot now, so no later     *)
(* claim can breach it" (SetSnapshot): claims and the sweep keep the       *)
(* supply within the cap; only batches sent after the commit, which do not *)
(* look at what is committed, add to it.                                   *)
CapHoldsButForLateBatches ==
  supMigrated + EmissionCap <= HistoricHardCap + Holdings(late)

(* The books of the migration: every unit once, and within the cap.        *)
IssuedOnceWithinTheCap == IssuedOnce /\ CapHoldsButForLateBatches

(* What an account would be left with if it closed everything today.       *)
Worth(a) ==
  LET open == {id \in DOMAIN mint[a] : ~ mint[a][id].ended}
  IN  bal[a] + Total([id \in open |-> SettleMint(mint[a][id], height, 0).toOwner], open)

Unclaimed(a) ==
  LET leaf == [principal |-> Snapshot[a].staked, start |-> GenesisHeight,
               days |-> MigrationMintDays, goodAccounting |-> FALSE]
  IN  Snapshot[a].liquid + SettleMint(leaf, height, 0).toOwner

(* "The claim is the mint ... claiming merely collects it" (claim.go): in  *)
(* every phase a claim gives the account what its mint, running from       *)
(* genesis, is worth on that day without yield, and nobody else anything.  *)
ClaimingMerelyCollects ==
  [][\A a \in Qualified : (mig'.claimed # mig.claimed) =>
       Worth(a)' = Worth(a) + (IF a \in migDone' \ migDone THEN Unclaimed(a) ELSE 0)]_mvars

(* What was committed is issued in the end: however long nobody called,    *)
(* somebody can close the days that the sweep needs closed.                *)
CommittedIsIssued == Committed ~> mig.swept

(* However many mints one day retires, bounded walks close it, and what     *)
(* was committed is issued in the end (addExpiryEntry, SweepMigration).     *)
NothingWaitsForEver == WalkCatchesUp /\ CommittedIsIssued
=============================================================================
