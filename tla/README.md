# LasseCash on MAGI: verification project

LasseCash is a token with time-locked positions ("mints" that hold L-Shares), a
Proof-of-Brain reward for posts, a liquidity pool and a leaderboard that governs
parameters.  All of it is one Go contract (`src/contract`, arithmetic in
`src/engine`) that runs on the MAGI chain, a TypeScript client (`src/api`) and a
site (`src/web`).  This directory holds TLA+ models of that code, the TLC
configurations that check them, and proofs about them.

MAGI executes calls one at a time and reverts a call that fails, so the contract
has no data races.  What makes it hard is that **nothing runs by itself**: there
is no timer, no call may do unbounded work, and every day that passed unnoticed is
made up for by whoever calls next, in slices, from state other callers have
changed meanwhile.

## 1. Inventory

| Part | State it keeps | Operations | Hard behaviour |
|---|---|---|---|
| **engine** (`src/engine`) | none | emission schedule and splits, share rate, settlement, accumulator, pools, votes, Merkle proofs | flooring, era and day boundaries, width of the accumulator |
| **mints and accrual** (`contract/state/accrual.go`, `mint.go`) | positions, votes `shr_`, denominator `shares_total`, schedules `exp_`, expiry lists `expl_`, checkpoints `accAt_`, accumulator `acc_per`/`acc_held`, the day reached `acc_day` | create, claim, sweep, arm, the walk (`Accrue`, `AccrueSteps`) | a walk that stops inside a day, closing a position before, during and after its day is walked, late walks |
| **ledger and reward pools** (`ledger.go`) | balances, supply counters, the four reward pools, migration marks, account roll | transfer, burn, migration credits and batches, gifts to pools, settle | conservation over many rows, resending of batches |
| **claim migration** (`claim.go`) | committed root and totals, what was claimed, whether the rest was swept | commit, claim, record a burn, sweep | three phases on the shared clock, hard cap against the direct credits |
| **token ledger** (`tokenledger.go`) | a token contract beside the legacy rows | lazy and batched migration of balances, minting of supply, reconciling | a balance in two places, order of migration and reconciling |
| **governance** (`governance.go`) | the leaderboard, preferences | offer, promote, set a preference, effective parameter | seats that go stale when the walk retires shares |
| **Proof of Brain** (`pob.go`) | posts, votes, vote power, rshares, curator pots, curation queues, pending balances | vote, unvote, payout, claim and sweep curation, drain, settle pending, promote a post | pots drawn on for a year, bounded drains, monthly epochs |
| **liquidity pool** (`pool.go`) | reserves, pool shares, loyalty weights, tranches, its own accumulator | deposit, claim, withdraw, sweep, swap | partial settlement, dust below a thousandth of HBD |
| **entry points** (`contract/app`) | none | parse arguments, one call into `contract/state` | a failing call reverts |
| **client and signer** (`api/src/client.ts`, `aioha-signer.ts`) | a cached plan of `advance` slices, a cached reading of the credit meter | a press: plan, dry-run and size every call, bundle, sign, await the verdict | plans and readings of a chain that has moved on, settlements in the user's transaction |
| **node failover** (`api/src/magi-nodes.ts`) | the preferred node, shared by all requests | `magiFetch`, `pickFastestNode` | requests and probes in flight move the preferred node under each other |
| **site store** (`web/src/lib/chain.svelte.ts`) | who is signed in, the last view of that account, `info` loaded or not, failures in a row | refresh by the poll, by a press and by signing in; sign in and out | refreshes overlap, and each writes an await after it read who is signed in |
| **transaction index** (`api/src/indexer.ts`, `web/src/lib/server/tx-index.ts`) | rows with their statuses, the slot, backfill offset and mark | sync: head walk, backfill | offsets that shift while pages are read, overlapping syncs, a sync that stops half way |
| **development chain** (`node/sim`), tree builder, tools | - | - | no protocol logic of their own |
| **backend views** (`api/src/magi-backend.ts`, `client.ts`) | none of the protocol | turn rows and the log into accounts, posts, tranches, the board, the pool's past | a view and the call it announces are computed by two pieces of code |
| **site's pages** (`web/src/routes`) | forms and lists | one query or one press each | what they show is as old as the store, and a button promises that a call will be taken |

How they interact: an entry point calls one operation of `contract/state`; nearly
every operation first calls the **walk**; the walk writes the pools that Proof of
Brain and the liquidity pool draw on, the votes that governance and Proof of Brain
count, and the checkpoints that claims read.  The client reads the same rows and
puts `advance` calls in front of a user's call.  The accrual walk is therefore the
core, and is modelled first.

What makes each part correct:

- *mints and accrual*: value is conserved; a mint's yield is the rise of the
  accumulator over exactly its life, never falls and is fixed once its maturity day
  is closed; the pool covers all yields; the denominator is exactly the live mints;
  each vote ends exactly once; slices add up to one long walk; the walk gets there.
- *ledger*: balances, positions and pools add up to migrated plus emitted supply.
- *claim migration*: what is claimed never exceeds what was committed, each account
  once, claimed plus swept is the commitment, the hard cap holds.
- *token ledger*: the token's supply equals the counters; a balance is the same
  before and after its row is migrated.
- *governance*: after an offer the board holds the strongest of the accounts that
  were offered; the effective value lies within its bounds.
- *Proof of Brain*: a pot pays no more than it was given, each curator once; a post
  is paid once; a queue entry whose post is paid is eventually drained.
- *liquidity pool*: reserves cover all withdrawals, custody equals the reserve up to
  dust, a tranche takes no reward from before it joined.
- *press*: what one press signs is affordable and fits a block, the user's call comes
  through whatever rides along, and pressing again always helps.
- *nodes and store*: no request gives up while a node answers all along; the page comes to
  rest on a node that answers and on the signed-in account as it is.
- *index*: it holds every transaction up to its newest one, apart from what the
  backfill still has to read.
- *views and pages*: what a page shows is what the chain holds, a button is offered exactly
  when the call behind it is taken, and the call then does what the page said.

`PROJECT.json` lists the hazards of this code at their lines, with the properties that
cover them.

## 2. Modules

| Module | Models |
|---|---|
| `Loops` | bounded loops (`Iterate`) and totals over finite sets (`Total`), in a form both TLC and TLAPS handle |
| `Engine` | the arithmetic of `src/engine` that mints and emission use |
| `LasseMint` | mints, the accrual walk, direct migration credits, gifts, and the properties |
| `Migration` | extends `LasseMint`: batches of the snapshot, its commitment, claims in every phase, burn receipts, the sweep |
| `Ledger` | the abstract ledger: one balance per account, a reserve, the books |
| `TokenLedger` | the two-place ledger: legacy rows and a token, and the calls that move value through them; implements `Ledger` |
| `Governance` | the leaderboard, the consensus group read from it, one governed parameter |
| `ProofOfBrain` | posts, votes and vote power, payouts, curator pots and queues, the monthly mint |
| `LiquidityPool` | reserves, swaps, loyalty-weighted tranches and their rewards, evictions |
| `Signer` | one press on the site: plan, dry run, sizing, bundle, execution by MAGI |
| `TransactionIndex` | the syncs of the transaction index, one action per await |
| `MagiNodes` | which node a request is answered by, and which one is tried first |
| `ChainStore` | extends `MagiNodes`: the store all pages share, and its overlapping refreshes |
| `MC...` | the small instances TLC checks, one module each |
| `Engine_proofs` | theorems about those operators: loops, totals, rounding |
| `MintViews` | extends `LasseMint`: the account view, the card, the timeline, the dashboard, "Claim all" |
| `Merkle` | the snapshot as a tree: root, proofs, verification |
| `ClaimPage` | extends `Migration`: the claim panel, the snapshot's tables, the checker |
| `PoolPage` | extends `LiquidityPool`: the views of tranches and quotes, the swap and deposit forms, "Max" |
| `PoolHistory` | extends `PoolPage`: the chart, the market endpoints and the list of positions, from the log |
| `Listing` | pure functions: discovery of posts, order of the feed, conversations |
| `Feed` | extends `ProofOfBrain`: cards, the vote slider, voters, promotions, the rewards page |
| `FeedScreen` | extends `Feed`: the strip and the rows on one reader's screen, and the order a vote holds still |
| `GovernanceViews` | extends `Governance`: the page of the seats and the values in force |
| `LasseMint_proofs` | theorems about `LasseMint` and `MintViews`: what the operators of the walk change and keep, types and schedule, the books, the votes, a walk in slices, what is shown to owners |
| `Migration_proofs` | theorems about `Migration` and `ClaimPage`: every unit issued once, the cap, the mints' invariants through the migration, what a claim is worth, the claim panel |
| `TokenLedger_proofs` | the invariant of the token ledger, the refinement, holders are served |
| `LiquidityPool_proofs` | rewards, custody and conservation of the pool, that nobody loses to others, what its page offers and pays, and the replayed past |
| `ProofOfBrain_proofs` | the books of content and of curation, and that no vote is forgotten |
| `Governance_proofs` | the board, the median, and the page that shows them |
| `Client_proofs` | the index, the nodes, the signer |

How they meet: `Migration` composes with `LasseMint` action by action, over the same
rows.  `Governance`, `ProofOfBrain`, `LiquidityPool` and `Signer` each see of the walk
what their code can tell apart: shares that vanish without an offer, days that are
credited late, and a walk that may stop where it stands because matured mints have
used up its retire budget (`WalkMayStall`).  That the walk itself is right, slice by
slice, is `LasseMint`'s subject.

### How LasseMint corresponds to the code

`store` holds the rows the walk reads and writes, under the names of their keys
(`acc_per`, `acc_held`, `acc_day`, `settled`, `shares_total`, `shr`, `exp`,
`accAt`, `expl`, `explCur`, the pools); an absent row is its zero value, as `getU64`
and `getAmount` read it.  `mint` holds the `mint_` rows of each account, `bal` the
balances, `migDone` and `supMigrated` the migration marks.  `height` is the block
height the next call sees; `Tick` moves it.

One action is one successful contract call, with everything the call does:

| Action | Code |
|---|---|
| `Settle`, `Advance` | `Settle`, `AccrueSteps` behind the `advance` entry point |
| `CreateMint` | `CreateMint`: the walk, the refusal while behind, the debit, `registerMints` |
| `ClaimMint`, `SweepMint` | `endMint`: the walk, the settlement, the release of vote, denominator and schedule when the walk has not done it, the recycling |
| `ArmGoodAccounting` | `ArmGoodAccounting` |
| `CreditMigration` | `CreditMigration`, liquid credit and migration mint |
| `FundPool` | `FundPool`, every target |

A failing call is a disabled action, because `finish` aborts and the chain reverts.
Operators of the store are functions from a store to a store (`AccrueWalk`,
`Recycle`, `RegisterMint`, ...), so an action composes them in the order of the
code.  The walk is two nested loops: `WalkDays` over days and `DrainExpiryList` over
the chunks of one day, written with `Iterate`.

Abstractions: amounts are naturals (the supply cap keeps every sum far below the
width of an int64, and the accumulator's own width check is modelled by `MaxAmount`);
a chunk that the code deletes is an empty chunk; chunks are numbered from 1; names,
messages and encodings are left out.  The code's test `drained` counts chunks
from 0, so `cursor > ExpChunk` there is `explCur >= expChunk` here.

### How TransactionIndex corresponds to the code

`log` is the node's log, transactions numbered by age; `rows` is the table `tx`, `meta`
the table `meta`, `request[r]` the locals of a request and the await it stands at.
`SyncIfStale` and `ClaimSlot` are the two awaits of `syncIfStale`; `Begin`, `FetchPage`,
`Known`, `Upsert`, `Resume`, `SaveOffset` and `Finish` those of `syncIndex`.  What follows
a page without an await (the breaks of both loops, the step of the offset, the page
limit) is `AfterPage`, part of `Upsert`.  `Fail` is the `catch` of the endpoint, at any
await.  `Arrive` and `SettleTx` are the chain; they keep the assumption of the header of
`indexer.ts`, that the pending transactions are among the newest, so that what is found
does not depend on breaking it.  Reading the table changes nothing and is left out.

### How TokenLedger corresponds to the code

`store` holds the rows that a transfer of value touches: `bal`, the two supply counters,
`migDone`, the account roll (`seen`: whether an account is listed, in whichever chunk) and
whether a token was adopted.  `held` is everything the contract keeps for others, that is
principals, the accumulator, the four pools and curator pots: this module asks only how
much that is, `LasseMint` what becomes of it.  `token` is the magi_token, modelled from
`contract/app/tokenledger.go` and the comments there: its balances, supply and owner.

A step the code may refuse (a mint past the cap, a transfer without the balance, a debit
of too much) is a *set* of next stores, empty when it refuses, so a call that fails half
way disappears as the revert makes it.  `Credit`, `Debit`, `EnsureMigrated`,
`MintMigrated` and `MintEmitted` compose them in the order of the code, and each of them
looks at both places.

| Action | Code |
|---|---|
| `Transfer`, `Burn` | the same |
| `LockInMint`, `LockInPool` | the debits of `CreateMint` (the owner goes on the roll) and `FundPool`; promotions and deposits are debits of the second kind |
| `PayOut` | the credits of `endMint`, Proof of Brain, claims and withdrawals |
| `Settle` | the emission of a walk |
| `CreditMigration`, `BurnMigration` | one entry of a migration batch; a batch is several of them, in any order |
| `SetToken`, `MigrateLedger`, `ReconcileFloat` | the same, `MigrateLedger` with a batch of two |
| `HandOver`, `TokenSend` | calls of the token itself, by the operator and by holders |

Left out: allowances (a holder who has not granted one is refused, and a refused call
changes nothing).  The supply that `claim.go` mints and pays is, for this module, an
issue and a payout.  Two `BOUND` constants say whom holders pay by the token's own
transfer (`DirectTo`, the contract's address among them) and whether the owner may
reconcile before the last row is moved (`EarlyReconcile`).
`donated` is not in the code: it counts the tokens that holders sent to the contract's
own address, where no call of the contract can spend them.

### How Migration corresponds to the code

`mig` holds `cfg_migroot` (as the set of accounts the tree was built from: a proof holds
for exactly those leaves), `cfg_migtotal`, `sup_claimed` and `cfg_migswept`; the other
rows are those of `LasseMint`.  `early` and `late` are history: the accounts of batches
sent before and after the commit.

| Action | Code |
|---|---|
| `CreditMigrationBatch` | the same: entries already migrated are skipped, everything is validated, the cap is checked, the mints are registered in bulk (`RegisterAll`) |
| `BurnMigrationBatch` | the same: one receipt per account, one credit of null |
| `SetSnapshot` | the same, burn total to null |
| `ClaimMigration` | the three phases: a running mint, a matured one with its bleed, nothing after the deadline |
| `RecordBurn`, `SweepUnclaimed` | the same |
| `MintCall` | the calls of `LasseMint` that move migrated value: blocks, walks, claims and sweeps of mints |

### How Governance corresponds to the code

`shr` holds the live L-Shares, `board` the stored leaderboard, `pref` the standing
preferences for one parameter (every parameter of the registry is governed alike).
`Offer` is `offer` line by line: the fast refusal against the weakest live seat, the
old seat dropped, the insertion in front of the first seat it beats, the cut.  Shares
are gained (`RegisterMint`) or lost in a call (`EndMint`) with an offer, and lost to the
walk (`DrainExpiryList`) without one.  `Best` is `ConsensusGroup`, `EffectiveValue` the
clamped median of members that have a preference and still have shares.

### How ProofOfBrain corresponds to the code

`post`, `vote`, `power`, `cq` and `pend` are the rows of those names, `pool` and
`rshares` the two windows'.  `burned`, `recycled` and `stale` (rshares a window keeps
from posts paid out of an empty pool) are counters for the properties.  Heights are
whole days.  `Books` is the part of the state a claim touches; `Claimed`, `PayReward`,
`SettleSlot` and `DrainCuration` are functions on it, composed by `Vote` (which ends
with a small drain), `ClaimCuration` and `SettlePending` (which drains, then mints) as
in the code.  The first vote on a post nobody registered registers it as a viral one.
A vote of weight zero is `Unvote`.  Shares are those of the last walk: capital that
matured votes until somebody walks.

### How LiquidityPool corresponds to the code

`amm` holds the `amm_*` rows (reserves, totals, accumulator, held and seen value), `lp`
the tranches, `custody` the HBD the contract really has.  HBD is booked in fine units
and moved in whole milli-HBD: `Drawn` rounds a draw up, `Paid` a payment down.
`SettleTranche` pays a tranche, gives it its new loyalty weight and a new start in one
step, as `settleTranche` does; `Dissolve` is `closeTranche`.  `swaps` counts swaps and
gifts to bound them.

### How the views correspond to the code

`MintViews`, `ClaimPage`, `PoolPage`, `Feed` and `GovernanceViews` are functions of the state of
the module they extend: what the backend reads, what the page computes from it, and which
button it offers.  They add no variable.  Their properties take the view and the call from
one state (what happens when a page grows old is `Signer`'s and `ChainStore`'s subject;
`ClaimPage` also asks about a panel drawn a while before the press).  What the engine in the
browser computes is the Go engine compiled to WebAssembly, so its previews are the operators
of `Engine`, applied to what the page read.

| Definition | Code |
|---|---|
| `MintView`, `Button`, `Phase`, `ClaimAllBatch` | the account view, `MintCard`, `MintTimeline`, "Claim all" |
| `Panel`, `Yields`, `Cheap`; `Facts`, `ClaimedRows` | `ClaimMigration.svelte`; the tables and figures |
| `Root`, `Proof`, `VerifyProof` (`Merkle`) | the tree builder and `VerifyMerkleProof`; a hash without collisions is a constructor |
| `SwapDisabledReason`, `Deposit`, `AffordableDeposit`, `TrancheHealthAt` | the forms of the pool page |
| `CardOf`, `ButtonsAreAccepted`, `FiguresAddUp` | feed, post page, slider, voters, promotion form, rewards page |
| `Rows`, `SeatsOf`, `ValueInForce`, `Standing` | the thresholds page over `governance.ts` |
| `Walk`, `Reason`, `StatusRow`; `LiveOp`, `Verdict`, `Badge` | `apply_criteria.py` as it writes the rows; `/check` as it reads them |
| `Ranking`, `Voted`, `Screen` (`FeedScreen`) | the live ranking, `voted`, `hot` and `shown` of the feed |

`PoolHistory` adds what a walk of the log that ends with each call comes to: `chart`, the
reserves the client replays through the engine, and `market`, those the endpoints add up.
`Listing` has no state at all: its properties range over bounded inputs and are part of
`ListsKeepTheirOrder`.

*The checker.*  A row of the snapshot's files is `in` for two reasons: the scan saw a row the
account signed in the window, or the scan ended before it had proved anything
(`truncated_unresolved`, in "on missing data", with the badge "unresolved").  An account of the
protocol is burned by name, whatever it signed.  A file is final once the loop of
`final-run.sh` reads "0 remain truncated"; its pattern (`*"0 remain truncated"*`, line 13) also
matches 10 or 20 that remain, so the model lets a final file hold unresolved rows.  Every file is
written after a scan of its own moment, with its own cutoff; the live read of the page knows the
announced moment and allows for the drift of the block.

*The screen.*  `voted` keeps the order of the strip and of the rows as the ranking had them before
the vote.  `FeedScreen` does not store it: its properties ask about every order a vote may have
frozen, at every state and step (`FrozenOrders`, more than can come about).  The page is read anew at
every step, so what is shown of a post is current and only its place is old.  Rows of the strip
have no slider.

*HBD and the meter.*  HBD on MAGI is also the meter of resource credits: a call that draws it needs
`available RC >= HBD drawn + rc_limit` (`pool/+page.svelte:269`).  `MayAdd` and `MayBuy` therefore take
a reading of the meter beside the balance.  The meter falls with every other call of the account
and refills with time, so a call is made with any reading up to the capacity (`Readings`); the page
has a reading that may be older, or none.  Calls that draw no HBD need credits too; those are
`Signer`'s subject.

### How Signer corresponds to the code

One account in one tab: the page is busy from a press until the chain's verdict
(`chain.svelte.ts`, `submit`), so presses do not overlap, while everything else may
happen between any two awaits.  `rc` is the wallet's cached meter reading and `ahead`
the client's cached plan; `press` and `phase` are the press in flight.

| Action | Code |
|---|---|
| `WarmCatchUp`, `PlanExpires` | `warmCatchUp`, the five seconds of the plan |
| `Press` | the client's call: `await catchUp()`, then `#send` drops the plan |
| `ReadMeter`, `RcExpires` | `availableRc`, whose promise every sizing of the press shares |
| `Size` | `submit` and `sizeRc`: every call dry-run on one chain and given a limit or refused; slices first, settlements last; a refusal for lag leaves the slices |
| `Include`, `Drop` | signed and executed, or declined or lost; both forget the reading |
| `NewDay`, `OthersWalk`, `OthersSettle`, `Thaw` | the chain meanwhile |

`Execute` is MAGI, modelled from how the client describes it: each call of the Hive
transaction is a transaction of its own, admitted if the account has its limit, whose
full limit is frozen even when it fails.  Amounts are thousands of credits.  The swap
and the vote stand for the calls that draw HBD and the ones that carry settlements, the
mint for those that need an allowance and slices, the claim for those that need slices.
`MaxFaults` bounds everything that goes wrong outside: failed reads, an unreachable
simulation, a declined or lost transaction.

### How MagiNodes and ChainStore correspond to the code

`preferred` is the module-level index of `magi-nodes.ts`.  A request fixes the order of
nodes when it begins (`first`) and counts its attempts (`k`); `failed` is history, the
nodes that were failing at some time since it began.  A node is up, refusing (an error
status, a rate limit, state it has not fetched yet) or silent (no connection, a timeout).

| Definition | Code |
|---|---|
| `Ask`, `NodeAt`, `Outcome`, `NextNode`, `PreferredAfter` | the loop of `magiFetch`: the last node's refusal is handed on, the node that answered is remembered, after none did the next one is |
| `StartProbe`, `FinishProbe` | `pickFastestNode` |
| `Outage`, `Recover` | the nodes |
| `Refresh` | the layout's poll, its start, a press |
| `ReadChain`, `RefreshEnds` | the awaits of `refresh`: the chain's position, then the account by the name read at that moment |
| `SignInWithWallet`, `SignOut` | the same |
| `Land` | a transaction of the account becomes visible |

One query stands for the several of `client.chain` and `accountOf`.  Left out: a
configured private node (tried alone, remembered by nobody), the resource meter (read
beside the account, advisory), the wait for HBD, and the development sign-in.

## 3. What the runs check

| Run | Config | Expected | Question |
|---|---|---|---|
| `mint_safety` | `LasseMint.cfg` | pass | do all rows stay in agreement under every interleaving of calls, and does the dashboard tell it? |
| `migration` | `Migration.cfg` | pass | is every unit of the snapshot issued once, under the cap, and in the end, as the panel says? |
| `token_ledger` | `TokenLedger.cfg` | pass | do rows and tokens behave as one ledger while the rows are moved? |
| `pool` | `LiquidityPool.cfg` | pass | do reserves, custody and rewards agree, can every owner leave, and does the page know? |
| `pob` | `ProofOfBrain.cfg` | pass | is content paid once, does every vote that is due reach its curator, and do cards keep their word? |
| `governance` | `Governance.cfg` | pass | do offers alone find the group a scan would find, and does the page show it? |
| `press` | `Signer.cfg` | pass | is what a press signs affordable, and does pressing again help? |
| `index` | `TransactionIndex.cfg` | pass | does the index come to hold the whole log, never with a gap? |
| `site` | `ChainStore.cfg` | pass | is every node tried, and does the page recover? |
| `yield_after_maturity` | `LasseMintAfterMaturity.cfg` | violation | is a mint paid only for value up to its maturity day? |
| `governance_fix` | `GovernanceFix.cfg` | violation | does one offer fix an exclusion? |
| `index_hole` | `TransactionIndexHole.cfg` | violation | does a known row mean that everything older is known? |

**`mint_safety`** checks, beside `TypeOK`, `BooksArePayable` (no call creates or destroys
value; the cap in `endMint` that "flooring should make unreachable" never bites, and a
closed maturity day always has its checkpoint: a missing row would read as zero),
`VotesMatchLists` (earning and voting shares leave exactly once, on every path, and
denominator, schedules and expiry lists agree with the positions through partial drains
and early ends), `EmissionMatchesWalk` (supply is the closed-form schedule at the day
reached), `SlicedWalkAgrees` (catching up day by day gives the very store one walk gives)
and `YieldNeverFalls`, an action property: no call of anybody lowers the yield of an open
mint, and none changes it once its maturity day is closed.  `DashboardTellsTheTruth` and
`ClosingPaysWhatIsShown` compare what an owner is shown with what the calls do: a card offers
what the chain would take, "Claim all" takes every claimable mint unless one is waiting or
the walk lags, and closing pays at least what the card shows, exactly that once the day is
closed.

`SlicedWalkAgrees` depends on a fact nobody states in the code: the walk splits the
*total* of many days for Proof of Brain and liquidity but adds up *daily* floors for
L-Share, which agrees only because a day's emission is a multiple of eight.  The
assumption is in `EngineAssumption` (`HeightsPerDay % 8 = 0`, 28,800 in the code).

**`migration`**: `IssuedOnceWithinTheCap` accounts for every unit of the snapshot, whichever
way it came (batch, commit, claim, sweep) and however often it was sent, and says what the
check at the commit achieves: claims and the sweep cannot pass the cap; batches sent
*after* the commit are compared with what is issued, not with what is committed, and may
add their own amount on top.  That order is the operator's to avoid.
`ClaimingMerelyCollects` is the promise at the head of `claim.go`: in every phase a claim
leaves the account with exactly what the mint, running from genesis, would be worth that
day.  `FilesAgreeWithTheChain` is about the tree and the files the site serves: a root
binds exactly its leaves, files of another tree are recognised, the figures above the tables
are the chain's, and the checker is honest: it says "in" of who signed in the window of its file
and of rows it marks unresolved, and of nobody else; a holder is out only after a scan that reached
the end of the history and found nothing, and not even then if the live read shows what was
signed since; an account of the protocol is told that it is one.
`PanelKeepsItsWord`: the panel offers a claim exactly when the chain would take it, and the
claim pays what was shown.  `NothingWaitsForEver` is liveness: however late, and with a
migration day of more mints than a call may retire, `advance` gets the walk there and the
sweep gets the rest issued.

**`token_ledger`** interleaves the users' calls with adopting a token, handing it over,
moving rows and reconciling, and with holders that pay each other and the contract's
address by the token itself.  `ImplementsLedger` says that through all of it LASSECASH
is one ledger: a call changes the balances of `Ledger` by exactly its amount, wherever
each balance is stored, and moving rows or reconciling changes nothing.
`BackedFloatPays` and `BackedStaysBacked` are about the float: a contract that adopts a
token keeps principals and pools with no tokens behind them, so payouts can be refused
until it is reconciled (`src/docs/FLOAT-SHORTFALL.md`); once every unit of the books has
a token or a row behind it, the float pays everything, and no call undoes that.
`HoldersAreServed` says the supply never passes the books, the rows yet to be minted
included, that what `Balance` reports can be debited, and that every holder is on the account
roll, apart from those that may be paid past the contract (`DirectTo`).  The run sets
`EarlyReconcile` to FALSE, the order the operator is meant to keep: a float that is reconciled before the
last row is moved is excluded there, not caught; with TRUE the property fails (see
`SupplyNeverExceedsBooks` below).

**`pool`**: `RewardsAreSound` (totals are those of the open tranches; what all have
earned is in the reward pool), `NothingIsLostOrStuck` (custody covers the reserve through
every rounding, LASSECASH is conserved, no size, price or dust bricks a withdrawal) and
`OthersCannotHarm` (the reserves' product per share squared never falls by others' calls, and
an eviction pays only the evicted).  `PageTellsTheTruth`: a sale is offered
if and only if it goes through; a purchase if and only if it would on a full meter; a deposit that
is offered, typed in either asset, and a purchase within its Max go through on every meter that
has not fallen since the page read it; a deposit the account can pay on a full meter is
offered; "Max" reached from the LASSECASH field is taken and nothing larger is, and the clock
shows eviction when a stranger may evict.  What the purchase button does not look at is in
`OfferedPurchasesGoThrough`, below.
`PoolKeepsItsWord`: quotes, cards and previews say what the call then pays, and chart,
endpoints and list of positions follow the pool, as long as nothing is evicted.

**`pob`**: `BooksAreSound` (a window's rshares are its open posts', theirs their votes', a pot
covers its unpaid curators, every unit emitted for content is somewhere),
`LateCuratorsLoseNothing` (a pot claimed curator by curator is never worse for the later
ones) and `QueuePaysAll`: a vote that is due has a slot in its voter's queue, and once no open
post is queued the small drains that ride along with votes reach it.  `FeedTellsTheTruth`:
a button that can be pressed is accepted, and the figures of cards, voters and curators add up.
`CardsKeepTheirWord`: a payout is at least the figure that was pending, a vote adds what the slider
said.  The exactness of the slider is for votes it can recognise: an own vote whose weight cannot
be read back out of its rshares, because the voter's shares have fallen since
(`VoteSlider.svelte:152`), is announced as if it were new, and `VoteAddsWhatWasSaid` leaves it out.
`ListsKeepTheirOrder`: posts are discovered however the pages of the log fell, and the feed's order
and the conversation are what their comments say.  A first vote takes the order on the screen over
as it is, so the card just voted on stays, and from then on nothing on the screen moves,
whatever is voted, paid or opened, until the feed is sorted or voted on again.  Nothing is lost
from it, and strip and rows share exactly what the ranking has moved from the one to the other,
which is a disagreement with the page's own comment (`NothingTwiceOnScreen`, below).  One more thing
is allowed that the bounds do not reach: a post that arrives after the freeze and goes straight into
the strip is on neither list until the feed is sorted again ("at the end, not lost",
`+page.svelte:263`, holds for the rows only); every post of the instance is on Hive from the first day.

**`governance`**: `NoOneRulesAlone` (no duplicate seats; an excluded account is in after one
offer, wherever the dead seats are; with three voters, one cannot move the value past what
the others ask for), `BoardPageTellsTheTruth` (the page seats whom the chain seats, shows the
value in force, lets vote exactly whom `set_param` lets, and the shares it asks of an account
outside do get it a seat) and `OffersConverge`: once holdings rest, offers alone bring the
group to the one a scan of all holders would find.

**`press`**: `EachCallIsPayable` (a bundle fits a block, and no sized call asks for more
than the account holds, whatever was signed since the meter was read),
`SettlementsNeverBlock` (the vote lands whatever becomes of the settlements behind it)
and `PressesLand`: with nobody else walking the accrual, a user who keeps pressing gets
everything done.

**`index`** runs two overlapping syncs, one of which may fail at any await, over a
history that needs two syncs, while a burst of arrivals fits a page.  `IndexIsSound`:
everything older than a known row is known or owed to the backfill, at every moment.
`IndexSettles`: the index comes to hold the whole log, and the newest page to show the chain's
statuses, overlapping writers or not.  A status that settles further down is not corrected
(`PendingIsCorrected` below), so of a row stored while pending only the newest page is covered.

**`site`** has two nodes that fail and recover in two ways while refreshes overlap and a
probe runs.  `EveryNodeIsTried`: a request gives up only if every node was failing at some
time while it ran, wherever others moved the preferred node meanwhile.  `PageRecovers`: as
long as one node keeps answering, the page comes to rest on a node that answers, without
an outage shown, and on the account of whoever is signed in, as it is.

### Where the text and the code disagree

**`yield_after_maturity`**.  `accrual.go:10-12` says a mint is not paid "for a day after
it matured".  `FundPool` recycles into the accumulator without walking first.  If nobody
called since a mint's maturity day ended, the gift reaches an accumulator whose
checkpoint for that day is not taken yet, and the matured mint shares in it.
`SweepCuration` and the mature path of `ClaimMigration` recycle the same way.  Nobody
loses yield already earned (`YieldNeverFalls` holds).

**`index_hole`**.  "A known row means everything older is known too"
(`indexer.ts:85`) is wrong when more than a page of transactions is new: offsets count
from the newest, so one arrival between two pages makes the second page begin with a
row the same walk has just stored.  The walk takes it for the old block and stops; once
the backfill is done, the next sync stops at the first page and nobody reads the
skipped rows again, while the endpoint answers `complete: true`.

**`governance_fix`**.  "Any observer with an interest can fix an exclusion in one
transaction" (`governance.go:28`).  The account offered does get in, but `offer`
inserts it in front of the first seat it beats, which may be a dead one, and cuts the
board from the end: a dead seat stays and a live, deserving account behind it falls
off.  Four holders and three seats suffice.  More offers repair it (`OffersConverge`).

Seen while modelling, stated in the modules, without a run of their own (name the
definition in a cfg to reproduce them):

- `PendingIsCorrected` (`TransactionIndex`): a transaction stored while pending that
  settles and leaves the first page before the next sync keeps its old status, against
  `indexer.ts:15` and the test "a pending status is corrected once it settles"
  (`indexer.test.ts:46`), which looks at one that stays on the first page.
- `SupplyNeverExceedsBooks` (`TokenLedger`, with `EarlyReconcile = TRUE`):
  `ReconcileFloat` "cannot overshoot" (`FLOAT-SHORTFALL.md:87`, `tokenledger.go:281`) but
  does not count rows not moved yet; run before the sweep it mints their amount, and
  moving them mints it again.  No check requires the sweep first.
- `RollIsComplete` with `DirectTo` left out of the exception: "between them those cover
  every way value can reach an account" (`ledger.go:690`) ended with the token, whose
  holders pay anybody past the contract.
- `NothingFromEarlierDays` (`LiquidityPool`): "the new tranche starts from today's
  accumulator reading" (`pool.go:246`), but `AddLiquidity` ignores that `Settle` may
  have stopped short, and the days walked later are shared with the newcomer.
- `SingleSlowPostBlocksNothing` (`ProofOfBrain`, with a third post and a fourth act):
  "stopping at the first unpaid one would let a single slow post block everything behind
  it" (`pob.go:698`).  A drain skips open posts, but it counts every slot it looks at,
  the emptied ones too, and the head does not pass an open post: one open post and as
  many emptied slots as a drain is long keep what is behind them waiting until that post
  is paid.
- `OnlySlicesGoAlone` (`Signer`): "Send ONLY the slices" (`aioha-signer.ts:1738`), but what
  is sent is `pre`, which begins with the token allowance of a mint.  A mint refused for
  lag sends an allowance for a mint that is not sent, possibly alone, and the message
  counts it as a step by which the chain was advanced.
- `ViewIsTheSignedIn` (`ChainStore`): `me` is "the signed-in account's full view"
  (`chain.svelte.ts:116`), but a refresh writes it an await after it read the name
  (`:221`): after signing out, a late answer shows the account that left until the next
  poll.
- Every call of a bundle is sized against the whole meter ("Never ask for more than the
  account has", `aioha-signer.ts:1486`).  Each call by itself is payable, which is what
  `EachCallIsPayable` says; an account that cannot pay all of them pays the first ones,
  lands its own call at a later press (`PressesLand`), and has the limits of the
  refused ones frozen.  The model thaws credits completely: somebody who presses faster
  than a partial thaw restores what a bundle freezes is outside of it.
- `ReplayCannotDrift` (`PoolHistory`): "the replay cannot drift from what the chain
  actually did" (`client.ts:313`).  The walk of the log has no evictions, so chart and
  endpoints differ from the pool from the first one on (`reconciled: false` for good), and
  after a withdrawal that leaves dust behind.
- `ClosingIsToldInFull` (`PoolHistory`): "value out = what came back, plus every reward
  claim" (`[id]/+page.svelte:77`) leaves out the rewards that closing itself pays.
- `OfferedPurchasesGoThrough` (`PoolPage`, with 2 and 4 typed): "on MAGI the balance is not the
  ceiling, the meter is" (`pool/+page.svelte:702-704`) is said of Max on the buy side, and Max and
  the deposit form do take the reserve off the meter.  The button of a purchase compares what was
  typed with the balance alone (`:422`), so a purchase the balance covers and the meter does not
  is offered, and the chain refuses the draw.  The signer's dry run (`Signer`) usually stops it before
  the wallet opens; when no node can simulate, it is signed and refused.
- `NothingTwiceOnScreen` (`FeedScreen`): "the same post twice on one screen reads as a bug"
  (`+page.svelte:193-195`).  A post that stood in What's hot when the reader voted and has been
  displaced since, by that vote or by somebody else's, stays in the frozen strip; the live ranking
  has it among the rows, and `shown` appends every row that the frozen *rows* have not (`:259-264`).

Seen while reading the pages, and too small for a definition:

- "Claim all" takes matured mints (`client.ts:716`), not claimable ones, and stops at the
  first that its dry run refuses (`aioha-signer.ts:1606`): one mint whose day is open keeps
  the ones behind it waiting.
- The pool page's "Max" claims that nothing larger is payable (`pool/+page.svelte:355`); it is
  when LASSECASH binds and the user types into the other field.
- "The card you just voted on does not run away" (`+page.svelte:229`) holds for a first vote.  A second
  one, before the feed is sorted again, freezes the live ranking (`:243`), which is something else
  than the screen by then, and every card moves to its place in it, the one just voted on included.
- The claim panel and `/check` read a shard that could not be fetched as an empty one
  (`ClaimMigration.svelte:58`, `check/+page.svelte:104`): an account of that shard is told it is
  not in the snapshot.
- `quoteMint` and `canSubmit` do not know `MinMintAmount`; the timeline has 28,800 heights a day
  as a number of its own; the open mints are listed oldest first by one backend and newest first
  by the other; the thresholds page asks a tie for the last seat for one share too few.
- The two ids by which a position's story is found are counted differently when a call makes
  several positions (`magi-backend.ts:189`, `position-history.ts:172`).
- The writing page stores an emptied form over the draft when an edit is left for "Write"
  against its own comment (`compose/+page.svelte:385`), loses what is typed while a verdict
  is awaited, and a retry after a timeout meets its own permlink.

### Bounds, and why they are enough

Named bounds are CONSTANTS marked `BOUND` in the modules: they restrict which calls are
made, never what a call does.  `CHECK_DEADLOCK FALSE`: horizons and numbers of calls are
bounded, so most models come to a state where only calls that change nothing are left;
`press`, `index`, `token_ledger` and `site` never do.

*Mints.*  A day has 8 heights, a year 10 days, an era 2 days.  Two accounts, one with a
migration mint (2 days) and one free mint (1 day), the other with one free mint;
chunks of one entry; a user's call retires one entry, `advance` two.  Calls are made at
the day boundaries of days 0 to 4 and once inside day 0; grace is one day and the bleed
two, so a free mint made on day 0 is seen early, on its maturity day, in grace, in bleed
and when nothing is left.  Two mints share a maturity day, so lists have several chunks
and drains stop between them; an era ends inside a walk; `MaxAccrualDays` is 2, so a
walk falls short of four days.

*Migration.*  Two qualified accounts, one burned; batches that overlap and repeat; trees
of all leaves or one; a cap that a snapshot fits exactly and a late batch exceeds; five
heights, one in each phase; two mints that mature together with one retirement a call.

*Token.*  Two holders and null, one snapshot position with a stake, one without and
one of null's own, amounts of one and two, an emission cap of three.  That is enough for
a balance that is part row and part token, a credit that moves a row first, two rows of
one batch, a float short by more than one payment, and a cap that turns the second
credit away.

*Pool.*  Two providers with one tranche each that nothing but their names tells apart
(symmetry), three book units to the milli-HBD, one amount of LASSECASH and HBD limits of two
and four (so a draw rounds up, a payment down, and a limit refuses), calls on days 0, 1 and 3
with dormancy and full loyalty after two, a reward that halves with an era, walks that may
stall or stop short, one swap or gift; two credits beyond the balance, of which a call reserves
one and the page takes one off; a meter that reads two or nothing, and the value two typed into
every field, which is the amount a form accepts or refuses depending on the state.

*Proof of Brain.*  Two posts that the author publishes as deep (two days) unless a first vote
opens them as viral (one day), one of them publishing "burn"; two voters, one of them the
author, who votes half while the other votes half or full; three votes, withdrawals or
promotions; shares that retire after one day and after two while the walk lags a day, so votes
meet an empty pool and a filled one; a month of two days; drains of one and two slots; one place
in the strip, so a vote can displace what stands there.  The lists of the feed range over logs of two transactions, eight kinds of cards and three replies.

*Governance.*  Five holders of equal shares for four seats and a group of three (ties go
by name, so the order is strict), three of them voting high or low; four holders of up
to two shares for three seats in `governance_fix`.

*Press.*  An account of thirty thousand credits, too few for a full bundle; three mints
due on one day, of which an ordinary call retires one and `advance` two; one post to
settle; every kind of call once; one fault.

*Site.*  Two nodes, two outages and one probe; a restored session and one sign-in as
somebody else, one poll or press refreshing beside the refresh of a sign-in, one
transaction that lands.  That is enough for a request that outlives a move of the
preferred node by another one and by the probe, and for two refreshes that end in the
wrong order.

*Index.*  Pages of two, two pages a sync, a history of two pages, two further arrivals,
one failure; `Burst` bounds how far the log may run ahead of the newest stored row: a
page in `index`, two pages in `index_hole`.

### Fairness

`LasseMint` and `Migration`: blocks are produced, and *some* `advance` and the sweep are
weakly fair.  Users owe the chain nothing, so no user call is fair; but `advance` is
permissionless, the client puts it in front of every mint and claim whenever the walk
lags (which is what `Signer` models), and the comment on `UserRetireBudget`
(`accrual.go:91`) relies on it.

`Governance`: `Promote` of each account is weakly fair: it is permissionless, and the
account left out is the observer with an interest.

`TransactionIndex`: the runtime resumes every await (weak fairness of each request's
next step), time passes (`SlotExpires`), and somebody asks again when the index is
stale.  The last is what the index is for: it syncs only when it is read, and promises
nothing to a site nobody visits.  Arrivals, settling and failures are not fair.

`Signer`: awaits return, days turn, credits thaw and cached readings expire; the user
keeps pressing what is not done (strong fairness of each `Press`, because other presses
make the page busy in between).  Nobody else is obliged to walk or to settle.

`ChainStore`: requests and probes end, by an answer or a timeout, and the page polls
while it is looked at (`+layout.svelte`).  Nobody owes the page a node that recovers,
which is why `PageRecovers` assumes one that answers, or somebody who signs in.

`TokenLedger`, `ProofOfBrain` and `LiquidityPool` state no liveness: nobody is bound to
move rows, claim or withdraw.  That a queue *can* be drained and an owner *can* leave
are invariants there (`QueuePaysAll`, `NothingIsLostOrStuck`).

## 4. What is proved

Each theorem holds for every value of the constants that satisfies the assumptions its module
declares; TLC evaluates those on every run.  They ask no more than the code or the chain gives:
finite sets of accounts, posts and windows; positive units and periods; a day whose heights
divide by eight (28,800 do); an emission cap within the hard cap (`emission.go:41-46`); maturity
days of all calls within the modelled days; a snapshot without empty rows, batches without
repeated accounts; and of the pool page that HBD comes to accounts in whole milli-HBD
(`WholeMillis`, the chain moves nothing smaller) and that all LASSECASH there can be lies within
reach of the form's search (`SearchReaches`, 2^64 in the code), that a call reserves no more
credits than every account has beside its HBD (`RcLimit <= RcFree`), and that the reserve the page
takes off the meter covers it (`ReserveCoversTheCall`: 5,500 against what the signer sizes; the
comment at `pool/+page.svelte:283-294` gives the measurements).  `LastDay`, `Heights`, `Days` only name a horizon: it may be any.

| Module | Theorem | States |
|---|---|---|
| `LasseMint_proofs` | `TypeCorrect` | `TypeOK` |
| | `EmissionExact` | `EmissionMatchesWalk` |
| | `BooksPayable` | `BooksArePayable` |
| | `YieldOnlyRises` | `YieldNeverFalls` |
| | `DenominatorLive` | the denominator and the schedule are the open mints' (`DenominatorIsLive`) |
| | `VotesMatch` | `VotesMatchLists` |
| | `SlicesAgree` | `SlicedWalkAgrees` |
| (of `MintViews`) | `ClosingPays` | `ClosingPaysWhatIsShown` |
| | `DashboardTells` | `DashboardTellsTheTruth` |
| (of `LasseMint`) | `Safety`, `BooksInvariant` | the inductive invariants behind them |
| `Migration_proofs` | `IssuedOnceWithin` | `IssuedOnceWithinTheCap` |
| | `MintsStaySound` | `BooksArePayable`, `VotesMatchLists`, `EmissionMatchesWalk`, `SlicedWalkAgrees` through the migration |
| | `YieldsRiseThroughout` | `YieldNeverFalls` through the migration |
| | `ClaimingCollects` | `ClaimingMerelyCollects` |
| (of `ClaimPage`) | `PanelKeepsWord` | `PanelKeepsItsWord` |
| | `MigrationBooks` | the inductive invariant |
| `TokenLedger_proofs` | `TokenTypeCorrect`, `BooksExact` | `TypeOK`, `BooksBalance` |
| | `FloatPays`, `StaysBacked` | `BackedFloatPays`, `BackedStaysBacked` |
| | `HoldersServed` | `HoldersAreServed` |
| | `Implements` | `TokenLedger` implements `Ledger` |
| | `InvAlways` | the inductive invariant |
| `LiquidityPool_proofs` | `RewardsStaySound` | `RewardsAreSound` |
| | `PoolConserves` | `NothingIsLostOrStuck` |
| | `OthersDoNoHarm` | `OthersCannotHarm` |
| | `PoolInvariant` | the inductive invariant |
| (of `PoolPage`) | `PageTells` | `PageTellsTheTruth` |
| (of `PoolHistory`) | `HistoryIsOfThePool` | its specification takes only the pool's steps |
| | `HistoriesFollow` | `HistoryFollowsPool` |
| | `PoolKeepsWord` | `PoolKeepsItsWord`, while the accumulator's reading stays an int64 |
| `ProofOfBrain_proofs` | `BooksStaySound` | `BooksAreSound` |
| | `CurationIsRemembered` | `NoCurationForgotten`: a vote that is due is queued |
| | `QueuesPayAll` | `QueuePaysAll`: and drains reach it |
| | `LateCuratorsAreSafe` | `LateCuratorsLoseNothing` |
| (of `Feed`) | `FeedTells` | `FeedTellsTheTruth` |
| | `CardsKeep` | `CardsKeepTheirWord` |
| | `PobInvariant` | the inductive invariant |
| `Governance_proofs` | `NobodyRules` | `NoOneRulesAlone` |
| | `PageIsTheChain` | `BoardPageTellsTheTruth` |
| | `BoardKeepsShape` | `TypeOK` of the board |
| `Client_proofs` | `IndexSound` | `IndexIsSound` |
| | `NodesTried` | `EveryNodeIsTried` |
| | `EachCallPayable` | `EachCallIsPayable` |
| | `VotesAreNeverBlocked` | `SettlementsNeverBlock` |
| | `WalletHolds` | the signer's inductive invariant |
| `Engine_proofs` | `IterateLoop`, `Total...` | loops and sums, on which the rest is built |
| | `SplitExact`, `SplitPoBExact`, `SettlementExact` | nothing is lost to rounding on any path |
| | `AccumulatorStepSound` | a step never falls and promises no more than it received |

**Mints, types and schedule.**  `TypeOK` is not inductive: the walk indexes lists and
checkpoints by maturity day, and a maturity day is a modelled day only if the mint was made at
the height of a call, for an allowed duration.  `SafetyInv` adds that (`Placed`), and `Settled`:
the walk is never ahead of the chain, and the supply counter is the schedule.  `IterateLoop`
says that a loop whose body keeps a set ends in it; `WalkDaysFrame` applies it to `LoopStates`,
the states a walk goes through, in which what has been found is the schedule's difference
between the first day and the day reached.  The bodies of the loop (`DrainFrame`,
`ExpireDayFrame`, `CloseDayFrame`) are lifted to operators, those to calls, one lemma per action,
and `NextSafety` collects them.

**Mints, books.**  That the L-Share pool covers every yield is not inductive either.  A yield is
floored, and two floors say nothing about the next one.  `BooksInv` (with `Sound`) therefore
speaks of what positions have earned in units of the accumulator, together with the remainder
that is held back: for every open position what it has earned up to the checkpoint of its day, or
to the accumulator while the day is open.  A step of the accumulator adds exactly what it is
given to the sum because the denominator it divides by is the open positions' shares
(`TotalScale`), and that holds because each day is scheduled to lose exactly what matures on it.
Inside a walk the inflow of a day is still to come, so the loop carries it along; that the days'
quarters add up to the quarter of the days is where the divisibility by eight is used
(`DayIsUniform`, `DayQuarters`).  Then the cap in `endMint` never bites (`RemoveSound`), what is
paid is the entitlement, and conservation follows call by call.  `YieldNeverFalls` is `Rises` (the
accumulator) and `Kept` (closed checkpoints) of the same frames.

**Mints, votes.**  `DenominatorLive` is the first third of `VotesMatchLists` and reads off
`BooksInv`.  The rest needs the cursor: between two calls a drain may stand in the middle of a day's
list, with the chunks before the cursor emptied and their votes gone.  `Taken` says which positions
that are, `VotesInv` that every vote is the shares of the positions not taken (`Voting`) and that
each chunk still to come lists exactly the positions that recorded it (`Lists`).  "Exactly" is a
bijection of entries and positions (`Holds`), because two positions of one owner with the same
shares have equal entries and `removeExpiryEntry` takes the first: `ChunkLess` repairs the
bijection whichever of them it took.  `RetireVotes` is one chunk of a drain, `DrainVotes` the drain
with both ways to leave it, `ListsMore` and `ListsLess` the two ways a list changes outside; that
`Monus` never cuts a vote off at zero is part of `VotesLess`.

**Mints, a walk in slices.**  `SlicedWalkAgrees` gives every walk a budget of as many retirements
as there are positions.  A day's list holds the positions of that day not yet taken, each once
(`VotesInv`), so such a budget is ample wherever the walk stands and every drain reaches the end of
its list, with the same votes left (`FullDrain`).  The two loops differ in when they credit: the
long one once, the slices every day.  A day's emission is a multiple of eight, so every pool's part
of it is exact and parts add up (`EightsSplit`, `CreditTwice`); a turn of the one loop is then a turn
of the other seen through `CreditWalk` (`SliceIsTurn`), and `IterateMaps` carries that over the
loops.

**Mints, what is shown.**  A card takes the end of a position's yield from the rows the contract
would take it from (`ViewEnd`); the walk of the call can only raise it, and not at all once its
day is closed (`Rises`), and no position is owed more than the pool holds (`OwedIsThere`), so the
cap of `endMint` cuts nothing off.  What the dashboard says of dates needs that the chain is past
genesis (`FromGenesis`) and the end of the day a height lies in (`DayEnds`); what it announces for
today is one more turn of the walk (`DayBrings`).

**Migration.**  The steps of `LasseMint` are taken over with their lemmas.  `MigrationInv` adds
what a record of an account may stand for (`Claimers`), the three sums, and `Reserved`: from the
commitment on, the cap has room for what is committed and not yet claimed or swept.  The last is
what makes the cap inductive although batches and claims check different figures.

`LasseMint` knows no batches and `Migration` no owners' calls.  `ContractSpec`, which
`MigrationSpec` implies, lets both happen: owners make, claim, sweep and arm mints while batches,
the commitment, claims and the sweep go on.  A batch is a loop over accounts; `BatchStands`
carries `VotesInv` through it for the accounts registered so far (`Stands`), so that
every invariant of the mints holds through the migration as well (`MintsStaySound`).  What an
account is `Worth` is a sum over its open mints; a claim adds the mint or the payout of one
that ran from genesis (`ClaimIsWorth`), and to anybody else nothing.  The panel's answers need
that whoever has a receipt of a claim was in the committed tree (`PanelInv`); that an
older page never showed less is that the bleed only grows with the height (`BleedFalls`).

**Token ledger.**  `BooksBalance` is inductive only together with what the float holds: a payment
in tokens may fail for want of float, and moving a row mints.  `Inv` therefore has two sums:
`Spread` is balances plus what is kept, less the books; `Gap` is the float, less what is kept,
less the tokens and rows in existence, plus the books.  Every step of a call is described by how
it moves the two (`Gives`, `Issues`, `Holds`), and a call is sound when the moves cancel
(`Closes`).  The lemmas hold for both places at once: none depends on when a row is moved.
`HoldersServed` is about the operator's order (rows are moved before the float is reconciled,
which `EarlyReconcile` names); its invariant `Sane` says that a row moves once and that the roll
lists it until then.

**Pool.**  `PoolInv` says of the open tranches what `BooksInv` says of the mints: totals, loyalty
weights that only grow, and rewards before flooring (`Sound`).  Custody is kept against the
reserve with the rounding of every conversion on the contract's side.  For `OthersCannotHarm` the
product of the reserves per share squared is compared across a deposit, a swap and a withdrawal.

**Pool, its page.**  `PageInv` is what the page relies on and no single call shows: shares are
gone exactly when the LASSECASH is, LASSECASH never stands without HBD beside it (a price leaves
something of the reserve it pays from), and accounts hold whole milli-HBD, so an HBD amount that
fits what is held is still payable when it is rounded up to a milli; and the reserve the page takes
off the meter is no less than what a call reserves, so what the page calls spendable fits every
meter that has not fallen (`SpendableIsCarried`, `PurchaseOffered`, `DepositTaken`).  The search of the form doubles
and then halves; by `IterateLoop` the bracket always holds an amount that fits and one that does
not, and is halved down to one (`HalvingKeeps`).  The quote rises with the amount (`HbdMono`), so
what the search ends with is the largest amount that fits (`SearchFinds`), as long as none beyond
its reach would.  That every form the page opens is taken, and every payable one opened, then
follows form by form.

**Pool, what it pays and what is told of it.**  A claim or withdrawal pays what the accumulator
reads after its own walk; that this is never less than the page showed needs that more inflow
never leaves a lower reading (`LaterReads`).  It does when the larger reading would not fit an
int64: the step is then held back where the smaller one was taken (`accumulator.go`).
`PoolKeepsWord` therefore assumes `RoomInAcc`, that no walk of the moment meets that limit; in the run
the accumulator stays below 23 and `MaxAmount` is 1000.  `HistoryInv` relates the replayed chart
to the tranches however far the two have drifted: as many entries, and a weight exactly while a
tranche is open.  One thing TLC found false while this was prepared, and `HistoryFollowsPool` does
not say: that reserves which agree show the chart to be back in step (after an eviction one
swap may round them together).

**Proof of Brain.**  A payment works on the books (`Books`), so a drain, whose length is bounded
by a parameter, is described by a set of books that no slot leaves.  `PobInv` relates posts to
their votes (`PostOK`), votes that are due to queues (`Queued`) and emission to pots, pools,
accounts and burns (`Worth`).  For `LateCuratorsLoseNothing` the invariant of a drain says more:
what a pot loses is at most the part of the votes it lost (`Moved`, `Fair`).  `QueuesPayAll` adds
that slots are those of registered posts (`Known`) and counts: one drain of a queue with no open
post empties as many slots as it may visit (`Turned`, `Emptied`), so after as many drains as there
are slots none is left (`Reached`), and a vote that had a slot and has none has been paid.
`FeedTells` adds `VotesFit` (the votes left on a post never exceed its rshares, also while its
curators are paid one by one), from which the shares of its voters fit (`SharesFit`).  `CardsKeep`
rests on what one call may do to a post (`SteadyPost`, `StepSteady`: only its payout marks it paid
and a paid post keeps its rshares), so a vote that is recognised afterwards was the vote itself and
the pending payout moves by what the slider announced (`VoteAdds`).

**Governance.**  `TypeOK` is inductive and enough: the other two speak of one more offer and of
one reading of the board.  An account led by fewer others than the group has seats is admitted
by one offer however many dead seats the board has (`OfferAdmits`); the lower median exists, is
unique and lies between the votes of others as soon as three vote.  The page ranks by itself; that
its ranking is the chain's is `PageIsTheChain`.

**Index.**  That an index which vouches for the whole history has no gap is not inductive: it
also rests on what a sync in flight is about to store.  The invariant says, for every request by
itself, that a page it carries is the log's at some earlier length and reaches down to a row that
is stored, and that a stored offset never passes what has been read; bursts no longer than a page
keep the newest stored row within sight of the first page.  `IndexSound` has two hypotheses: a
burst of arrivals fits a page, which `IndexIsSound` is about, and a first log is no shorter than a
page.  Without the second, two syncs of a log shorter than a page may store an out-of-date short
page last; TLC finds that with `History = 1` and a page of two.  It corrects itself with the next
head walk and the deployed log is far longer than its page of 100, so it stays a hypothesis.

**Nodes.**  A request asks the nodes from the preferred one on, as it was when the request began,
and others move that preference while it waits.  The invariant names, for each request, the nodes
it has behind it (a stretch of the list from where it began) and that those have failed in it.

**Signer.**  A press reads the meter, dry-runs, and is signed some time later; what was read must
still be there.  `WalletInv` says that a cached reading never exceeds what the account holds and
that a draw is gone for good (`MeterHolds`): credits only come back up to the capacity less what
was drawn.  `SizeIs` bounds what `sizeRc` grants in each of its five outcomes, `SubmitIs` lifts
that to every call of a bundle and shows that a vote goes first, and `ExecutedIs` follows the
calls of a bundle through the chain by an induction over its length.  `VotesAreNeverBlocked`
assumes that a vote costs no more than the floor `sizeRc` refuses below (`VoteIsCovered`: 1.3
times the dry run, or six tenths of the table): the measured 904 credits of an ordinary vote are
under the table's 4,200, the 4,818 of a first vote on an outside post under the dry run's
6,264 (`aioha-signer.ts:1143-1150`).

**Only model-checked.**  `FilesAgreeWithTheChain` (`ClaimPage`); `ListsKeepTheirOrder`
(`FeedScreen`).  Out of the provers' reach are the liveness properties (`NothingWaitsForEver`,
`OffersConverge`, `PressesLand`, `IndexSettles`, `PageRecovers`), and of these what needs an
induction over data: that a tree's root binds its leaves and that lists are read to the end
(`FilesAgreeWithTheChain`, `ListsKeepTheirOrder`), and the closed form of `Eras` for every era.

## 5. Plan

Every part of the protocol has its module.  What is left is proof, in this order:

1. `FilesAgreeWithTheChain` (`ClaimPage`): what a root proves of its leaves, by an induction over
   the levels of the tree.
2. `ListsKeepTheirOrder` (`FeedScreen`): what the folds of `Listing` over logs, cards and
   threads return, which needs an induction over sequences.

## 6. Not modelled

- The development chain (`node/sim`) and the WebAssembly bindings run the same Go code; of the
  tree builder the files' reading and writing; `contract/sdk` is the host's interface.
- Of the backends: the queries themselves, the account ledger, the profile and market queries,
  and the caches (tagged posts, the board, content), which hold an answer for a while.
- Of the pages: writing, wallet, profile and the statistics of single accounts; layout, wording,
  the formatting of amounts, charts beyond their figures.
- Of the signer: publishing posts together with their Hive operation, the bridge and the
  native-pool calls.
- Encodings of rows, argument parsing, messages and logging, everywhere; overflow of int64, which
  the supply cap excludes (the accumulator's own width check is modelled).
