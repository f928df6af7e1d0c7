------------------------------ MODULE ClaimPage ------------------------------
(***************************************************************************)
(* The pages most holders meet the migration on: the claim panel           *)
(* (ClaimMigration.svelte), the tables and figures of the snapshot         *)
(* (MigrationTables.svelte, burned/+page.svelte, stats/migration/+page.    *)
(* svelte) and the checker "Am I in the snapshot?" (check/+page.svelte).   *)
(*                                                                         *)
(* The files are what the tool wrote for some tree; `served' is that tree, *)
(* and {} a file that cannot be fetched.  What a page shows is a function  *)
(* of the files and the state it read, so no variable is added.            *)
(***************************************************************************)
EXTENDS Migration, Merkle

-----------------------------------------------------------------------------
(* The claim panel.                                                        *)

\* The mint the leaf already is, on the clock that started at genesis.
LeafMint(a) ==
  [principal |-> Snapshot[a].staked, shares |-> Snapshot[a].staked, start |-> GenesisHeight,
   days |-> MigrationMintDays, goodAccounting |-> FALSE]

\* When the mint reaches zero, which is when claiming closes.
LiquidationHeight(m) ==
  MaturityHeight(m) + (GraceDaysFor(m) + BleedDays) * HeightsPerDay

\* The panel is drawn at the height the page last read.
Closed(a, seen) == seen >= LiquidationHeight(LeafMint(a))

HasStake(a) == Snapshot[a].staked > 0

Matured(a, seen) == seen >= MaturityHeight(LeafMint(a))

Panel(a, served, seen) ==
  CASE ~ Committed \/ a \in migDone \/ served = {} -> "hidden"
    [] Committed /\ a \notin migDone /\ served \notin {{}, mig.tree} -> "mismatch"
    [] Committed /\ a \notin migDone /\ served = mig.tree ->
         IF a \notin served THEN "hidden"
         ELSE IF a \in Burned THEN "burned"
         ELSE IF Closed(a, seen) THEN "closed" ELSE "claim"

\* What "claiming now yields": at once, as a mint, and bled away.
Yields(a, seen) ==
  LET close == SettleMint(LeafMint(a), seen, 0)
  IN  IF Matured(a, seen) /\ HasStake(a)
      THEN [liquid |-> Snapshot[a].liquid + close.toOwner, mint |-> 0, bled |-> close.toRewardPool]
      ELSE [liquid |-> Snapshot[a].liquid, mint |-> Snapshot[a].staked, bled |-> 0]

\* Mutant: every claim of a stake asks for the full allowance, matured or not,
\* and every claim without one for the small.
CheapByStake(a, seen) == ~ HasStake(a)

\* A claim that makes no mint asks the wallet for the small allowance.
Cheap(a, seen) == ~ HasStake(a) \/ Matured(a, seen)

\* Signing in leads an account without a receipt to the panel's page.
LandsOnMint(a) == a \notin migDone

(* The panel offers a claim exactly when the chain would take it, ahead of  *)
(* the walk, whatever was pushed or claimed before ("one timeline, not     *)
(* two"), never for another snapshot's proofs; the claim then pays what    *)
(* was shown, and asked for the small allowance only and always when it    *)
(* made no mint, also when the page was drawn a while before               *)
(* (ClaimMigration.svelte, load, preview, claim).                          *)
PanelKeepsItsWord ==
  [][\A a \in Qualified :
       LET claimed == a \in migDone' \ migDone /\ mig'.claimed # mig.claimed
           shown   == Yields(a, height)
       IN  /\ \A served \in Trees \cup {{}} :
                /\ Panel(a, served, height) = "claim" => ClaimAccepted(a) /\ LandsOnMint(a)
                /\ served = mig.tree => (ClaimAccepted(a) => Panel(a, served, height) = "claim")
           /\ claimed =>
                /\ bal'[a] - bal[a] = shown.liquid
                /\ (mint' # mint) <=> shown.mint > 0
                /\ Cheap(a, height) <=> mint' = mint
                /\ \A seen \in {h \in Heights : h <= height} :
                     /\ Cheap(a, seen) => mint' = mint /\ bal'[a] - bal[a] <= Yields(a, seen).liquid
                     /\ Panel(a, mig.tree, seen) = "claim"]_mvars

-----------------------------------------------------------------------------
(* The figures of the snapshot, from the published files and the chain.    *)

\* The facts above the tables; the files hold every account with a holding.
Facts ==
  [leaves |-> Cardinality({a \in Accounts : Holding(a) > 0}),
   qualified |-> Holdings(Qualified), burned |-> Holdings(Burned)]

\* The chain's own two figures.
SnapshotBurned == Holdings(mig.tree \cap Burned)
SnapshotTotal  == mig.total + SnapshotBurned

MatchesChainBurn(leaves)  == Holdings(leaves \cap Burned) = SnapshotBurned
MatchesChainClaim(leaves) == Holdings(leaves \cap Qualified) = SnapshotTotal - SnapshotBurned

\* What null holds beyond the burn of the snapshot.
BurnedSince == bal[Null] - SnapshotBurned

\* The development chain's dump: live shares, and the principals of open mints.
DumpRow(a) ==
  LET open == {id \in DOMAIN mint[a] : ~ mint[a][id].ended}
  IN  [lshares |-> store.shr[a], principal |-> Total([id \in open |-> mint[a][id].principal], open)]

\* A row of the migrated table; without a dump it is what the snapshot promised.
MigratedRow(a, dump) ==
  IF dump THEN DumpRow(a) ELSE [lshares |-> Snapshot[a].staked, principal |-> Snapshot[a].staked]

\* "Who showed up": an account with a receipt has claimed.
ClaimedRows   == {a \in Qualified : a \in migDone}
UnclaimedRows == Qualified \ ClaimedRows

-----------------------------------------------------------------------------
(* "Am I in the snapshot?"  The history of an account has one row a moment, *)
(* or none.  Each of its files the tool writes after a scan of that moment, *)
(* which walks back from the newest row it asks for, one row a page here,  *)
(* and counts what was signed in the window before it.  The announced      *)
(* moment is SnapshotTs; the block came up to Drift later, and the page    *)
(* allows for Drift.                                                       *)

Window == 3   SnapshotTs == 3   Drift == 1   RecentRows == 2   HistoryPages == 2
Moments  == 1 .. 5

NoRow == [op |-> "none", from |-> "nobody"]

HistoryRows ==
  {NoRow, [op |-> "automatic", from |-> "own"], [op |-> "self", from |-> "theirs"],
   [op |-> "other", from |-> "own"], [op |-> "other", from |-> "theirs"]}

\* Signed by the account: never the automatic end of an unstake, always what
\* only the owner can start, else by the sender of the row.
SelfSigned(row) ==
  row.op # "automatic" /\ (row.op = "self" \/ row.from = "own")

Cutoff(built) == built - Window

Latest(S, n) == {t \in S : Cardinality({u \in S : u > t}) < n}

\* What a scan learns when so many pages came back.  Out of pages, or without
\* an answer, it has proved nothing: "not found in the pages we read".
Walk(history, built, answered) ==
  LET asked  == {t \in Moments : t < built /\ history[t].op \notin {"none", "automatic"}}
      signed == {t \in Latest(asked, answered) : SelfSigned(history[t])}
  IN  [active    |-> \E t \in signed : t >= Cutoff(built),
       truncated |-> signed = {} /\ Cardinality(asked) >= answered]

Kinds == {"holder", "protocol", "none"}

\* Mutant: who was not seen to sign has not signed.
DeadUnlessSeen(walk) ==
  IF walk.active THEN "lassecash_activity" ELSE "dead"

\* Who was seen to sign is in, and so is who could not be searched.
Reason(walk) ==
  IF walk.active THEN "lassecash_activity"
  ELSE IF walk.truncated THEN "truncated_unresolved" ELSE "dead"

\* The row of an account in the file: none for who holds nothing, and the
\* accounts of the protocol are burned by name, whatever they signed.
StatusRow(kind, walk) ==
  [missing  |-> kind = "none",
   protocol |-> kind = "protocol",
   in       |-> kind = "holder" /\ Reason(walk) # "dead",
   reason   |-> IF kind = "protocol" THEN "protocol" ELSE Reason(walk)]

\* The badge of the tables, and the note under the verdict.
Badge(row) == IF row.reason = "truncated_unresolved" THEN "unresolved" ELSE "signed"

\* The rows of the live read, newest first, that are still on its page.
Recent(history, now) == Latest({t \in Moments : t <= now /\ history[t] # NoRow}, RecentRows)

LiveOp(history, now, cutoff, final) ==
  \E t \in Recent(history, now) :
     SelfSigned(history[t]) /\ t >= cutoff /\ (final => t < SnapshotTs + Drift)

\* `exists' is Hive's answer, `override' a signed row the live read came back with.
Verdict(row, exists, override) ==
  CASE row.protocol -> "protocol"
    [] row.in -> "in"
    [] ~ row.protocol /\ ~ row.in /\ row.missing /\ ~ exists -> "no such account"
    [] OTHER -> IF override THEN "in" ELSE IF row.missing THEN "never held" ELSE "not in"

(* The checker says "in" of who signed in the window of its file (after    *)
(* the block: before it, the drift aside), or of a row marked unresolved,  *)
(* and of nobody else; a holder is out only by a scan that reached the end *)
(* and found nothing ("this snapshot never burns an account on missing     *)
(* data", check/+page.svelte:281), and not even then when the live read    *)
(* shows what was signed since; an account of the protocol is told so,     *)
(* whatever it signed.                                                     *)
VerdictIsHonest ==
  \A history \in [Moments -> HistoryRows], now, built \in Moments,
     answered \in 0 .. HistoryPages, final, live \in BOOLEAN :
    built <= now + 1 /\ (final => now >= SnapshotTs) =>
      LET walk     == Walk(history, built, answered)
          cutoff   == Cutoff(built)
          override == live /\ LiveOp(history, now, cutoff, final)
          signed   == {t \in Moments : t \in cutoff .. now /\ SelfSigned(history[t])}
      IN  \A kind \in Kinds :
            LET row     == StatusRow(kind, walk)
                verdict == Verdict(row, TRUE, override)
            IN  /\ kind = "protocol" <=> verdict = "protocol"
                /\ row.in /\ Badge(row) = "signed" => \E t \in signed : t < built
                /\ ~ row.in /\ verdict = "in" => \E t \in signed : final => t < SnapshotTs + Drift
                /\ verdict = "not in" =>
                     /\ \A t \in signed : t >= built
                     /\ live => \A t \in signed : t < SnapshotTs => t \notin Recent(history, now)

(* Files and chain agree once a tree is committed: the files of the         *)
(* committed tree match both of its figures, and the root recomputed from   *)
(* any others differs; for the whole snapshot the facts above the tables    *)
(* are those figures, and what has been issued is the burn and what the     *)
(* progress page counts as claimed, until the sweep; nothing else reaches   *)
(* null.  A root binds exactly its leaves, and the checker is honest.       *)
FilesAgreeWithTheChain ==
  /\ \A T \in Trees : BindsExactly(SetToSeq(T), Accounts)
  /\ VerdictIsHonest
  /\ Committed =>
       /\ \A leaves \in Trees :
            Root(SetToSeq(leaves)) = Root(SetToSeq(mig.tree)) =>
              MatchesChainBurn(leaves) /\ MatchesChainClaim(leaves)
       /\ BurnedSince = Holdings((early \cup late) \cap Burned)
       /\ early \cup late = {} /\ mig.tree = Qualified \cup Burned =>
            /\ Facts = [leaves |-> Cardinality(mig.tree), qualified |-> mig.total, burned |-> SnapshotBurned]
            /\ ~ mig.swept => supMigrated = SnapshotBurned + Holdings(ClaimedRows)
            /\ Holdings(UnclaimedRows) = Remainder
  /\ \A a \in Qualified : LET row == MigratedRow(a, TRUE) IN
       /\ row.lshares <= row.principal
       /\ a \notin migDone => row.principal = 0
       /\ a \in migDone /\ height < ClaimDeadlineHeight - BleedDays * HeightsPerDay =>
            row.principal \in {0, MigratedRow(a, FALSE).principal}
=============================================================================
