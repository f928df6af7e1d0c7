-------------------------------- MODULE Feed --------------------------------
(***************************************************************************)
(* What the feed, a post, the vote slider, the list of voters, the form of *)
(* promotions and the rewards page show of ProofOfBrain, and what they let *)
(* a user press (routes/+page.svelte, the post page, VoteSlider.svelte,    *)
(* VoterList.svelte, PromoteForm.svelte, rewards/+page.svelte, over the    *)
(* views of magi-backend.ts).                                              *)
(*                                                                         *)
(* Everything is a function of the state of ProofOfBrain; the properties   *)
(* compare it with the calls taken from the same state.  Every post is on  *)
(* Hive with the site's tag since the first day.                           *)
(***************************************************************************)
EXTENDS Listing, ProofOfBrain
LOCAL INSTANCE SequencesExt

-----------------------------------------------------------------------------
(* The views.                                                              *)

\* engine.RewardShare: more than all shares is refused, not paid.
RewardShare(balance, mine, total) ==
  IF total <= 0 \/ mine <= 0 \/ balance <= 0 \/ mine > total THEN 0
  ELSE MulDiv(balance, mine, total)

\* A post as the feed has it: the record, or the tagged article without one.
CardOf(p) ==
  LET r == Target(p)
      payoutDay == r.created + PayoutDays[r.win]
  IN  [key |-> p, win |-> r.win, registered |-> Registered(p), paid |-> r.paid,
       payable |-> Registered(p) /\ ~ r.paid /\ day >= payoutDay,
       pending |-> IF r.paid THEN 0 ELSE RewardShare(pool[r.win], r.rshares, rshares[r.win]),
       promoted |-> r.promoted, closedFor |-> day - payoutDay,
       created |-> IF Registered(p) THEN r.created ELSE 0]

\* The article is no older than the window that a first vote would open.
Young(p) == 0 >= day - PayoutDays[Viral]

\* Tagged on Hive and no record: shown when the chain would register it.
Tagged(p) == ~ Registered(p) /\ Young(p) /\ CanPost(p)

\* The posts of the feed.
Listed == {p \in Posts : Registered(p) \/ Tagged(p)}

\* posts(): the registered ones first.
PostViews ==
  LET cards(S) == [i \in DOMAIN SetToSeq(S) |-> CardOf(SetToSeq(S)[i])]
  IN  cards({p \in Posts : Registered(p)}) \o cards({p \in Posts : Tagged(p)})

AllKeys(list) == {list[i].key : i \in DOMAIN list}

\* What the card of a post, and its page, let a user do.
Offered(c) ==
  IF ~ c.registered THEN "vote"
  ELSE IF c.paid THEN "nothing"
  ELSE IF c.payable THEN "settle"
  ELSE "vote"

-----------------------------------------------------------------------------
(* The vote slider.                                                        *)

\* To the nearest whole number.
Rounded(n, d) == (2 * n + d) \div (2 * d)

\* The weight of the own vote, read back out of its rshares and the shares of
\* today; 0 when that is no weight.
MyWeight(a, p) ==
  LET w == IF SharesOf(a) = 0 THEN 0
           ELSE Rounded(vote[p][a] * 100 * 100, SharesOf(a) * FullVoteCostPct)
  IN  IF Registered(p) /\ w \in 1 .. 100 THEN w ELSE 0

Existing(a, p) == IF MyWeight(a, p) # 0 THEN vote[p][a] ELSE 0

\* What a vote would change of the post's rshares: it replaces the own one.
Delta(a, p, weight) ==
  IF MyWeight(a, p) = weight THEN 0
  ELSE VoteWeight(SharesOf(a), VoteCost(weight)) - Existing(a, p)

\* Mutant: the own vote is counted twice.
AddedOnTop(a, p, weight) ==
  LET c == CardOf(p)
      delta == VoteWeight(SharesOf(a), VoteCost(weight))
  IN  MulDiv(pool[c.win], Target(p).rshares + delta, rshares[c.win] + delta) - c.pending

\* What it would add to the post: out of the pool of the window, not out of
\* the post's own payout.
Added(a, p, weight) ==
  LET c == CardOf(p)
      delta == Delta(a, p, weight)
      share == MulDiv(pool[c.win], Target(p).rshares + delta, rshares[c.win] + delta)
  IN  IF delta <= 0 \/ pool[c.win] <= 0 \/ rshares[c.win] + delta <= 0 THEN 0
      ELSE IF share > c.pending THEN share - c.pending ELSE 0

\* What the slider says the vote would do.
VoteHint(a, p, weight) ==
  IF Target(p).rshares + Delta(a, p, weight) <= 0 THEN "nothing"
  ELSE IF ~ Registered(p) THEN "opens"
  ELSE IF Delta(a, p, weight) = 0 THEN "unchanged"
  ELSE IF Delta(a, p, weight) < 0 THEN "lowers"
  ELSE "adds"

CanCast(a, p, weight) ==
  LET w == CardOf(p).win
  IN  SharesOf(a) > 0 /\ VoteCost(weight) <= Current(power[a][w], w)

-----------------------------------------------------------------------------
(* The list of voters, the form of promotions, the rewards page.           *)

\* Hundredths of the post's vote weight, by the engine's own division.
ShareOfPost(p, a) == RewardShare(100, vote[p][a], post[p].rshares)

CutoffDay(p) == Target(p).created + (PayoutDays[Target(p).win] * PromoteCutoffPct) \div 100

\* Mutant: the cutoff day itself still counts.
OpenThroughCutoff(p) == ~ Target(p).paid /\ day <= CutoffDay(p)

OpenForPromotion(p) == ~ Target(p).paid /\ day < CutoffDay(p)

\* What the open posts would take from the pool of a window right now.
Owed(w) ==
  Total([p \in Posts |-> IF Registered(p) /\ post[p].win = w THEN CardOf(p).pending ELSE 0], Posts)

\* Whether the site offers, or sends by itself, the settling of an account.
SettleIsDue(a) ==
  /\ pend[a].lastEpoch > 0
  /\ Epoch > pend[a].lastEpoch
  /\ pend[a].balance >= MinMintAmount

-----------------------------------------------------------------------------
(* What may be pressed is accepted, whoever presses: a vote that can be    *)
(* cast (unless it rounds to no weight at all), a settlement, the removal  *)
(* of the own vote, a promotion by who can pay for it.                     *)
ButtonsAreAccepted ==
  \A p \in Listed :
    LET c == CardOf(p)
    IN  /\ Offered(c) = "settle" <=> PayoutAccepted(p)
        /\ Offered(c) = "vote" => \A a \in Accounts :
             /\ \A weight \in Weights :
                  CanCast(a, p, weight) /\ VoteWeight(SharesOf(a), VoteCost(weight)) > 0
                    <=> VoteAccepted(a, p, weight)
             /\ MyWeight(a, p) # 0 => UnvoteAccepted(a, p)
        /\ c.registered /\ OpenForPromotion(p) => \A a \in Accounts :
             bal[a] >= PromoteMinBurn => PromoteAccepted(a, p)

(* What the pages show adds up.  The pending payouts of all open posts fit *)
(* in the pool they come from ("it is the formula, run against today's     *)
(* balance", rewards/+page.svelte:109), the shares of the voters of a post *)
(* fit in the post, before and after curators are paid one by one, and an  *)
(* account that is offered to settle gets its mint.                        *)
FiguresAddUp ==
  /\ \A w \in Windows : Owed(w) <= pool[w]
  /\ \A p \in Posts : Registered(p) =>
       /\ Total([a \in Accounts |-> ShareOfPost(p, a)], Accounts) <= 100
       /\ \A a \in Accounts : 100 * vote[p][a] >= post[p].rshares /\ vote[p][a] > 0
            => ShareOfPost(p, a) > 0
  /\ \A a \in Accounts : SettleIsDue(a) =>
       LET s == DrainCuration(Books, a, MaxCurationDrain)
       IN  s.pend[a].balance >= MinMintAmount /\ Epoch > s.pend[a].lastEpoch

(* What the pages offer is accepted, and what they show adds up, in every *)
(* state of the posts, the votes and the pools.                            *)
FeedTellsTheTruth == ButtonsAreAccepted /\ FiguresAddUp

\* A payout takes what was pending, more when its own walk adds to the pool.
PayoutPaysPending ==
  \A p \in Posts : (Registered(p) /\ ~ post[p].paid /\ post[p]'.paid) =>
    LET w == post[p].win
        taken == pool[w] + (acc_day' - acc_day) * DayEmission[w] - pool'[w]
    IN  taken >= CardOf(p).pending /\ (acc_day' = acc_day => taken = CardOf(p).pending)

\* The own vote is recognised when its weight can be read back.
VotesAs(a, p, weight) ==
  LET w == Target(p).win
  IN  /\ vote'[p][a] \notin {0, vote[p][a]}
      /\ VoteCost(weight) = Current(power[a][w], w) - power'[a][w].power

\* A vote adds what the slider said, and one said to lower the post does.
VoteAddsWhatWasSaid ==
  \A p \in Posts, a \in Accounts, weight \in Weights :
    (VotesAs(a, p, weight) /\ (vote[p][a] # 0 => MyWeight(a, p) \notin {0, weight})) =>
      LET pending == CardOf(p)'.pending
          said == VoteHint(a, p, weight)
      IN  /\ said \in {"opens", "adds"} => pending = CardOf(p).pending + Added(a, p, weight)
          /\ said \in {"lowers", "nothing"} => pending <= CardOf(p).pending

(* A card keeps its word: the payout is at least the figure that was       *)
(* pending, exactly it when no day is walked, and a vote adds what the     *)
(* slider said it would.                                                   *)
CardsKeepTheirWord == [][PayoutPaysPending /\ VoteAddsWhatWasSaid]_vars

\* Complete and in order whatever was read, every post of the feed once.
ListsAreInOrder ==
  /\ DiscoveryIsComplete /\ FeedIsFair /\ ThreadIsReadable
  /\ AllKeys(PostViews) = Listed /\ Len(PostViews) = Cardinality(Listed)
=============================================================================
