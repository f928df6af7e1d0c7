---------------------------- MODULE ProofOfBrain ----------------------------
(***************************************************************************)
(* Proof of Brain: posts and votes in the two windows, the payout of a     *)
(* closed post out of its window's pool, the curator pot that is claimed   *)
(* vote by vote, each account's queue of claims, and the monthly mint of   *)
(* what has accrued.                                                       *)
(*                                                                         *)
(* Heights are whole days.  Every action is one successful call; a call    *)
(* that fails is reverted and is an action that is not enabled.  A comment *)
(* is a viral post with a parent and its own threshold.                    *)
(***************************************************************************)
EXTENDS Engine, Sequences

CONSTANTS
  Accounts, Posts, Windows, Viral, None,
  AuthorOf, WindowOf, ModeOf,  \* what the author of each post publishes it with
  PayoutDays,                  \* of each window
  DayEmission,                 \* what a day adds to the pool of each window
  Stake, StakeEnds,            \* shares from capital, and the day they retire
  Threshold,                   \* shares an author needs
  FullVoteCostPct, CuratorPct, PoBLiquidPct, PromoteCutoffPct,
  PromoteMinBurn, MinMintAmount,
  CurationExpiryDays, MaxCurationDrain, PiggybackDrain,
  MaxAccrualDays,
  WalkMayStall,                \* whether matured mints can exhaust a walk's budget
  EpochDays,                   \* the days of a month
  Weights,                     \* BOUND: weights of votes, in percent
  Casts,                       \* BOUND: [Accounts -> SUBSET Weights], those it votes with
  Funds,                       \* BOUND: LASSECASH an author starts with
  MaxActs,                     \* BOUND: votes, withdrawals and promotions
  LastDay                      \* BOUND: the last day; posts close by then

ASSUME ProofOfBrainAssumption ==
  /\ IsFiniteSet(Accounts) /\ IsFiniteSet(Posts) /\ IsFiniteSet(Windows)
  /\ Viral \in Windows /\ None \notin Posts
  /\ AuthorOf \in [Posts -> Accounts] /\ WindowOf \in [Posts -> Windows]
  /\ ModeOf \in [Posts -> {"default", "powerup", "burn"}]
  /\ PayoutDays \in [Windows -> Nat \ {0}] /\ DayEmission \in [Windows -> Nat]
  /\ Stake \in [Accounts -> Nat] /\ StakeEnds \in [Accounts -> Nat]
  /\ Threshold \in Nat /\ Funds \in Nat
  /\ Weights \subseteq 1 .. 100 /\ Casts \in [Accounts -> SUBSET Weights]
  /\ FullVoteCostPct \in 1 .. 100 /\ CuratorPct \in 0 .. 100
  /\ PoBLiquidPct \in 0 .. 100 /\ PromoteCutoffPct \in 0 .. 100
  /\ PromoteMinBurn \in Nat /\ MinMintAmount \in Nat \ {0}
  /\ CurationExpiryDays \in Nat /\ MaxCurationDrain \in Nat \ {0}
  /\ PiggybackDrain \in 1 .. MaxCurationDrain
  /\ WalkMayStall \in BOOLEAN /\ MaxAccrualDays \in Nat \ {0} /\ EpochDays \in Nat \ {0}
  /\ MaxActs \in Nat /\ LastDay \in Nat

VARIABLES
  day,        \* the day of the next call
  acc_day,    \* the day the accrual walk has reached
  pool,       \* pool_viral, pool_deep
  rshares,    \* rshares_viral, rshares_deep
  post,       \* post_<author>_<permlink>
  vote,       \* vote_<post>_<voter>: its rshares, 0 when there is no record
  power,      \* vp_<account>_<window>
  cq,         \* the queue of claims: the slots from its head to its tail
  pend,       \* pend_<account>
  bal, minted, burned, recycled,
  stale,      \* HISTORY: rshares of posts that closed on an empty pool
  acts        \* BOUND: votes, withdrawals and promotions so far

vars == <<day, acc_day, pool, rshares, post, vote, power, cq, pend, bal, minted,
          burned, recycled, stale, acts>>

NoPost == [win |-> None]

PostRec == [win : Windows, mode : {"default", "powerup", "burn"}, created : Nat,
            rshares : Nat, paid : BOOLEAN, pot : Nat, potRshares : Nat,
            paidDay : Nat, promoted : Nat]

Registered(p) == post[p] # NoPost

Closes(p) == post[p].created + PayoutDays[post[p].win]

Epoch == 1 + day \div EpochDays

\* Shares as the contract has them: those of capital until the walk has
\* passed their day, and those of the monthly mints, one for each unit.
SharesOf(a) == (IF acc_day < StakeEnds[a] THEN Stake[a] ELSE 0) + minted[a]

-----------------------------------------------------------------------------
(* Vote power.                                                             *)

Current(vp, w) ==
  AtMost(vp.power + MulDiv(day - vp.last, MultScale, PayoutDays[w]), MultScale)

VoteCost(weight) == (MultScale * FullVoteCostPct * weight) \div (100 * 100)

VoteWeight(shares, spent) == MulDiv(shares, spent, MultScale)

-----------------------------------------------------------------------------
(* Rewards: operators on a record of the state a payment touches.          *)

Books == [post |-> post, vote |-> vote, cq |-> cq, pend |-> pend, bal |-> bal, burned |-> burned]

SetBooks(s) ==
  /\ post' = s.post /\ vote' = s.vote /\ cq' = s.cq
  /\ pend' = s.pend /\ bal' = s.bal /\ burned' = s.burned

\* The epoch is anchored at the first sight of an account.
AccruePending(s, a, amount) ==
  [s EXCEPT !.pend[a] = [balance   |-> @.balance + amount,
                         lastEpoch |-> IF @.lastEpoch = 0 THEN Epoch ELSE @.lastEpoch]]

PayReward(s, a, amount, mode) ==
  LET liquid == MulDiv(amount, PoBLiquidPct, 100)
  IN  IF amount = 0 THEN s
      ELSE CASE mode = "burn"    -> [s EXCEPT !.burned = @ + amount]
             [] mode = "powerup" -> AccruePending(s, a, amount)
             [] OTHER -> AccruePending([s EXCEPT !.bal[a] = @ + liquid], a, amount - liquid)

\* Mutant: a share is rounded up.
ShareRoundedUp(r, mine) == AtMost((r.pot * mine + r.potRshares - 1) \div r.potRshares, r.pot)

CurationShare(r, mine) == MulDiv(r.pot, mine, r.potRshares)

Claimable(r, mine) == r.paid /\ r.pot > 0 /\ r.potRshares > 0 /\ mine > 0

\* Mutant: what is paid stays in the pot.
ClaimUnburned(s, p, a) ==
  LET mine == s.vote[p][a]
  IN  PayReward([s EXCEPT !.post[p].potRshares = @ - mine, !.vote[p][a] = 0],
                a, CurationShare(s.post[p], mine), "default")

\* A claim that is due: the pot shrinks by the share and by its rshares.
Claimed(s, p, a) ==
  LET mine  == s.vote[p][a]
      share == CurationShare(s.post[p], mine)
  IN  PayReward([s EXCEPT !.post[p].pot = @ - share, !.post[p].potRshares = @ - mine,
                          !.vote[p][a] = 0],
                a, share, "default")

\* Mutant: the slot of an open post is given up.
SlotSkipped(s, a, n) ==
  LET p == s.cq[a][n]
  IN  IF p = None THEN s
      ELSE LET t == IF ~ Claimable(s.post[p], s.vote[p][a]) THEN s
                    ELSE Claimed(s, p, a)
           IN  [t EXCEPT !.cq[a][n] = None]

\* One slot: an open post is left in place; the vote on a paid one is
\* settled, and deleted unpaid when its share rounds to zero.
SettleSlot(s, a, n) ==
  LET p == s.cq[a][n]
      t == IF ~ Claimable(s.post[p], s.vote[p][a]) THEN s
           ELSE IF CurationShare(s.post[p], s.vote[p][a]) = 0 THEN [s EXCEPT !.vote[p][a] = 0]
           ELSE Claimed(s, p, a)
  IN  IF p = None THEN s
      ELSE IF ~ s.post[p].paid THEN s
      ELSE [t EXCEPT !.cq[a][n] = None]

\* The head moves past the settled slots.
AdvanceHead(q) ==
  LET open == {n \in DOMAIN q : q[n] # None}
  IN  IF open = {} THEN <<>>
      ELSE SubSeq(q, CHOOSE n \in open : \A i \in open : n <= i, Len(q))

DrainCuration(s, a, max) ==
  LET n == AtMost(max, Len(s.cq[a]))
      after[i \in 0 .. n] == IF i = 0 THEN s ELSE SettleSlot(after[i - 1], a, i)
  IN  [after[n] EXCEPT !.cq[a] = AdvanceHead(@)]

-----------------------------------------------------------------------------
Init ==
  /\ day = 0 /\ acc_day = 0
  /\ pool = [w \in Windows |-> 0] /\ rshares = [w \in Windows |-> 0]
  /\ post = [p \in Posts |-> NoPost]
  /\ vote = [p \in Posts |-> [a \in Accounts |-> 0]]
  /\ power = [a \in Accounts |-> [w \in Windows |-> [power |-> MultScale, last |-> 0]]]
  /\ cq = [a \in Accounts |-> <<>>]
  /\ pend = [a \in Accounts |-> [balance |-> 0, lastEpoch |-> 0]]
  /\ bal = [a \in Accounts |-> Funds]
  /\ minted = [a \in Accounts |-> 0]
  /\ burned = 0 /\ recycled = 0
  /\ stale = [w \in Windows |-> 0] /\ acts = 0

Tick ==
  /\ day < LastDay
  /\ day' = day + 1
  /\ UNCHANGED <<acc_day, pool, rshares, post, vote, power, cq, pend, bal, minted, burned,
                 recycled, stale, acts>>

(***************************************************************************)
(* A walk crosses so many days at most, and none when it runs out of its   *)
(* retire budget, which LasseMint models.                                  *)
(***************************************************************************)
Walks ==
  LET far == AtMost(day, acc_day + MaxAccrualDays)
  IN  IF WalkMayStall THEN {acc_day, far} ELSE {far}

Accrued(to) == [w \in Windows |-> pool[w] + (to - acc_day) * DayEmission[w]]

Settle(to) ==
  /\ to \in Walks /\ to > acc_day
  /\ acc_day' = to /\ pool' = Accrued(to)
  /\ UNCHANGED <<day, rshares, post, vote, power, cq, pend, bal, minted, burned, recycled, stale, acts>>

NewPost(w, mode) ==
  [win |-> w, mode |-> mode, created |-> day, rshares |-> 0, paid |-> FALSE, pot |-> 0,
   potRshares |-> 0, paidDay |-> 0, promoted |-> 0]

CanPost(p) == SharesOf(AuthorOf[p]) >= Threshold

CreatePost(p) ==
  /\ ~ Registered(p) /\ CanPost(p)
  /\ day + PayoutDays[WindowOf[p]] <= LastDay
  /\ post' = [post EXCEPT ![p] = NewPost(WindowOf[p], ModeOf[p])]
  /\ UNCHANGED <<day, acc_day, pool, rshares, vote, power, cq, pend, bal, minted, burned,
                 recycled, stale, acts>>

Act == acts < MaxActs /\ acts' = acts + 1

VotingOpen(r) == ~ r.paid /\ day < r.created + PayoutDays[r.win]

Replaced(total, prev, new) == total - prev + new

\* The window a vote finds: the first vote on a post that nobody registered
\* opens a viral one.
Target(p) == IF Registered(p) THEN post[p] ELSE NewPost(Viral, "default")

\* The shares that count are those of the last walk: no walk is made.
VoteAccepted(a, p, weight) ==
  LET r == Target(p)
  IN  /\ Registered(p) \/ CanPost(p)
      /\ VotingOpen(r)
      /\ VoteCost(weight) \in 1 .. Current(power[a][r.win], r.win)
      /\ VoteWeight(SharesOf(a), VoteCost(weight)) > 0

\* A re-vote replaces the previous one, and is not queued again.
Vote(a, p, weight) ==
  LET r     == Target(p)
      w     == r.win
      left  == Current(power[a][w], w)
      cost  == VoteCost(weight)
      prev  == vote[p][a]
      new   == VoteWeight(SharesOf(a), cost)
      cast  == [Books EXCEPT
                  !.post[p] = [r EXCEPT !.rshares = @ - prev + new],
                  !.vote[p][a] = new,
                  !.cq[a] = IF prev = 0 THEN Append(@, p) ELSE @]
  IN  /\ Act
      /\ VoteAccepted(a, p, weight)
      /\ Registered(p) \/ day + PayoutDays[Viral] <= LastDay
      /\ power' = [power EXCEPT ![a][w] = [power |-> left - cost, last |-> day]]
      /\ rshares' = [rshares EXCEPT ![w] = Replaced(@, prev, new)]
      /\ SetBooks(DrainCuration(cast, a, PiggybackDrain))
      /\ UNCHANGED <<day, acc_day, pool, minted, recycled, stale>>

\* A vote of weight zero.  The slot stays in the queue.
UnvoteAccepted(a, p) == Registered(p) /\ VotingOpen(post[p]) /\ vote[p][a] > 0

Unvote(a, p) ==
  /\ Act /\ UnvoteAccepted(a, p)
  /\ post' = [post EXCEPT ![p].rshares = @ - vote[p][a]]
  /\ vote' = [vote EXCEPT ![p][a] = 0]
  /\ rshares' = [rshares EXCEPT ![post[p].win] = @ - vote[p][a]]
  /\ UNCHANGED <<day, acc_day, pool, power, cq, pend, bal, minted, burned, recycled, stale>>

PromoteAccepted(a, p) ==
  /\ Registered(p) /\ ~ post[p].paid
  /\ day < post[p].created + MulDiv(PayoutDays[post[p].win], PromoteCutoffPct, 100)
  /\ bal[a] >= PromoteMinBurn

PromotePost(a, p) ==
  /\ Act /\ PromoteAccepted(a, p)
  /\ bal' = [bal EXCEPT ![a] = @ - PromoteMinBurn]
  /\ burned' = burned + PromoteMinBurn
  /\ post' = [post EXCEPT ![p].promoted = @ + PromoteMinBurn]
  /\ UNCHANGED <<day, acc_day, pool, rshares, vote, power, cq, pend, minted, recycled, stale>>

\* What a closed post takes out of a pool, by its part of all rshares.
PoolClaim(balance, total, mine) ==
  IF mine = 0 \/ total = 0 \/ balance = 0 THEN 0
  ELSE MulDiv(balance, AtMost(mine, total), total)

PayoutAccepted(p) == Registered(p) /\ ~ post[p].paid /\ day >= Closes(p)

\* An empty pool leaves the rshares of the post behind in the window.
Payout(p, to) ==
  LET r     == post[p]
      full  == Accrued(to)
      total == PoolClaim(full[r.win], rshares[r.win], r.rshares)
      pot   == MulDiv(total, CuratorPct, 100)
      left  == IF full[r.win] = 0 THEN r.rshares ELSE 0
      done  == [Books EXCEPT
                  !.post[p] = IF total = 0 THEN [r EXCEPT !.paid = TRUE, !.paidDay = day]
                              ELSE [r EXCEPT !.paid = TRUE, !.paidDay = day, !.pot = pot,
                                             !.potRshares = r.rshares]]
  IN  /\ PayoutAccepted(p) /\ to \in Walks
      /\ acc_day' = to
      /\ pool' = [full EXCEPT ![r.win] = @ - total]
      /\ rshares' = [rshares EXCEPT ![r.win] = @ - (r.rshares - left)]
      /\ stale' = [stale EXCEPT ![r.win] = @ + left]
      /\ SetBooks(PayReward(done, AuthorOf[p], total - pot, r.mode))
      /\ UNCHANGED <<day, power, minted, recycled, acts>>

\* Anyone settles one claim; a share of nothing is refused.
ClaimCuration(p, a) ==
  /\ Registered(p) /\ Claimable(post[p], vote[p][a])
  /\ CurationShare(post[p], vote[p][a]) > 0
  /\ SetBooks(Claimed(Books, p, a))
  /\ UNCHANGED <<day, acc_day, pool, rshares, power, minted, recycled, stale, acts>>

SweepCuration(p) ==
  /\ Registered(p) /\ post[p].paid /\ post[p].pot > 0
  /\ day >= (IF post[p].paidDay = 0 THEN Closes(p) ELSE post[p].paidDay) + CurationExpiryDays
  /\ recycled' = recycled + post[p].pot
  /\ post' = [post EXCEPT ![p].pot = 0, ![p].potRshares = 0]
  /\ UNCHANGED <<day, acc_day, pool, rshares, vote, power, cq, pend, bal, minted, burned, stale, acts>>

\* The queue is drained in every case; a mint that is due needs a walk that
\* reaches today, or the whole call is refused.
SettlePending(a) ==
  LET s   == DrainCuration(Books, a, MaxCurationDrain)
      p   == s.pend[a]
      due == p.lastEpoch # 0 /\ Epoch > p.lastEpoch /\ p.balance >= MinMintAmount
  IN  \/ /\ ~ due
         /\ SetBooks([s EXCEPT !.pend[a].lastEpoch = IF @ = 0 THEN Epoch ELSE @])
         /\ UNCHANGED <<day, acc_day, pool, rshares, power, minted, recycled, stale, acts>>
      \/ /\ due /\ day \in Walks
         /\ SetBooks([s EXCEPT !.pend[a] = [balance |-> 0, lastEpoch |-> Epoch]])
         /\ minted' = [minted EXCEPT ![a] = @ + p.balance]
         /\ acc_day' = day /\ pool' = Accrued(day)
         /\ UNCHANGED <<day, rshares, power, recycled, stale, acts>>

Next ==
  \/ Tick
  \/ \E to \in Walks : Settle(to)
  \/ \E p \in Posts :
       \/ CreatePost(p)
       \/ \E to \in Walks : Payout(p, to)
       \/ SweepCuration(p)
       \/ \E a \in Accounts :
            \/ \E weight \in Casts[a] : Vote(a, p, weight)
            \/ Unvote(a, p)
            \/ PromotePost(a, p)
            \/ ClaimCuration(p, a)
  \/ \E a \in Accounts : SettlePending(a)

Spec == Init /\ [][Next]_vars

-----------------------------------------------------------------------------
Pot(p) == IF Registered(p) THEN post[p].pot ELSE 0

\* Votes that can still be paid: a pot is there only once a post has paid.
Due(p, a) == Pot(p) > 0 /\ vote[p][a] > 0

OpenPosts == {p \in Posts : Registered(p) /\ ~ post[p].paid}

TypeOK ==
  /\ day \in 0 .. LastDay /\ acc_day \in 0 .. day
  /\ pool \in [Windows -> Nat] /\ rshares \in [Windows -> Nat] /\ stale \in [Windows -> Nat]
  /\ post \in [Posts -> PostRec \cup {NoPost}]
  /\ vote \in [Posts -> [Accounts -> Nat]]
  /\ power \in [Accounts -> [Windows -> [power : 0 .. MultScale, last : 0 .. LastDay]]]
  /\ cq \in [Accounts -> Seq(Posts \cup {None})]
  /\ pend \in [Accounts -> [balance : Nat, lastEpoch : Nat]]
  /\ bal \in [Accounts -> Nat] /\ minted \in [Accounts -> Nat]
  /\ burned \in Nat /\ recycled \in Nat /\ acts \in 0 .. MaxActs

(* "The window pool's rshares total must move with the post's, or later    *)
(* claims would be mis-proportioned" (Vote): a window's total is that of   *)
(* its open posts, whose own are those of their votes, through re-votes,   *)
(* withdrawn votes and payouts.  Only a post closed on an empty pool       *)
(* leaves its rshares behind.                                              *)
RsharesTrackVotes ==
  /\ \A w \in Windows :
       rshares[w] = stale[w] + Total([p \in Posts |-> IF Registered(p) THEN post[p].rshares ELSE 0],
                                     {p \in OpenPosts : post[p].win = w})
  /\ \A p \in OpenPosts : post[p].rshares = Total(vote[p], Accounts)

(* "The sum of all claims can never exceed what was set aside"             *)
(* (ClaimCuration): the votes still to be claimed on a paid post are no    *)
(* more than the rshares its pot is divided by.                            *)
PotCoversClaims ==
  \A p \in Posts : Pot(p) > 0 =>
    Total(vote[p], Accounts) <= post[p].potRshares

(* Nothing that was emitted for content is lost or paid twice: it is in a  *)
(* pool, in a curator pot, liquid, pending, minted, burned or recycled.    *)
ValueConserved ==
  Total(pool, Windows)
    + Total([p \in Posts |-> Pot(p)], Posts)
    + Total([a \in Accounts |-> pend[a].balance + bal[a] + minted[a]], Accounts)
    + burned + recycled
  = acc_day * Total(DayEmission, Windows) + Funds * Cardinality(Accounts)

(* The rows hold values of their kinds, count the votes there are, and no   *)
(* pot owes more votes than it is divided by (Vote, Payout); and every     *)
(* unit for content is accounted for.                                      *)
BooksAreSound == TypeOK /\ RsharesTrackVotes /\ PotCoversClaims /\ ValueConserved

(* The monthly settle can pay a curator "without them ever having to ask"  *)
(* (Vote): whatever is withdrawn, voted again, claimed or drained, a vote  *)
(* that is still to be paid has a slot in its voter's queue.               *)
NoCurationForgotten ==
  \A p \in Posts, a \in Accounts :
    (vote[p][a] > 0 /\ (post[p].paid => post[p].pot > 0)) => \E n \in DOMAIN cq[a] : cq[a][n] = p

(* The order in which curators claim does not cost the later ones: what a  *)
(* unit of rshares is worth in a pot never falls by others' claims.        *)
LateCuratorsLoseNothing ==
  [][\A p \in Posts : (Pot(p) > 0 /\ post[p]'.potRshares > 0) =>
       post[p]'.pot * post[p].potRshares >= post[p].pot * post[p]'.potRshares]_vars

\* The slots of an account whose posts are still open.
OpenSlots(a) == {n \in DOMAIN cq[a] : cq[a][n] \in OpenPosts}

\* Whether as many drains as there are slots pay the account all it is due.
Drains(a, max) ==
  LET after[i \in 0 .. Len(cq[a])] ==
        IF i = 0 THEN Books ELSE DrainCuration(after[i - 1], a, max)
      end == after[Len(cq[a])]
  IN  \A p \in Posts : Due(p, a) => end.vote[p][a] = 0

(* However small the drains that ride along with votes are, they reach the *)
(* end of a queue whose posts have all been paid.                          *)
QueueDrains == \A a \in Accounts : OpenSlots(a) = {} => Drains(a, PiggybackDrain)

(* Every vote that is still to be paid is in a queue, and drains reach it  *)
(* (Vote, DrainCuration).                                                  *)
QueuePaysAll == NoCurationForgotten /\ QueueDrains

(* Open posts are skipped because "stopping at the first unpaid one would  *)
(* let a single slow post block everything behind it" (pob.go:700): with   *)
(* one open post in the queue, drains reach what is behind it.             *)
SingleSlowPostBlocksNothing ==
  \A a \in Accounts : Cardinality(OpenSlots(a)) <= 1 => Drains(a, MaxCurationDrain)
=============================================================================
