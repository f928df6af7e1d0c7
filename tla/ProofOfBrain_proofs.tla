------------------------- MODULE ProofOfBrain_proofs -------------------------
(***************************************************************************)
(* The safety theorems of ProofOfBrain and of the pages over it (Feed),    *)
(* for every value of their constants.                                     *)
(*                                                                         *)
(* A payment works on the books (Books): what a drain keeps is a set of    *)
(* books that no slot leaves, and the invariant is about the books, the    *)
(* pools and the power of the voters.                                      *)
(***************************************************************************)
EXTENDS Feed, Engine_proofs, SequenceTheorems

Modes == {"default", "powerup", "burn"}

Rows == [Posts -> PostRec \union {NoPost}]

Ballots == [Posts -> [Accounts -> Nat]]

Pends == [Accounts -> [balance : Nat, lastEpoch : Nat]]

BookType == [post : Rows, vote : Ballots, cq : [Accounts -> Seq(Posts \union {None})],
             pend : Pends, bal : [Accounts -> Nat], burned : Nat]

\* A post and the votes on it.
PostOK(r, v) ==
  /\ r = NoPost => \A a \in Accounts : v[a] = 0
  /\ r # NoPost /\ ~ r.paid => r.pot = 0 /\ r.rshares = Total(v, Accounts)
  /\ r # NoPost /\ r.pot > 0 => Total(v, Accounts) <= r.potRshares

\* A vote that can still be paid is in its voter's queue.
Queued(s) ==
  \A p \in Posts, a \in Accounts :
    (s.vote[p][a] > 0 /\ (s.post[p].paid => s.post[p].pot > 0)) =>
      \E n \in DOMAIN s.cq[a] : s.cq[a][n] = p

BooksOK(s) ==
  /\ s \in BookType
  /\ \A p \in Posts : PostOK(s.post[p], s.vote[p])
  /\ Queued(s)

\* What the books are worth: curator pots, what accounts hold, what is burned.
PotsOf(q) == [p \in Posts |-> IF q[p] # NoPost THEN q[p].pot ELSE 0]

HoldsOf(d, b, m) == [a \in Accounts |-> d[a].balance + b[a] + m[a]]

Worth(s, m) == Total(PotsOf(s.post), Posts) + Total(HoldsOf(s.pend, s.bal, m), Accounts) + s.burned

\* The rshares of the open posts of a window.
OpenShares(q, w) ==
  [p \in Posts |-> IF q[p] # NoPost /\ ~ q[p].paid /\ q[p].win = w THEN q[p].rshares ELSE 0]

\* The inductive invariant.
PobInv ==
  /\ TypeOK
  /\ \A a \in Accounts, w \in Windows : power[a][w].last <= day
  /\ BooksOK(Books)
  /\ \A w \in Windows : rshares[w] = stale[w] + Total(OpenShares(post, w), Posts)
  /\ Total(pool, Windows) + Worth(Books, minted) + recycled
       = acc_day * Total(DayEmission, Windows) + Funds * Cardinality(Accounts)
-----------------------------------------------------------------------------
(* Constants, posts and totals.                                            *)

LEMMA PobConstants ==
  /\ IsFiniteSet(Accounts) /\ IsFiniteSet(Posts) /\ IsFiniteSet(Windows)
  /\ Viral \in Windows /\ None \notin Posts
  /\ AuthorOf \in [Posts -> Accounts] /\ WindowOf \in [Posts -> Windows]
  /\ ModeOf \in [Posts -> Modes]
  /\ PayoutDays \in [Windows -> Nat \ {0}] /\ DayEmission \in [Windows -> Nat]
  /\ Stake \in [Accounts -> Nat] /\ Funds \in Nat /\ MultScale \in Nat \ {0}
  /\ CuratorPct \in 0 .. 100 /\ PoBLiquidPct \in 0 .. 100
  /\ PromoteMinBurn \in Nat /\ MaxAccrualDays \in Nat \ {0} /\ EpochDays \in Nat \ {0}
  /\ MaxCurationDrain \in Nat /\ PiggybackDrain \in Nat
  /\ MaxActs \in Nat /\ LastDay \in Nat
  /\ FullVoteCostPct \in Nat /\ \A a \in Accounts : Casts[a] \subseteq Nat
<1>1. /\ FullVoteCostPct \in Nat /\ MaxCurationDrain \in Nat /\ PiggybackDrain \in Nat
      /\ MultScale \in Nat \ {0}
  BY EngineAssumption, ProofOfBrainAssumption
<1>2. \A a \in Accounts : Casts[a] \subseteq Nat
  <2>1. Weights \subseteq Nat /\ Casts \in [Accounts -> SUBSET Weights]
    BY ProofOfBrainAssumption, SMTT(60)
  <2> QED BY <2>1
<1>3. ModeOf \in [Posts -> Modes]
  BY ProofOfBrainAssumption DEF Modes
<1>4. /\ CuratorPct \in 0 .. 100 /\ PoBLiquidPct \in 0 .. 100
      /\ PromoteMinBurn \in Nat /\ MaxAccrualDays \in Nat \ {0} /\ EpochDays \in Nat \ {0}
      /\ MaxActs \in Nat /\ LastDay \in Nat
  BY ProofOfBrainAssumption
<1>5. /\ IsFiniteSet(Accounts) /\ IsFiniteSet(Posts) /\ IsFiniteSet(Windows)
      /\ Viral \in Windows /\ None \notin Posts
      /\ AuthorOf \in [Posts -> Accounts] /\ WindowOf \in [Posts -> Windows]
      /\ PayoutDays \in [Windows -> Nat \ {0}] /\ DayEmission \in [Windows -> Nat]
      /\ Stake \in [Accounts -> Nat] /\ Funds \in Nat
  BY ProofOfBrainAssumption
<1> QED BY <1>1, <1>2, <1>3, <1>4, <1>5

\* What a registered post is made of.
LEMMA PostFields ==
  ASSUME NEW r \in PostRec
  PROVE  /\ r # NoPost /\ r.win \in Windows /\ r.mode \in Modes /\ r.created \in Nat
         /\ r.rshares \in Nat /\ r.paid \in BOOLEAN /\ r.pot \in Nat /\ r.potRshares \in Nat
         /\ r.paidDay \in Nat /\ r.promoted \in Nat
<1>1. r # NoPost
  <2>1. DOMAIN r = {"win", "mode", "created", "rshares", "paid", "pot", "potRshares",
                    "paidDay", "promoted"}
    BY DEF PostRec
  <2>2. DOMAIN NoPost = {"win"}
    BY DEF NoPost
  <2>3. DOMAIN r # DOMAIN NoPost
    BY <2>1, <2>2
  <2> QED BY <2>3
<1> QED BY <1>1 DEF PostRec, Modes

\* A part in percent is no more than the whole.
LEMMA Percent ==
  ASSUME NEW x \in Nat, NEW pct \in 0 .. 100
  PROVE  MulDiv(x, pct, 100) \in 0 .. x
<1>1. pct \in Nat /\ pct <= 100 /\ 100 \in Nat \ {0}
  OBVIOUS
<1>2. MulDiv(x, pct, 100) \in Nat /\ MulDiv(x, pct, 100) <= x
  BY <1>1, MulDivBounds, MulDivShrinks
<1> QED BY <1>2

\* The pots of all posts when that of one changes.
LEMMA PotsChange ==
  ASSUME NEW q \in Rows, NEW r \in Rows, NEW p \in Posts, \A x \in Posts \ {p} : r[x] = q[x]
  PROVE  /\ Total(PotsOf(q), Posts) \in Nat /\ Total(PotsOf(r), Posts) \in Nat
         /\ PotsOf(q)[p] \in Nat /\ PotsOf(r)[p] \in Nat
         /\ Total(PotsOf(r), Posts) = Total(PotsOf(q), Posts) - PotsOf(q)[p] + PotsOf(r)[p]
<1> DEFINE f == PotsOf(q)
           g == PotsOf(r)
<1>1. ASSUME NEW s \in Rows, NEW x \in Posts PROVE PotsOf(s)[x] \in Nat
  <2>1. CASE s[x] = NoPost
    BY <2>1 DEF PotsOf
  <2>2. CASE s[x] # NoPost
    <3>1. s[x] \in PostRec
      BY <2>2 DEF Rows
    <3> QED BY <2>2, <3>1, PostFields DEF PotsOf
  <2> QED BY <2>1, <2>2
<1>2. (\A x \in Posts : f[x] \in Nat) /\ (\A x \in Posts : g[x] \in Nat)
  BY <1>1
<1>3. \A x \in Posts \ {p} : g[x] = f[x]
  BY DEF PotsOf
<1> HIDE DEF f, g
<1>4. Total(g, Posts) = Total(f, Posts) - f[p] + g[p]
  BY <1>2, <1>3, PobConstants, TotalUpdate
<1>5. Total(f, Posts) \in Nat /\ Total(g, Posts) \in Nat
  BY <1>2, PobConstants, TotalIsNat
<1> QED BY <1>2, <1>4, <1>5 DEF f, g

\* What the accounts hold when one of them holds more or less.
LEMMA HoldsChange ==
  ASSUME NEW d \in Pends, NEW b \in [Accounts -> Nat], NEW m \in [Accounts -> Nat],
         NEW e \in Pends, NEW c \in [Accounts -> Nat], NEW n \in [Accounts -> Nat],
         NEW a \in Accounts,
         \A x \in Accounts \ {a} : e[x] = d[x] /\ c[x] = b[x] /\ n[x] = m[x]
  PROVE  /\ Total(HoldsOf(d, b, m), Accounts) \in Nat
         /\ Total(HoldsOf(e, c, n), Accounts) \in Nat
         /\ Total(HoldsOf(e, c, n), Accounts)
              = Total(HoldsOf(d, b, m), Accounts) - (d[a].balance + b[a] + m[a])
                + (e[a].balance + c[a] + n[a])
<1> DEFINE f == HoldsOf(d, b, m)
           g == HoldsOf(e, c, n)
<1>1. \A x \in Accounts : d[x].balance \in Nat /\ e[x].balance \in Nat
  BY DEF Pends
<1>2. (\A x \in Accounts : f[x] \in Nat) /\ (\A x \in Accounts : g[x] \in Nat)
  BY <1>1 DEF HoldsOf
<1>3. \A x \in Accounts \ {a} : g[x] = f[x]
  BY DEF HoldsOf
<1>4. f[a] = d[a].balance + b[a] + m[a] /\ g[a] = e[a].balance + c[a] + n[a]
  BY DEF HoldsOf
<1> HIDE DEF f, g
<1>5. Total(g, Accounts) = Total(f, Accounts) - f[a] + g[a]
  BY <1>2, <1>3, PobConstants, TotalUpdate
<1>6. Total(f, Accounts) \in Nat /\ Total(g, Accounts) \in Nat
  BY <1>2, PobConstants, TotalIsNat
<1> QED BY <1>4, <1>5, <1>6 DEF f, g

\* The books are worth a natural.
LEMMA WorthNat ==
  ASSUME NEW s \in BookType, NEW m \in [Accounts -> Nat]
  PROVE  /\ s.post \in Rows /\ s.vote \in Ballots /\ s.pend \in Pends
         /\ s.bal \in [Accounts -> Nat] /\ s.burned \in Nat
         /\ s.cq \in [Accounts -> Seq(Posts \union {None})]
         /\ Total(PotsOf(s.post), Posts) \in Nat
         /\ Total(HoldsOf(s.pend, s.bal, m), Accounts) \in Nat
         /\ Worth(s, m) \in Nat
<1>1. /\ s.post \in Rows /\ s.vote \in Ballots /\ s.pend \in Pends
      /\ s.bal \in [Accounts -> Nat] /\ s.burned \in Nat
      /\ s.cq \in [Accounts -> Seq(Posts \union {None})]
  BY DEF BookType
<1>2. Total(PotsOf(s.post), Posts) \in Nat
  <2>1. CASE Posts = {}
    <3>1. Total(PotsOf(s.post), Posts) = 0
      BY <2>1, TotalEmpty
    <3> QED BY <3>1
  <2>2. CASE Posts # {}
    <3>1. PICK p \in Posts : TRUE
      BY <2>2
    <3> QED BY <1>1, <3>1, PotsChange
  <2> QED BY <2>1, <2>2
<1>3. Total(HoldsOf(s.pend, s.bal, m), Accounts) \in Nat
  <2>1. CASE Accounts = {}
    <3>1. Total(HoldsOf(s.pend, s.bal, m), Accounts) = 0
      BY <2>1, TotalEmpty
    <3> QED BY <3>1
  <2>2. CASE Accounts # {}
    <3>1. PICK a \in Accounts : TRUE
      BY <2>2
    <3> QED BY <1>1, <3>1, HoldsChange
  <2> QED BY <2>1, <2>2
<1> QED BY <1>1, <1>2, <1>3 DEF Worth

-----------------------------------------------------------------------------
(* Payments.                                                               *)

\* What accounts are to mint only grows, and its epoch is anchored once.
Grown(d, e) ==
  \A b \in Accounts : /\ e[b].balance >= d[b].balance
                      /\ d[b].lastEpoch > 0 => e[b].lastEpoch = d[b].lastEpoch

LEMMA GrownNot ==
  ASSUME NEW d \in Pends
  PROVE  Grown(d, d)
<1>1. \A b \in Accounts : d[b].balance \in Nat
  BY DEF Pends
<1> QED BY <1>1 DEF Grown

LEMMA GrownTwice ==
  ASSUME NEW d \in Pends, NEW e \in Pends, NEW x \in Pends, Grown(d, e), Grown(e, x)
  PROVE  Grown(d, x)
<1>1. ASSUME NEW b \in Accounts
      PROVE  /\ x[b].balance >= d[b].balance
             /\ d[b].lastEpoch > 0 => x[b].lastEpoch = d[b].lastEpoch
  <2>1. x[b].balance \in Nat /\ e[b].balance \in Nat /\ d[b].balance \in Nat
    BY DEF Pends
  <2> QED BY <2>1 DEF Grown
<1> QED BY <1>1 DEF Grown

\* What an account is to mint grows by the amount (accruePending).
LEMMA AccrueSound ==
  ASSUME NEW s \in BookType, NEW m \in [Accounts -> Nat], NEW a \in Accounts,
         NEW amount \in Nat, day \in Nat
  PROVE  LET r == AccruePending(s, a, amount)
         IN  /\ r \in BookType /\ r.post = s.post /\ r.vote = s.vote /\ r.cq = s.cq
             /\ r.bal = s.bal /\ Worth(r, m) = Worth(s, m) + amount
             /\ Grown(s.pend, r.pend)
<1> DEFINE r == AccruePending(s, a, amount)
           x == [balance   |-> s.pend[a].balance + amount,
                 lastEpoch |-> IF s.pend[a].lastEpoch = 0 THEN Epoch ELSE s.pend[a].lastEpoch]
           e == [s.pend EXCEPT ![a] = x]
<1>1. /\ s.post \in Rows /\ s.vote \in Ballots /\ s.pend \in Pends
      /\ s.bal \in [Accounts -> Nat] /\ s.burned \in Nat
      /\ s.cq \in [Accounts -> Seq(Posts \union {None})]
      /\ Total(PotsOf(s.post), Posts) \in Nat
  BY WorthNat
<1>2. s.pend[a].balance \in Nat /\ s.pend[a].lastEpoch \in Nat
  BY <1>1 DEF Pends
<1>3. Epoch \in Nat
  BY PobConstants DEF Epoch
<1>4. x \in [balance : Nat, lastEpoch : Nat] /\ x.balance = s.pend[a].balance + amount
  <2> HIDE DEF Epoch
  <2> QED BY <1>2, <1>3
<1>a. s.pend[a].lastEpoch > 0 => x.lastEpoch = s.pend[a].lastEpoch
  BY <1>2
<1>5. r = [s EXCEPT !.pend = e]
  BY DEF AccruePending
<1> HIDE DEF x
<1>6. e \in Pends /\ e[a] = x /\ \A b \in Accounts \ {a} : e[b] = s.pend[b]
  BY <1>1, <1>4 DEF Pends
<1> HIDE DEF e, r
<1>7. /\ r \in BookType /\ r.post = s.post /\ r.vote = s.vote /\ r.cq = s.cq
      /\ r.pend = e /\ r.bal = s.bal /\ r.burned = s.burned
  BY <1>5, <1>6 DEF BookType
<1>8. /\ Total(HoldsOf(s.pend, s.bal, m), Accounts) \in Nat
      /\ Total(HoldsOf(e, s.bal, m), Accounts) \in Nat
      /\ Total(HoldsOf(e, s.bal, m), Accounts)
           = Total(HoldsOf(s.pend, s.bal, m), Accounts) - (s.pend[a].balance + s.bal[a] + m[a])
             + (e[a].balance + s.bal[a] + m[a])
  <2> DEFINE d == s.pend
             b == s.bal
  <2>1. d \in Pends /\ b \in [Accounts -> Nat]
    BY <1>1
  <2>2. \A c \in Accounts \ {a} : e[c] = d[c] /\ b[c] = b[c] /\ m[c] = m[c]
    BY <1>6
  <2> HIDE DEF d, b
  <2>3. /\ Total(HoldsOf(d, b, m), Accounts) \in Nat
        /\ Total(HoldsOf(e, b, m), Accounts) \in Nat
        /\ Total(HoldsOf(e, b, m), Accounts)
             = Total(HoldsOf(d, b, m), Accounts) - (d[a].balance + b[a] + m[a])
               + (e[a].balance + b[a] + m[a])
    BY <1>6, <2>1, <2>2, HoldsChange, SMTT(60)
  <2> QED BY <2>3 DEF d, b
<1>9. Worth(r, m) = Worth(s, m) + amount
  <2> DEFINE h0 == Total(HoldsOf(s.pend, s.bal, m), Accounts)
             h1 == Total(HoldsOf(e, s.bal, m), Accounts)
             t0 == Total(PotsOf(s.post), Posts)
             p0 == s.pend[a].balance
             b0 == s.bal[a]
             m0 == m[a]
             u0 == s.burned
  <2>1. Worth(r, m) = t0 + h1 + u0 /\ Worth(s, m) = t0 + h0 + u0
    BY <1>7 DEF Worth
  <2>2. h1 = h0 - (p0 + b0 + m0) + ((p0 + amount) + b0 + m0)
    BY <1>4, <1>6, <1>8
  <2>3. h0 \in Nat /\ h1 \in Nat /\ t0 \in Nat /\ p0 \in Nat /\ b0 \in Nat /\ m0 \in Nat
        /\ u0 \in Nat
    BY <1>1, <1>2, <1>8
  <2> HIDE DEF h0, h1, t0, p0, b0, m0, u0
  <2> QED BY <2>1, <2>2, <2>3
<1>10. Grown(s.pend, e)
  <2>1. ASSUME NEW b \in Accounts
        PROVE  /\ e[b].balance >= s.pend[b].balance
               /\ s.pend[b].lastEpoch > 0 => e[b].lastEpoch = s.pend[b].lastEpoch
    <3>1. CASE b = a
      BY <1>2, <1>4, <1>6, <1>a, <3>1
    <3>2. CASE b # a
      <4>1. e[b] = s.pend[b] /\ s.pend[b].balance \in Nat
        BY <1>1, <1>6, <3>2 DEF Pends
      <4> QED BY <4>1
    <3> QED BY <3>1, <3>2
  <2> QED BY <2>1 DEF Grown
<1> QED BY <1>7, <1>9, <1>10 DEF r

\* An account's balance grows by the amount.
LEMMA PaidSound ==
  ASSUME NEW s \in BookType, NEW m \in [Accounts -> Nat], NEW a \in Accounts,
         NEW amount \in Nat
  PROVE  LET r == [s EXCEPT !.bal[a] = @ + amount]
         IN  /\ r \in BookType /\ r.post = s.post /\ r.vote = s.vote /\ r.cq = s.cq
             /\ r.pend = s.pend /\ Worth(r, m) = Worth(s, m) + amount
<1> DEFINE r == [s EXCEPT !.bal[a] = @ + amount]
           x == s.bal[a] + amount
           e == [s.bal EXCEPT ![a] = x]
<1>1. /\ s.post \in Rows /\ s.vote \in Ballots /\ s.pend \in Pends
      /\ s.bal \in [Accounts -> Nat] /\ s.burned \in Nat
      /\ s.cq \in [Accounts -> Seq(Posts \union {None})]
      /\ Total(PotsOf(s.post), Posts) \in Nat
  BY WorthNat
<1>2. x \in Nat /\ s.pend[a].balance \in Nat
  BY <1>1 DEF Pends
<1>3. r = [s EXCEPT !.bal = e]
  OBVIOUS
<1>4. e \in [Accounts -> Nat] /\ e[a] = s.bal[a] + amount
      /\ \A b \in Accounts \ {a} : e[b] = s.bal[b]
  BY <1>1, <1>2
<1> HIDE DEF x, e, r
<1>5. /\ r \in BookType /\ r.post = s.post /\ r.vote = s.vote /\ r.cq = s.cq
      /\ r.pend = s.pend /\ r.bal = e /\ r.burned = s.burned
  BY <1>3, <1>4 DEF BookType
<1>6. /\ Total(HoldsOf(s.pend, s.bal, m), Accounts) \in Nat
      /\ Total(HoldsOf(s.pend, e, m), Accounts) \in Nat
      /\ Total(HoldsOf(s.pend, e, m), Accounts)
           = Total(HoldsOf(s.pend, s.bal, m), Accounts) - (s.pend[a].balance + s.bal[a] + m[a])
             + (s.pend[a].balance + e[a] + m[a])
  <2> DEFINE d == s.pend
             b == s.bal
  <2>1. d \in Pends /\ b \in [Accounts -> Nat]
    BY <1>1
  <2>2. \A c \in Accounts \ {a} : d[c] = d[c] /\ e[c] = b[c] /\ m[c] = m[c]
    BY <1>4
  <2> HIDE DEF d, b
  <2>3. /\ Total(HoldsOf(d, b, m), Accounts) \in Nat
        /\ Total(HoldsOf(d, e, m), Accounts) \in Nat
        /\ Total(HoldsOf(d, e, m), Accounts)
             = Total(HoldsOf(d, b, m), Accounts) - (d[a].balance + b[a] + m[a])
               + (d[a].balance + e[a] + m[a])
    BY <1>4, <2>1, <2>2, HoldsChange
  <2> QED BY <2>3 DEF d, b
<1>7. Worth(r, m) = Worth(s, m) + amount
  <2> DEFINE h0 == Total(HoldsOf(s.pend, s.bal, m), Accounts)
             h1 == Total(HoldsOf(s.pend, e, m), Accounts)
             t0 == Total(PotsOf(s.post), Posts)
             p0 == s.pend[a].balance
             b0 == s.bal[a]
             m0 == m[a]
             u0 == s.burned
  <2>1. Worth(r, m) = t0 + h1 + u0 /\ Worth(s, m) = t0 + h0 + u0
    BY <1>5 DEF Worth
  <2>2. h1 = h0 - (p0 + b0 + m0) + (p0 + (b0 + amount) + m0)
    BY <1>4, <1>6
  <2>3. h0 \in Nat /\ h1 \in Nat /\ t0 \in Nat /\ p0 \in Nat /\ b0 \in Nat /\ m0 \in Nat
        /\ u0 \in Nat
    BY <1>1, <1>2, <1>6
  <2> HIDE DEF h0, h1, t0, p0, b0, m0, u0
  <2> QED BY <2>1, <2>2, <2>3
<1> QED BY <1>5, <1>7 DEF r

\* More is burned.
LEMMA BurnSound ==
  ASSUME NEW s \in BookType, NEW m \in [Accounts -> Nat], NEW amount \in Nat
  PROVE  LET r == [s EXCEPT !.burned = @ + amount]
         IN  /\ r \in BookType /\ r.post = s.post /\ r.vote = s.vote /\ r.cq = s.cq
             /\ r.pend = s.pend /\ Worth(r, m) = Worth(s, m) + amount
<1> DEFINE r == [s EXCEPT !.burned = @ + amount]
<1>1. s.burned \in Nat /\ Total(PotsOf(s.post), Posts) \in Nat
      /\ Total(HoldsOf(s.pend, s.bal, m), Accounts) \in Nat
  BY WorthNat
<1>2. /\ r \in BookType /\ r.post = s.post /\ r.vote = s.vote /\ r.cq = s.cq
      /\ r.pend = s.pend /\ r.bal = s.bal /\ r.burned = s.burned + amount
  <2> DEFINE x == s.burned + amount
             y == [s EXCEPT !.burned = x]
  <2>1. x \in Nat
    BY <1>1
  <2> HIDE DEF x
  <2>2. /\ y \in BookType /\ y.post = s.post /\ y.vote = s.vote /\ y.cq = s.cq
        /\ y.pend = s.pend /\ y.bal = s.bal /\ y.burned = x
    BY <2>1 DEF BookType
  <2>3. r = y
    BY DEF x
  <2> HIDE DEF y, r
  <2> QED BY <2>2, <2>3 DEF x
<1> HIDE DEF r
<1>3. Worth(r, m) = Worth(s, m) + amount
  <2> DEFINE h0 == Total(HoldsOf(s.pend, s.bal, m), Accounts)
             t0 == Total(PotsOf(s.post), Posts)
             u0 == s.burned
  <2>1. Worth(r, m) = t0 + h0 + (u0 + amount) /\ Worth(s, m) = t0 + h0 + u0
    BY <1>2 DEF Worth
  <2>2. h0 \in Nat /\ t0 \in Nat /\ u0 \in Nat
    BY <1>1
  <2> HIDE DEF h0, t0, u0
  <2> QED BY <2>1, <2>2
<1> QED BY <1>2, <1>3 DEF r

\* However a reward is taken, all of it arrives (payReward).
LEMMA RewardSound ==
  ASSUME NEW s \in BookType, NEW m \in [Accounts -> Nat], NEW a \in Accounts,
         NEW amount \in Nat, NEW mode \in Modes, day \in Nat
  PROVE  LET r == PayReward(s, a, amount, mode)
         IN  /\ r \in BookType /\ r.post = s.post /\ r.vote = s.vote /\ r.cq = s.cq
             /\ Worth(r, m) = Worth(s, m) + amount /\ Grown(s.pend, r.pend)
<1> DEFINE liquid == MulDiv(amount, PoBLiquidPct, 100)
           u == [s EXCEPT !.bal[a] = @ + liquid]
           r == PayReward(s, a, amount, mode)
<1>1. liquid \in 0 .. amount
  BY PobConstants, Percent
<1>2. liquid \in Nat /\ amount - liquid \in Nat
  BY <1>1
<1>3. r = IF amount = 0 THEN s
          ELSE CASE mode = "burn"    -> [s EXCEPT !.burned = @ + amount]
                 [] mode = "powerup" -> AccruePending(s, a, amount)
                 [] OTHER -> AccruePending(u, a, amount - liquid)
  BY DEF PayReward
<1> HIDE DEF liquid
<1>4. Worth(s, m) \in Nat /\ s.pend \in Pends /\ Grown(s.pend, s.pend)
  BY WorthNat, GrownNot
<1>5. CASE amount = 0
  <2>1. r = s
    BY <1>3, <1>5
  <2> HIDE DEF r
  <2> QED BY <1>4, <1>5, <2>1 DEF r
<1>6. CASE amount # 0 /\ mode = "burn"
  <2>1. r = [s EXCEPT !.burned = @ + amount]
    BY <1>3, <1>6
  <2> HIDE DEF r
  <2> QED BY <1>4, <2>1, BurnSound DEF r
<1>7. CASE amount # 0 /\ mode = "powerup"
  <2>1. r = AccruePending(s, a, amount)
    BY <1>3, <1>7
  <2> HIDE DEF r
  <2> QED BY <2>1, AccrueSound DEF r
<1>8. CASE amount # 0 /\ mode = "default"
  <2>1. r = AccruePending(u, a, amount - liquid)
    BY <1>3, <1>8
  <2>2. /\ u \in BookType /\ u.post = s.post /\ u.vote = s.vote /\ u.cq = s.cq
        /\ u.pend = s.pend /\ Worth(u, m) = Worth(s, m) + liquid
    BY <1>2, PaidSound
  <2> HIDE DEF u, r
  <2>3. /\ r \in BookType /\ r.post = u.post /\ r.vote = u.vote /\ r.cq = u.cq
        /\ Worth(r, m) = Worth(u, m) + (amount - liquid) /\ Grown(u.pend, r.pend)
    BY <1>2, <2>1, <2>2, AccrueSound
  <2>4. Worth(r, m) = Worth(s, m) + amount
    BY <1>2, <1>4, <2>2, <2>3
  <2> QED BY <2>2, <2>3, <2>4 DEF r
<1> QED BY <1>5, <1>6, <1>7, <1>8 DEF Modes

-----------------------------------------------------------------------------
(* Claims.                                                                 *)

\* One post and the votes on it, and the queue of one account, written anew.
Edit(s, p, q, v) == [s EXCEPT !.post[p] = q, !.vote[p] = v]

Requeue(s, a, c) == [s EXCEPT !.cq[a] = c]

PotOf(q) == IF q # NoPost THEN q.pot ELSE 0

LEMMA EditSound ==
  ASSUME NEW s \in BookType, NEW m \in [Accounts -> Nat], NEW p \in Posts,
         NEW q \in PostRec \union {NoPost}, NEW v \in [Accounts -> Nat]
  PROVE  LET r == Edit(s, p, q, v)
         IN  /\ r \in BookType /\ r.cq = s.cq /\ r.pend = s.pend /\ r.post[p] = q /\ r.vote[p] = v
             /\ \A x \in Posts \ {p} : r.post[x] = s.post[x] /\ r.vote[x] = s.vote[x]
             /\ Worth(r, m) = Worth(s, m) - PotOf(s.post[p]) + PotOf(q)
             /\ PotOf(s.post[p]) \in Nat /\ PotOf(q) \in Nat
<1> DEFINE r == Edit(s, p, q, v)
           e == [s.post EXCEPT ![p] = q]
           d == [s.vote EXCEPT ![p] = v]
<1>1. /\ s.post \in Rows /\ s.vote \in Ballots
      /\ Total(HoldsOf(s.pend, s.bal, m), Accounts) \in Nat /\ s.burned \in Nat
  BY WorthNat
<1>2. /\ e \in Rows /\ e[p] = q /\ \A x \in Posts \ {p} : e[x] = s.post[x]
  BY <1>1 DEF Rows
<1>3. /\ d \in Ballots /\ d[p] = v /\ \A x \in Posts \ {p} : d[x] = s.vote[x]
  BY <1>1 DEF Ballots
<1>4. r = [s EXCEPT !.post = e, !.vote = d]
  BY DEF Edit
<1> HIDE DEF e, d, r
<1>5. /\ r \in BookType /\ r.cq = s.cq /\ r.post = e /\ r.vote = d
      /\ r.pend = s.pend /\ r.bal = s.bal /\ r.burned = s.burned
  BY <1>2, <1>3, <1>4 DEF BookType
<1>6. Worth(r, m) = Worth(s, m) - PotOf(s.post[p]) + PotOf(q)
      /\ PotOf(s.post[p]) \in Nat /\ PotOf(q) \in Nat
  <2> DEFINE o  == s.post
             t0 == Total(PotsOf(o), Posts)
             t1 == Total(PotsOf(e), Posts)
             h0 == Total(HoldsOf(s.pend, s.bal, m), Accounts)
             u0 == s.burned
             a0 == PotsOf(o)[p]
             a1 == PotsOf(e)[p]
  <2>1. o \in Rows /\ e \in Rows /\ \A x \in Posts \ {p} : e[x] = o[x]
    BY <1>1, <1>2
  <2> HIDE DEF o
  <2>2. t0 \in Nat /\ t1 \in Nat /\ a0 \in Nat /\ a1 \in Nat /\ t1 = t0 - a0 + a1
    BY <2>1, PotsChange
  <2>3. a0 = PotOf(o[p]) /\ a1 = PotOf(q)
    BY <1>2 DEF PotsOf, PotOf
  <2>4. Worth(r, m) = t1 + h0 + u0 /\ Worth(s, m) = t0 + h0 + u0
    BY <1>5 DEF Worth, o
  <2>5. h0 \in Nat /\ u0 \in Nat
    BY <1>1
  <2> HIDE DEF t0, t1, h0, u0, a0, a1
  <2>6. Worth(r, m) = Worth(s, m) - a0 + a1
    BY <2>2, <2>4, <2>5
  <2> QED BY <2>2, <2>3, <2>6 DEF o
<1> QED BY <1>2, <1>3, <1>5, <1>6 DEF r

LEMMA RequeueSound ==
  ASSUME NEW s \in BookType, NEW m \in [Accounts -> Nat], NEW a \in Accounts,
         NEW c \in Seq(Posts \union {None})
  PROVE  LET r == Requeue(s, a, c)
         IN  /\ r \in BookType /\ r.post = s.post /\ r.vote = s.vote /\ r.cq[a] = c
             /\ \A b \in Accounts \ {a} : r.cq[b] = s.cq[b]
             /\ r.pend = s.pend /\ Worth(r, m) = Worth(s, m)
<1> DEFINE r == Requeue(s, a, c)
           e == [s.cq EXCEPT ![a] = c]
<1>1. s.cq \in [Accounts -> Seq(Posts \union {None})]
  BY WorthNat
<1>2. /\ e \in [Accounts -> Seq(Posts \union {None})] /\ e[a] = c
      /\ \A b \in Accounts \ {a} : e[b] = s.cq[b]
  BY <1>1
<1>3. r = [s EXCEPT !.cq = e]
  BY DEF Requeue
<1> HIDE DEF e, r
<1>4. /\ r \in BookType /\ r.post = s.post /\ r.vote = s.vote /\ r.cq = e
      /\ r.pend = s.pend /\ r.bal = s.bal /\ r.burned = s.burned
  BY <1>2, <1>3 DEF BookType
<1>5. Worth(r, m) = Worth(s, m)
  BY <1>4 DEF Worth
<1> QED BY <1>2, <1>4, <1>5 DEF r

\* One vote counts for more or less.
LEMMA OneVote ==
  ASSUME NEW v \in [Accounts -> Nat], NEW a \in Accounts, NEW n \in Nat
  PROVE  LET w == [v EXCEPT ![a] = n]
         IN  /\ w \in [Accounts -> Nat] /\ w[a] = n /\ \A b \in Accounts \ {a} : w[b] = v[b]
             /\ Total(v, Accounts) \in Nat /\ Total(w, Accounts) \in Nat
             /\ v[a] \in Nat /\ v[a] <= Total(v, Accounts)
             /\ Total(w, Accounts) = Total(v, Accounts) - v[a] + n
<1> DEFINE w == [v EXCEPT ![a] = n]
<1>1. w \in [Accounts -> Nat] /\ w[a] = n /\ \A b \in Accounts \ {a} : w[b] = v[b]
  OBVIOUS
<1>2. (\A b \in Accounts : v[b] \in Nat) /\ (\A b \in Accounts : w[b] \in Nat)
  BY <1>1
<1> HIDE DEF w
<1>3. Total(w, Accounts) = Total(v, Accounts) - v[a] + w[a]
  BY <1>1, <1>2, PobConstants, TotalUpdate
<1>4. Total(v, Accounts) \in Nat /\ Total(w, Accounts) \in Nat
  BY <1>2, PobConstants, TotalIsNat
<1>5. Total(v, Accounts) >= v[a]
  BY <1>2, PobConstants, TotalRemove
<1> QED BY <1>1, <1>2, <1>3, <1>4, <1>5 DEF w

\* What others' claims may make of a post: a unit of rshares is worth no less.
Moved(q, r) ==
  IF q # NoPost /\ q.paid
  THEN /\ r # NoPost /\ r.paid
       /\ r.potRshares > 0 =>
            q.potRshares > 0 /\ r.pot * q.potRshares >= q.pot * r.potRshares
  ELSE r = q

LEMMA MovedNot ==
  ASSUME NEW q \in PostRec \union {NoPost}
  PROVE  Moved(q, q)
<1>1. CASE q = NoPost
  BY <1>1 DEF Moved
<1>2. CASE q \in PostRec
  <2>1. q.pot \in Nat /\ q.potRshares \in Nat
    BY <1>2, PostFields
  <2>2. q.pot * q.potRshares \in Nat
    BY <2>1, ProductNat
  <2> QED BY <2>2 DEF Moved
<1> QED BY <1>1, <1>2

\* A quotient that does not fall twice does not fall.
LEMMA RatioTrans ==
  ASSUME NEW p0 \in Nat, NEW r0 \in Nat, NEW p1 \in Nat, NEW r1 \in Nat \ {0},
         NEW p2 \in Nat, NEW r2 \in Nat,
         p1 * r0 >= p0 * r1, p2 * r1 >= p1 * r2
  PROVE  p2 * r0 >= p0 * r2
<1> DEFINE a == p2 * r0
           b == p0 * r2
           c == p1 * r0
           d == p0 * r1
           e == p2 * r1
           f == p1 * r2
<1>1. a \in Nat /\ b \in Nat /\ c \in Nat /\ d \in Nat /\ e \in Nat /\ f \in Nat
      /\ d <= c /\ f <= e
  BY ProductNat
<1>2. r1 * a = r0 * e /\ r0 * f = r2 * c /\ r2 * d = r1 * b
  OBVIOUS
<1> HIDE DEF a, b, c, d, e, f
<1>3. r0 * f <= r0 * e /\ r2 * d <= r2 * c
  BY <1>1, ProductMono
<1>4. r1 * a \in Nat /\ r1 * b \in Nat /\ r0 * f \in Nat
  BY <1>1, ProductNat
<1>5. r1 * b <= r1 * a
  BY <1>2, <1>3, <1>4
<1>6. ASSUME a + 1 <= b PROVE FALSE
  <2>1. r1 * (a + 1) <= r1 * b
    BY <1>1, <1>6, ProductMono
  <2>2. r1 * (a + 1) = r1 * a + r1
    BY <1>1
  <2> QED BY <1>4, <1>5, <2>1, <2>2
<1>7. b <= a
  BY <1>1, <1>6
<1> QED BY <1>7 DEF a, b

LEMMA MovedTwice ==
  ASSUME NEW q \in PostRec \union {NoPost}, NEW r \in PostRec \union {NoPost},
         NEW x \in PostRec \union {NoPost}, Moved(q, r), Moved(r, x)
  PROVE  Moved(q, x)
<1>1. CASE ~ (q # NoPost /\ q.paid)
  BY <1>1 DEF Moved
<1>2. CASE q # NoPost /\ q.paid
  <2>1. r # NoPost /\ r.paid
    BY <1>2 DEF Moved
  <2>2. x # NoPost /\ x.paid
    BY <2>1 DEF Moved
  <2>3. /\ q.pot \in Nat /\ q.potRshares \in Nat /\ r.pot \in Nat /\ r.potRshares \in Nat
        /\ x.pot \in Nat /\ x.potRshares \in Nat
    BY <1>2, <2>1, <2>2, PostFields
  <2>4. ASSUME x.potRshares > 0
        PROVE  q.potRshares > 0 /\ x.pot * q.potRshares >= q.pot * x.potRshares
    <3>1. r.potRshares > 0 /\ x.pot * r.potRshares >= r.pot * x.potRshares
      BY <2>1, <2>4 DEF Moved
    <3>2. q.potRshares > 0 /\ r.pot * q.potRshares >= q.pot * r.potRshares
      BY <1>2, <3>1 DEF Moved
    <3>3. r.potRshares \in Nat \ {0}
      BY <2>3, <3>1
    <3>4. x.pot * q.potRshares >= q.pot * x.potRshares
      BY <2>3, <3>1, <3>2, <3>3, RatioTrans
    <3> QED BY <3>2, <3>4
  <2> QED BY <1>2, <2>2, <2>4 DEF Moved
<1> QED BY <1>1, <1>2

\* A claim takes no more than its part, so the others' is worth no less, and
\* what is left of the votes is still covered (ClaimCuration).
LEMMA ShareFair ==
  ASSUME NEW pot \in Nat, NEW total \in Nat, NEW mine \in Nat, mine > 0, mine <= total
  PROVE  LET share == MulDiv(pot, mine, total)
         IN  /\ share \in 0 .. pot
             /\ (pot - share) * total >= pot * (total - mine)
<1> DEFINE share == MulDiv(pot, mine, total)
<1>1. total \in Nat \ {0}
  OBVIOUS
<1>2. share \in Nat /\ share <= pot /\ total * share <= pot * mine
  BY <1>1, MulDivBounds, MulDivShrinks
<1> HIDE DEF share
<1>3. (pot - share) * total = pot * total - total * share
      /\ pot * (total - mine) = pot * total - pot * mine
  BY <1>2
<1>4. pot * total \in Nat /\ total * share \in Nat /\ pot * mine \in Nat
  BY <1>2, ProductNat
<1>5. (pot - share) * total >= pot * (total - mine)
  BY <1>2, <1>3, <1>4
<1> QED BY <1>2, <1>5 DEF share

\* What the payments of claims leave as it was: the posts but for their pots,
\* and each vote until it is settled.
Kept(s, x) ==
  /\ Grown(s.pend, x.pend)
  /\ \A q \in Posts : s.post[q] = NoPost => x.post[q] = NoPost
  /\ \A q \in Posts : s.post[q] # NoPost =>
       /\ x.post[q] # NoPost /\ x.post[q].win = s.post[q].win
       /\ x.post[q].rshares = s.post[q].rshares /\ x.post[q].paid = s.post[q].paid
  /\ \A q \in Posts, b \in Accounts : x.vote[q][b] \in {0, s.vote[q][b]}

LEMMA KeptNot ==
  ASSUME NEW s \in BookType
  PROVE  Kept(s, s)
<1>1. s.pend \in Pends
  BY DEF BookType
<1> QED BY <1>1, GrownNot DEF Kept

LEMMA KeptTwice ==
  ASSUME NEW s \in BookType, NEW x \in BookType, NEW y \in BookType, Kept(s, x), Kept(x, y)
  PROVE  Kept(s, y)
<1>1. s.pend \in Pends /\ x.pend \in Pends /\ y.pend \in Pends
  BY DEF BookType
<1>2. Grown(s.pend, y.pend)
  BY <1>1, GrownTwice DEF Kept
<1>3. \A q \in Posts : s.post[q] = NoPost => y.post[q] = NoPost
  BY DEF Kept
<1>4. ASSUME NEW q \in Posts, s.post[q] # NoPost
      PROVE  /\ y.post[q] # NoPost /\ y.post[q].win = s.post[q].win
             /\ y.post[q].rshares = s.post[q].rshares /\ y.post[q].paid = s.post[q].paid
  <2>1. /\ x.post[q] # NoPost /\ x.post[q].win = s.post[q].win
        /\ x.post[q].rshares = s.post[q].rshares /\ x.post[q].paid = s.post[q].paid
    BY <1>4 DEF Kept
  <2> QED BY <2>1 DEF Kept
<1>5. ASSUME NEW q \in Posts, NEW b \in Accounts PROVE y.vote[q][b] \in {0, s.vote[q][b]}
  <2>1. x.vote[q][b] \in {0, s.vote[q][b]} /\ y.vote[q][b] \in {0, x.vote[q][b]}
    BY DEF Kept
  <2> QED BY <2>1
<1> QED BY <1>2, <1>3, <1>4, <1>5 DEF Kept

\* One post and the votes on it have changed.
LEMMA KeptOne ==
  ASSUME NEW s \in BookType, NEW x, NEW p \in Posts, Grown(s.pend, x.pend),
         \A y \in Posts \ {p} : x.post[y] = s.post[y] /\ x.vote[y] = s.vote[y],
         s.post[p] # NoPost, x.post[p] # NoPost, x.post[p].win = s.post[p].win,
         x.post[p].rshares = s.post[p].rshares, x.post[p].paid = s.post[p].paid,
         \A b \in Accounts : x.vote[p][b] \in {0, s.vote[p][b]}
  PROVE  Kept(s, x)
<1>1. ASSUME NEW q \in Posts, NEW b \in Accounts PROVE x.vote[q][b] \in {0, s.vote[q][b]}
  BY DEF Kept
<1>2. ASSUME NEW q \in Posts, s.post[q] = NoPost PROVE x.post[q] = NoPost
  BY <1>2
<1>3. ASSUME NEW q \in Posts, s.post[q] # NoPost
      PROVE  /\ x.post[q] # NoPost /\ x.post[q].win = s.post[q].win
             /\ x.post[q].rshares = s.post[q].rshares /\ x.post[q].paid = s.post[q].paid
  <2>1. CASE q = p
    BY <2>1
  <2>2. CASE q # p
    BY <1>3, <2>2
  <2> QED BY <2>1, <2>2
<1> QED BY <1>1, <1>2, <1>3 DEF Kept

\* What one claim does to the post and to the vote.
LEMMA ClaimedIs ==
  ASSUME NEW s \in BookType, NEW p \in Posts, NEW a \in Accounts, s.post[p] \in PostRec
  PROVE  LET mine  == s.vote[p][a]
             share == CurationShare(s.post[p], mine)
             q     == [s.post[p] EXCEPT !.pot = @ - share, !.potRshares = @ - mine]
             v     == [s.vote[p] EXCEPT ![a] = 0]
         IN  Claimed(s, p, a) = PayReward(Edit(s, p, q, v), a, share, "default")
<1> DEFINE mine  == s.vote[p][a]
           share == CurationShare(s.post[p], mine)
           q     == [s.post[p] EXCEPT !.pot = @ - share, !.potRshares = @ - mine]
           v     == [s.vote[p] EXCEPT ![a] = 0]
           u     == [s EXCEPT !.post[p].pot = @ - share, !.post[p].potRshares = @ - mine,
                              !.vote[p][a] = 0]
<1>1. s.post \in Rows /\ s.vote \in Ballots
  BY DEF BookType
<1>2. Claimed(s, p, a) = PayReward(u, a, share, "default")
  BY DEF Claimed
<1>3. u = Edit(s, p, q, v)
  <2> HIDE DEF mine, share
  <2>1. DOMAIN s.post = Posts /\ DOMAIN s.vote = Posts
    BY <1>1 DEF Rows, Ballots
  <2>2. DOMAIN s = {"post", "vote", "cq", "pend", "bal", "burned"}
    BY DEF BookType
  <2> QED BY <2>1, <2>2 DEF Edit, PostRec
<1> QED BY <1>2, <1>3

\* One post's row and votes move on: what a claim, and a vote deleted unpaid,
\* do to the books.
Settled(s, x, p, a) ==
  /\ x \in BookType /\ x.cq = s.cq
  /\ \A y \in Posts \ {p} : x.post[y] = s.post[y] /\ x.vote[y] = s.vote[y]
  /\ x.post[p] \in PostRec /\ x.post[p].paid = s.post[p].paid
  /\ x.post[p].pot <= s.post[p].pot /\ x.post[p].win = s.post[p].win
  /\ PostOK(x.post[p], x.vote[p]) /\ Moved(s.post[p], x.post[p])
  /\ x.vote[p][a] = 0 /\ \A b \in Accounts \ {a} : x.vote[p][b] = s.vote[p][b]

\* A claim takes its part of the pot and of the rshares with it.
LEMMA ClaimedSound ==
  ASSUME NEW s \in BookType, NEW m \in [Accounts -> Nat], NEW p \in Posts, NEW a \in Accounts,
         s.post[p] \in PostRec, PostOK(s.post[p], s.vote[p]),
         Claimable(s.post[p], s.vote[p][a]), day \in Nat
  PROVE  LET x == Claimed(s, p, a)
         IN  Settled(s, x, p, a) /\ Worth(x, m) = Worth(s, m) /\ Kept(s, x)
<1> DEFINE r     == s.post[p]
           votes == s.vote[p]
           mine  == votes[a]
           share == CurationShare(r, mine)
           q     == [r EXCEPT !.pot = @ - share, !.potRshares = @ - mine]
           v     == [votes EXCEPT ![a] = 0]
           e     == Edit(s, p, q, v)
           x     == PayReward(e, a, share, "default")
<1>1. Claimed(s, p, a) = x
  BY ClaimedIs
<1>2. votes \in [Accounts -> Nat] /\ r \in PostRec
  BY DEF BookType, Ballots
<1>3. /\ r # NoPost /\ r.paid \in BOOLEAN /\ r.pot \in Nat /\ r.potRshares \in Nat
      /\ r.rshares \in Nat
  BY <1>2, PostFields
<1>4. r.paid /\ r.pot > 0 /\ r.potRshares > 0 /\ mine > 0
  BY DEF Claimable
<1>5. Total(votes, Accounts) <= r.potRshares
  BY <1>3, <1>4 DEF PostOK
<1>6. PostOK(r, votes)
  OBVIOUS
<1> HIDE DEF votes, r
<1>7. /\ v \in [Accounts -> Nat] /\ v[a] = 0 /\ \A b \in Accounts \ {a} : v[b] = votes[b]
      /\ Total(votes, Accounts) \in Nat /\ Total(v, Accounts) \in Nat
      /\ mine \in Nat /\ mine <= Total(votes, Accounts)
      /\ Total(v, Accounts) = Total(votes, Accounts) - mine
  <2>1. 0 \in Nat
    OBVIOUS
  <2>2. Total(v, Accounts) = Total(votes, Accounts) - mine + 0
    BY <1>2, <2>1, OneVote, ZenonT(60)
  <2>3. /\ v \in [Accounts -> Nat] /\ v[a] = 0 /\ \A b \in Accounts \ {a} : v[b] = votes[b]
        /\ Total(votes, Accounts) \in Nat /\ Total(v, Accounts) \in Nat
        /\ mine \in Nat /\ mine <= Total(votes, Accounts)
    BY <1>2, <2>1, OneVote, ZenonT(60)
  <2> QED BY <2>2, <2>3
<1>8. mine <= r.potRshares
  BY <1>3, <1>5, <1>7
<1>9. /\ share \in 0 .. r.pot
      /\ (r.pot - share) * r.potRshares >= r.pot * (r.potRshares - mine)
  BY <1>3, <1>4, <1>7, <1>8, ShareFair DEF CurationShare
<1> HIDE DEF share, mine, v
<1>10. /\ q \in PostRec /\ q.pot = r.pot - share /\ q.potRshares = r.potRshares - mine
       /\ q.paid = r.paid /\ q.rshares = r.rshares /\ q.win = r.win
  <2> DEFINE y == r.pot - share
             z == r.potRshares - mine
  <2>1. y \in Nat /\ z \in Nat
    BY <1>3, <1>7, <1>8, <1>9
  <2>2. q = [r EXCEPT !.pot = y, !.potRshares = z]
    OBVIOUS
  <2> HIDE DEF y, z, q
  <2>3. /\ q \in PostRec /\ q.pot = y /\ q.potRshares = z
        /\ q.paid = r.paid /\ q.rshares = r.rshares /\ q.win = r.win
    BY <1>2, <2>1, <2>2 DEF PostRec
  <2> QED BY <2>3 DEF y, z
<1> HIDE DEF q
<1>11. q # NoPost /\ q.pot \in Nat /\ q.potRshares \in Nat
  BY <1>10, PostFields
<1>12. PostOK(q, v)
  <2>1. Total(v, Accounts) <= q.potRshares
    BY <1>3, <1>5, <1>7, <1>10
  <2> QED BY <1>4, <1>10, <1>11, <2>1 DEF PostOK
<1>13. Moved(r, q)
  <2>1. q.pot * r.potRshares >= r.pot * q.potRshares
    BY <1>9, <1>10
  <2> QED BY <1>3, <1>4, <1>10, <1>11, <2>1 DEF Moved
<1>14. q.pot <= r.pot
  BY <1>3, <1>9, <1>10
<1>15. /\ e \in BookType /\ e.cq = s.cq /\ e.pend = s.pend /\ e.post[p] = q /\ e.vote[p] = v
       /\ \A y \in Posts \ {p} : e.post[y] = s.post[y] /\ e.vote[y] = s.vote[y]
       /\ Worth(e, m) = Worth(s, m) - PotOf(s.post[p]) + PotOf(q)
       /\ PotOf(s.post[p]) \in Nat /\ PotOf(q) \in Nat
  BY <1>7, <1>10, EditSound
<1>16. PotOf(s.post[p]) = r.pot /\ PotOf(q) = r.pot - share
  BY <1>3, <1>10, <1>11 DEF PotOf, r
<1> HIDE DEF e
<1>17. /\ x \in BookType /\ x.post = e.post /\ x.vote = e.vote /\ x.cq = e.cq
       /\ Worth(x, m) = Worth(e, m) + share /\ Grown(e.pend, x.pend)
  <2>1. share \in Nat /\ "default" \in Modes
    BY <1>9 DEF Modes
  <2> QED BY <1>15, <2>1, RewardSound
<1> HIDE DEF x
<1>18. Worth(x, m) = Worth(s, m)
  <2>1. Worth(s, m) \in Nat
    BY WorthNat
  <2>2. r.pot \in Nat /\ share \in Nat
    BY <1>3, <1>9
  <2>3. Worth(x, m) = Worth(s, m) - r.pot + (r.pot - share) + share
    BY <1>15, <1>16, <1>17
  <2> QED BY <2>1, <2>2, <2>3
<1>19. x.post[p] = q /\ x.vote[p] = v /\ x.cq = s.cq
       /\ \A y \in Posts \ {p} : x.post[y] = s.post[y] /\ x.vote[y] = s.vote[y]
  BY <1>15, <1>17
<1>20. Settled(s, x, p, a)
  <2>1. x.post[p] \in PostRec /\ x.post[p].paid = s.post[p].paid
        /\ x.post[p].pot <= s.post[p].pot /\ x.post[p].win = s.post[p].win
        /\ Moved(s.post[p], x.post[p])
    BY <1>10, <1>13, <1>14, <1>19 DEF r
  <2>2. PostOK(x.post[p], x.vote[p])
    BY <1>12, <1>19
  <2>3. x.vote[p][a] = 0 /\ \A b \in Accounts \ {a} : x.vote[p][b] = s.vote[p][b]
    BY <1>7, <1>19 DEF votes
  <2> QED BY <1>17, <1>19, <2>1, <2>2, <2>3 DEF Settled
<1>21. Kept(s, x)
  <2>1. x.post[p] # NoPost /\ x.post[p].win = s.post[p].win
        /\ x.post[p].rshares = s.post[p].rshares /\ x.post[p].paid = s.post[p].paid
        /\ s.post[p] # NoPost
    BY <1>3, <1>10, <1>11, <1>19 DEF r
  <2>2. \A b \in Accounts : x.vote[p][b] \in {0, s.vote[p][b]}
    BY <1>7, <1>19 DEF votes
  <2>3. Grown(s.pend, x.pend)
    BY <1>15, <1>17
  <2> QED BY <1>19, <2>1, <2>2, <2>3, KeptOne
<1> QED BY <1>1, <1>18, <1>20, <1>21

\* A vote whose share rounds to zero is deleted: the others lose nothing.
LEMMA DeletedSound ==
  ASSUME NEW s \in BookType, NEW m \in [Accounts -> Nat], NEW p \in Posts, NEW a \in Accounts,
         s.post[p] \in PostRec, PostOK(s.post[p], s.vote[p]),
         Claimable(s.post[p], s.vote[p][a])
  PROVE  LET x == [s EXCEPT !.vote[p][a] = 0]
         IN  Settled(s, x, p, a) /\ Worth(x, m) = Worth(s, m) /\ Kept(s, x)
<1> DEFINE r     == s.post[p]
           votes == s.vote[p]
           v     == [votes EXCEPT ![a] = 0]
           e     == Edit(s, p, r, v)
           x     == [s EXCEPT !.vote[p][a] = 0]
<1>1. x = e
  <2>1. s.post \in Rows /\ s.vote \in Ballots
    BY DEF BookType
  <2> DEFINE f == s.post
             d == [s.vote EXCEPT ![p] = v]
  <2>2. [f EXCEPT ![p] = f[p]] = f
    <3>1. f \in Rows
      BY <2>1
    <3> HIDE DEF f
    <3> QED BY <3>1 DEF Rows
  <2>3. e = [s EXCEPT !.post = [f EXCEPT ![p] = f[p]], !.vote = d]
    BY DEF Edit
  <2>4. x = [s EXCEPT !.vote = d]
    OBVIOUS
  <2>5. [s EXCEPT !.post = f, !.vote = d] = [s EXCEPT !.vote = d]
    <3>1. s \in [post : Rows, vote : Ballots, cq : [Accounts -> Seq(Posts \union {None})],
                 pend : Pends, bal : [Accounts -> Nat], burned : Nat]
      BY DEF BookType
    <3> HIDE DEF d
    <3> QED BY <3>1
  <2> HIDE DEF e, x, d, f
  <2> QED BY <2>2, <2>3, <2>4, <2>5
<1>2. votes \in [Accounts -> Nat] /\ r \in PostRec /\ PostOK(r, votes)
  BY DEF BookType, Ballots
<1>3. r # NoPost /\ r.paid \in BOOLEAN /\ r.pot \in Nat /\ r.potRshares \in Nat
  BY <1>2, PostFields
<1>4. r.paid /\ r.pot > 0
  BY DEF Claimable
<1>5. Moved(r, r)
  BY <1>2, MovedNot
<1> HIDE DEF votes, r, x
<1>6. /\ v \in [Accounts -> Nat] /\ v[a] = 0 /\ \A b \in Accounts \ {a} : v[b] = votes[b]
      /\ Total(votes, Accounts) \in Nat /\ Total(v, Accounts) \in Nat
      /\ votes[a] \in Nat /\ Total(v, Accounts) <= Total(votes, Accounts)
  <2>1. 0 \in Nat
    OBVIOUS
  <2>2. Total(v, Accounts) = Total(votes, Accounts) - votes[a] + 0
    BY <1>2, <2>1, OneVote, ZenonT(60)
  <2>3. /\ v \in [Accounts -> Nat] /\ v[a] = 0 /\ \A b \in Accounts \ {a} : v[b] = votes[b]
        /\ Total(votes, Accounts) \in Nat /\ Total(v, Accounts) \in Nat /\ votes[a] \in Nat
    BY <1>2, <2>1, OneVote, ZenonT(60)
  <2> QED BY <2>2, <2>3
<1> HIDE DEF v
<1>7. PostOK(r, v)
  <2>1. Total(votes, Accounts) <= r.potRshares
    BY <1>2, <1>3, <1>4 DEF PostOK
  <2>2. Total(v, Accounts) <= r.potRshares
    BY <1>3, <1>6, <2>1
  <2> QED BY <1>3, <1>4, <2>2 DEF PostOK
<1>8. /\ e \in BookType /\ e.cq = s.cq /\ e.pend = s.pend /\ e.post[p] = r /\ e.vote[p] = v
      /\ \A y \in Posts \ {p} : e.post[y] = s.post[y] /\ e.vote[y] = s.vote[y]
      /\ Worth(e, m) = Worth(s, m) - PotOf(s.post[p]) + PotOf(r)
      /\ PotOf(s.post[p]) \in Nat /\ PotOf(r) \in Nat
  BY <1>2, <1>6, EditSound
<1> HIDE DEF e
<1>9. Worth(e, m) = Worth(s, m)
  <2>1. Worth(s, m) \in Nat /\ PotOf(s.post[p]) = PotOf(r)
    BY WorthNat DEF r
  <2> QED BY <1>8, <2>1
<1>10. Settled(s, e, p, a)
  <2>1. e.post[p] \in PostRec /\ e.post[p].paid = s.post[p].paid
        /\ e.post[p].pot <= s.post[p].pot /\ e.post[p].win = s.post[p].win
        /\ Moved(s.post[p], e.post[p])
    BY <1>2, <1>3, <1>5, <1>8 DEF r
  <2>2. PostOK(e.post[p], e.vote[p])
    BY <1>7, <1>8
  <2>3. e.vote[p][a] = 0 /\ \A b \in Accounts \ {a} : e.vote[p][b] = s.vote[p][b]
    BY <1>6, <1>8 DEF votes
  <2> QED BY <1>8, <2>1, <2>2, <2>3 DEF Settled
<1>11. Kept(s, e)
  <2>1. e.post[p] = s.post[p] /\ s.post[p] # NoPost
    BY <1>3, <1>8 DEF r
  <2>2. \A b \in Accounts : e.vote[p][b] \in {0, s.vote[p][b]}
    BY <1>6, <1>8 DEF votes
  <2>3. Grown(s.pend, e.pend)
    <3>1. s.pend \in Pends
      BY DEF BookType
    <3> QED BY <1>8, <3>1, GrownNot
  <2> QED BY <1>8, <2>1, <2>2, <2>3, KeptOne
<1> QED BY <1>1, <1>9, <1>10, <1>11 DEF x

-----------------------------------------------------------------------------
(* The queue of claims.                                                    *)

\* A vote that can still be paid.
Unpaid(s, p, a) == s.vote[p][a] > 0 /\ (s.post[p].paid => s.post[p].pot > 0)

\* The slot of a vote that is not owed any more is given up.
LEMMA SlotEmptied ==
  ASSUME NEW s \in BookType, NEW t \in BookType, NEW m \in [Accounts -> Nat],
         NEW a \in Accounts, NEW n \in DOMAIN s.cq[a], Queued(s), t.cq = s.cq,
         \A q \in Posts, b \in Accounts : Unpaid(t, q, b) => Unpaid(s, q, b),
         \A q \in Posts : Unpaid(t, q, a) => q # s.cq[a][n]
  PROVE  LET x == Requeue(t, a, [t.cq[a] EXCEPT ![n] = None])
         IN  /\ x \in BookType /\ Queued(x) /\ Worth(x, m) = Worth(t, m)
             /\ x.post = t.post /\ x.vote = t.vote /\ x.pend = t.pend /\ Len(x.cq[a]) = Len(s.cq[a])
<1> DEFINE c == t.cq[a]
           d == [c EXCEPT ![n] = None]
           x == Requeue(t, a, d)
<1>1. c \in Seq(Posts \union {None}) /\ c = s.cq[a]
  BY WorthNat
<1>2. n \in DOMAIN c
  BY <1>1
<1> HIDE DEF c
<1>3. d \in Seq(Posts \union {None}) /\ Len(d) = Len(c) /\ DOMAIN d = DOMAIN c
  <2>1. None \in Posts \union {None}
    OBVIOUS
  <2>2. n \in 1 .. Len(c)
    BY <1>1, <1>2
  <2> QED BY <1>1, <2>1, <2>2
<1>4. \A k \in DOMAIN c : k # n => d[k] = c[k]
  OBVIOUS
<1> HIDE DEF d
<1>5. /\ x \in BookType /\ x.post = t.post /\ x.vote = t.vote /\ x.cq[a] = d
      /\ \A b \in Accounts \ {a} : x.cq[b] = t.cq[b]
      /\ x.pend = t.pend /\ Worth(x, m) = Worth(t, m)
  BY <1>3, RequeueSound
<1> HIDE DEF x
<1>6. ASSUME NEW q \in Posts, NEW b \in Accounts, x.vote[q][b] > 0,
             x.post[q].paid => x.post[q].pot > 0
      PROVE  \E k \in DOMAIN x.cq[b] : x.cq[b][k] = q
  <2>1. Unpaid(t, q, b)
    BY <1>5, <1>6 DEF Unpaid
  <2>2. Unpaid(s, q, b)
    BY <2>1
  <2>3. PICK k \in DOMAIN s.cq[b] : s.cq[b][k] = q
    BY <2>2 DEF Unpaid, Queued
  <2>4. CASE b # a
    <3>1. x.cq[b] = s.cq[b]
      BY <1>5, <2>4
    <3> QED BY <2>3, <3>1
  <2>5. CASE b = a
    <3>1. q # c[n] /\ k \in DOMAIN c /\ c[k] = q
      BY <1>1, <2>1, <2>3, <2>5
    <3>2. k # n /\ k \in DOMAIN d
      BY <1>3, <3>1
    <3>3. d[k] = q
      BY <1>4, <3>1, <3>2
    <3> QED BY <1>5, <2>5, <3>2, <3>3
  <2> QED BY <2>4, <2>5
<1>7. Queued(x)
  BY <1>6 DEF Queued
<1> QED BY <1>1, <1>3, <1>5, <1>7 DEF x, d, c

\* What settling the queue of a makes of the books s.
Drained(s, x, a, m) ==
  /\ BooksOK(x) /\ Worth(x, m) = Worth(s, m) /\ Len(x.cq[a]) = Len(s.cq[a])
  /\ Kept(s, x) /\ \A p \in Posts : Moved(s.post[p], x.post[p])

LEMMA DrainedNot ==
  ASSUME NEW s, BooksOK(s), NEW a \in Accounts, NEW m \in [Accounts -> Nat]
  PROVE  Drained(s, s, a, m)
<1>1. s \in BookType
  BY DEF BooksOK
<1>2. s.post \in Rows
  BY <1>1, WorthNat
<1>3. \A p \in Posts : Moved(s.post[p], s.post[p])
  BY <1>2, MovedNot DEF Rows
<1> QED BY <1>1, <1>3, KeptNot DEF Drained

LEMMA DrainedTwice ==
  ASSUME NEW s, BooksOK(s), NEW x, NEW y, NEW a \in Accounts, NEW m \in [Accounts -> Nat],
         Drained(s, x, a, m), Drained(x, y, a, m)
  PROVE  Drained(s, y, a, m)
<1>1. s \in BookType /\ x \in BookType /\ y \in BookType
  BY DEF BooksOK, Drained
<1>2. s.post \in Rows /\ x.post \in Rows /\ y.post \in Rows
  BY <1>1, WorthNat
<1>3. \A p \in Posts : /\ s.post[p] \in PostRec \union {NoPost}
                       /\ x.post[p] \in PostRec \union {NoPost}
                       /\ y.post[p] \in PostRec \union {NoPost}
  BY <1>2 DEF Rows
<1>4. \A p \in Posts : Moved(s.post[p], x.post[p]) /\ Moved(x.post[p], y.post[p])
  BY DEF Drained
<1>5. \A p \in Posts : Moved(s.post[p], y.post[p])
  BY <1>3, <1>4, MovedTwice
<1>6. Kept(s, y)
  BY <1>1, KeptTwice DEF Drained
<1> QED BY <1>5, <1>6 DEF Drained

\* One slot of the queue (DrainCuration).
LEMMA SlotSound ==
  ASSUME NEW s, BooksOK(s), NEW m \in [Accounts -> Nat], NEW a \in Accounts,
         NEW n \in DOMAIN s.cq[a], day \in Nat
  PROVE  Drained(s, SettleSlot(s, a, n), a, m)
<1> DEFINE p == s.cq[a][n]
           r == s.post[p]
           mine == s.vote[p][a]
           y == SettleSlot(s, a, n)
           t == IF ~ Claimable(r, mine) THEN s
                ELSE IF CurationShare(r, mine) = 0 THEN [s EXCEPT !.vote[p][a] = 0]
                ELSE Claimed(s, p, a)
           x == Requeue(t, a, [t.cq[a] EXCEPT ![n] = None])
<1>1. s \in BookType /\ Queued(s) /\ \A q \in Posts : PostOK(s.post[q], s.vote[q])
  BY DEF BooksOK
<1>2. s.post \in Rows /\ s.vote \in Ballots /\ s.cq \in [Accounts -> Seq(Posts \union {None})]
  BY <1>1, WorthNat
<1>3. p \in Posts \union {None}
  BY <1>2
<1>4. y = IF p = None THEN s ELSE IF ~ r.paid THEN s ELSE x
  BY DEF SettleSlot, Requeue
<1>5. CASE y = s
  <2> HIDE DEF y
  <2>1. Drained(s, s, a, m)
    BY DrainedNot
  <2> QED BY <1>5, <2>1 DEF y
<1>6. CASE y # s
  <2>1. p \in Posts /\ r.paid /\ y = x
    BY <1>3, <1>4, <1>6
  <2>2. r \in PostRec \union {NoPost} /\ mine \in Nat /\ PostOK(r, s.vote[p])
    BY <1>1, <1>2, <2>1 DEF Rows, Ballots
  <2> HIDE DEF y
  <2>3. CASE ~ Claimable(r, mine)
    <3>1. t = s
      BY <2>3
    <3>2. ~ Unpaid(s, p, a)
      <4>1. ASSUME mine > 0, r.pot > 0 PROVE FALSE
        <5>1. r # NoPost
          BY <2>2, <4>1 DEF PostOK
        <5>2. r \in PostRec
          BY <2>2, <5>1
        <5>3. r.potRshares \in Nat /\ r.pot \in Nat
          BY <5>2, PostFields
        <5>4. Total(s.vote[p], Accounts) <= r.potRshares
          BY <2>2, <4>1, <5>1 DEF PostOK
        <5>5. s.vote[p] \in [Accounts -> Nat]
          BY <1>2, <2>1 DEF Ballots
        <5>6. mine <= Total(s.vote[p], Accounts) /\ Total(s.vote[p], Accounts) \in Nat
          <6> DEFINE f == s.vote[p]
          <6>1. f \in [Accounts -> Nat] /\ 0 \in Nat
            BY <5>5
          <6> HIDE DEF f
          <6>2. f[a] <= Total(f, Accounts) /\ Total(f, Accounts) \in Nat
            BY <6>1, OneVote
          <6> QED BY <6>2 DEF f
        <5>7. r.potRshares > 0
          BY <2>2, <4>1, <5>3, <5>4, <5>6, SMTT(60)
        <5> QED BY <2>1, <2>3, <4>1, <5>7 DEF Claimable
      <4> QED BY <2>1, <4>1 DEF Unpaid
    <3> DEFINE z == Requeue(s, a, [s.cq[a] EXCEPT ![n] = None])
    <3>3. x = z
      BY <3>1
    <3>4. /\ z \in BookType /\ Queued(z) /\ Worth(z, m) = Worth(s, m)
          /\ z.post = s.post /\ z.vote = s.vote /\ z.pend = s.pend /\ Len(z.cq[a]) = Len(s.cq[a])
      <4>1. \A q \in Posts : Unpaid(s, q, a) => q # p
        BY <3>2
      <4> QED BY <1>1, <4>1, SlotEmptied
    <3> HIDE DEF z, x
    <3>5. BooksOK(z)
      BY <1>1, <3>4 DEF BooksOK
    <3>6. \A q \in Posts : Moved(s.post[q], z.post[q])
      BY <1>2, <3>4, MovedNot DEF Rows
    <3>7. Drained(s, z, a, m)
      <4>1. Kept(s, s)
        BY <1>1, KeptNot
      <4>2. Kept(s, z)
        BY <3>4, <4>1 DEF Kept
      <4> QED BY <3>4, <3>5, <3>6, <4>2 DEF Drained
    <3> QED BY <2>1, <3>3, <3>7 DEF y
  <2>4. CASE Claimable(r, mine)
    <3>1. r \in PostRec
      <4>1. mine > 0
        BY <2>4 DEF Claimable
      <4>2. r # NoPost
        BY <2>2, <4>1 DEF PostOK
      <4> QED BY <2>2, <4>2
    <3>2. Settled(s, t, p, a) /\ Worth(t, m) = Worth(s, m) /\ Kept(s, t)
      <4>1. CASE CurationShare(r, mine) = 0
        <5>1. t = [s EXCEPT !.vote[p][a] = 0]
          BY <2>4, <4>1
        <5> HIDE DEF t
        <5> QED BY <1>1, <2>1, <2>2, <2>4, <3>1, <5>1, DeletedSound
      <4>2. CASE CurationShare(r, mine) # 0
        <5>1. t = Claimed(s, p, a)
          BY <2>4, <4>2
        <5> HIDE DEF t
        <5> QED BY <1>1, <2>1, <2>2, <2>4, <3>1, <5>1, ClaimedSound
      <4> QED BY <4>1, <4>2
    <3> HIDE DEF t
    <3>3. /\ t \in BookType /\ t.cq = s.cq
          /\ \A q \in Posts \ {p} : t.post[q] = s.post[q] /\ t.vote[q] = s.vote[q]
          /\ t.post[p] \in PostRec /\ t.post[p].paid = r.paid /\ t.post[p].pot <= r.pot
          /\ PostOK(t.post[p], t.vote[p]) /\ Moved(r, t.post[p])
          /\ t.vote[p][a] = 0 /\ \A b \in Accounts \ {a} : t.vote[p][b] = s.vote[p][b]
      BY <3>2 DEF Settled
    <3>4. t.post[p].pot \in Nat /\ r.pot \in Nat
      BY <3>1, <3>3, PostFields
    <3>a. t.post[p].pot <= r.pot /\ ~ (t.vote[p][a] > 0)
      <4>1. t.vote[p][a] = 0
        BY <3>3
      <4>2. ~ (t.vote[p][a] > 0)
        BY <4>1
      <4>3. t.post[p].pot <= r.pot
        BY <3>3
      <4> QED BY <4>2, <4>3
    <3>5. \A q \in Posts, b \in Accounts : Unpaid(t, q, b) => Unpaid(s, q, b)
      <4>1. ASSUME NEW q \in Posts, NEW b \in Accounts, Unpaid(t, q, b) PROVE Unpaid(s, q, b)
        <5>1. CASE q # p
          BY <3>3, <4>1, <5>1 DEF Unpaid
        <5>2. CASE q = p
          <6>1. b # a
            BY <3>a, <4>1, <5>2 DEF Unpaid
          <6>2. t.post[p].pot > 0 /\ s.vote[p][b] > 0
            BY <2>1, <3>3, <4>1, <5>2, <6>1 DEF Unpaid
          <6>3. r.pot > 0
            BY <3>a, <3>4, <6>2
          <6> QED BY <5>2, <6>2, <6>3 DEF Unpaid
        <5> QED BY <5>1, <5>2
      <4> QED BY <4>1
    <3>6. \A q \in Posts : Unpaid(t, q, a) => q # p
      BY <3>a DEF Unpaid
    <3>7. /\ x \in BookType /\ Queued(x) /\ Worth(x, m) = Worth(t, m)
          /\ x.post = t.post /\ x.vote = t.vote /\ x.pend = t.pend /\ Len(x.cq[a]) = Len(s.cq[a])
      BY <1>1, <3>3, <3>5, <3>6, SlotEmptied, ZenonT(60)
    <3> HIDE DEF x
    <3>8. \A q \in Posts : PostOK(x.post[q], x.vote[q])
      BY <1>1, <3>3, <3>7
    <3>9. \A q \in Posts : Moved(s.post[q], x.post[q])
      <4>1. ASSUME NEW q \in Posts PROVE Moved(s.post[q], x.post[q])
        <5>1. CASE q = p
          BY <3>3, <3>7, <5>1
        <5>2. CASE q # p
          <6>1. x.post[q] = s.post[q] /\ s.post[q] \in PostRec \union {NoPost}
            BY <1>2, <3>3, <3>7, <5>2 DEF Rows
          <6> QED BY <6>1, MovedNot
        <5> QED BY <5>1, <5>2
      <4> QED BY <4>1
    <3>10. Drained(s, x, a, m)
      <4>1. Kept(s, x)
        BY <3>2, <3>7 DEF Kept
      <4> QED BY <3>2, <3>7, <3>8, <3>9, <4>1 DEF Drained, BooksOK
    <3> QED BY <2>1, <3>10 DEF y
  <2> QED BY <2>3, <2>4
<1> QED BY <1>5, <1>6

\* The head passes settled slots only.
LEMMA HeadSound ==
  ASSUME NEW c \in Seq(Posts \union {None})
  PROVE  /\ AdvanceHead(c) \in Seq(Posts \union {None})
         /\ \A p \in Posts : (\E n \in DOMAIN c : c[n] = p) =>
              \E n \in DOMAIN AdvanceHead(c) : AdvanceHead(c)[n] = p
<1> DEFINE open == {n \in DOMAIN c : c[n] # None}
           k    == CHOOSE n \in open : \A i \in open : n <= i
           d    == SubSeq(c, k, Len(c))
<1>1. DOMAIN c = 1 .. Len(c) /\ Len(c) \in Nat
  OBVIOUS
<1>2. \A p \in Posts, n \in DOMAIN c : c[n] = p => n \in open
  BY PobConstants
<1>3. CASE open = {}
  <2>1. AdvanceHead(c) = <<>>
    BY <1>3 DEF AdvanceHead
  <2> QED BY <1>2, <1>3, <2>1
<1>4. CASE open # {}
  <2>1. AdvanceHead(c) = d
    BY <1>4 DEF AdvanceHead
  <2>2. k \in open /\ \A i \in open : k <= i
    <3>1. open \subseteq Nat
      BY <1>1
    <3> HIDE DEF open
    <3>2. \E n \in open : \A i \in open : n <= i
      BY <1>4, <3>1, LeastExists
    <3> QED BY <3>2
  <2>3. k \in 1 .. Len(c)
    BY <1>1, <2>2
  <2> HIDE DEF k, open
  <2>4. \A i \in k .. Len(c) : c[i] \in Posts \union {None}
    BY <1>1, <2>3
  <2>5. /\ d \in Seq(Posts \union {None}) /\ Len(d) = Len(c) - k + 1
        /\ \A i \in 1 .. Len(c) - k + 1 : d[i] = c[k + i - 1]
    <3>1. k \in Int /\ Len(c) \in Int /\ k <= Len(c)
      BY <1>1, <2>3
    <3> HIDE DEF d
    <3>2. /\ SubSeq(c, k, Len(c)) \in Seq(Posts \union {None})
          /\ Len(SubSeq(c, k, Len(c))) = IF k <= Len(c) THEN Len(c) - k + 1 ELSE 0
          /\ \A i \in 1 .. Len(c) - k + 1 : SubSeq(c, k, Len(c))[i] = c[k + i - 1]
      BY <2>4, <3>1, SubSeqProperties
    <3> QED BY <3>1, <3>2 DEF d
  <2> HIDE DEF d
  <2>6. ASSUME NEW p \in Posts, NEW n \in DOMAIN c, c[n] = p
        PROVE  \E i \in DOMAIN d : d[i] = p
    <3>1. n \in open
      BY <1>2, <2>6
    <3>2. k <= n /\ n <= Len(c)
      BY <1>1, <2>2, <3>1
    <3>3. n - k + 1 \in 1 .. Len(c) - k + 1 /\ k + (n - k + 1) - 1 = n
      BY <1>1, <2>3, <3>2
    <3>4. d[n - k + 1] = c[k + (n - k + 1) - 1]
      BY <2>5, <3>3
    <3>5. n - k + 1 \in DOMAIN d
      BY <2>5, <3>3
    <3> QED BY <2>6, <3>3, <3>4, <3>5
  <2> QED BY <2>1, <2>5, <2>6
<1> QED BY <1>3, <1>4

\* The table of a drain's turns exists.
LEMMA TurnsExist ==
  ASSUME NEW s, NEW a, NEW n \in Nat
  PROVE  \E f : f = [i \in 0 .. n |-> IF i = 0 THEN s ELSE SettleSlot(f[i - 1], a, i)]
<1> DEFINE T(k, f) == f = [i \in 0 .. k |-> IF i = 0 THEN s ELSE SettleSlot(f[i - 1], a, i)]
           S == {k \in Nat : \E f : T(k, f)}
<1>1. 0 \in S
  <2> DEFINE f == [i \in 0 .. 0 |-> s]
  <2>1. f = [i \in 0 .. 0 |-> IF i = 0 THEN s ELSE SettleSlot(f[i - 1], a, i)]
    OBVIOUS
  <2> HIDE DEF f
  <2>2. T(0, f)
    BY <2>1
  <2> QED BY <2>2
<1>2. ASSUME NEW k \in S PROVE k + 1 \in S
  <2>1. k \in Nat
    OBVIOUS
  <2>2. PICK f : T(k, f)
    OBVIOUS
  <2> DEFINE g == [i \in 0 .. k + 1 |-> IF i = k + 1 THEN SettleSlot(f[k], a, k + 1) ELSE f[i]]
             h == [i \in 0 .. k + 1 |-> IF i = 0 THEN s ELSE SettleSlot(g[i - 1], a, i)]
  <2>3. ASSUME NEW i \in 0 .. k + 1 PROVE g[i] = h[i]
    <3>1. CASE i = 0
      <4>1. f[0] = s
        BY <2>1, <2>2
      <4>2. g[0] = f[0] /\ h[0] = s
        BY <2>1
      <4> QED BY <3>1, <4>1, <4>2
    <3>2. CASE i = k + 1
      <4>1. g[i] = SettleSlot(f[k], a, i)
        BY <3>2
      <4>2. h[i] = SettleSlot(g[i - 1], a, i)
        BY <2>1, <3>2
      <4>3. i - 1 = k /\ k \in 0 .. k + 1 /\ k # k + 1
        BY <2>1, <3>2
      <4>4. g[i - 1] = f[k]
        BY <4>3
      <4> QED BY <4>1, <4>2, <4>4
    <3>3. CASE i \in 1 .. k
      <4>1. i - 1 \in 0 .. k + 1 /\ i - 1 # k + 1 /\ i # k + 1 /\ i # 0
            /\ i \in 0 .. k
        BY <2>1, <3>3
      <4>2. g[i] = f[i] /\ g[i - 1] = f[i - 1] /\ h[i] = SettleSlot(g[i - 1], a, i)
        BY <4>1
      <4>3. f[i] = SettleSlot(f[i - 1], a, i)
        BY <2>2, <4>1
      <4> QED BY <4>2, <4>3
    <3> QED BY <2>1, <3>1, <3>2, <3>3
  <2>4. g = h
    <3>1. DOMAIN g = 0 .. k + 1 /\ DOMAIN h = 0 .. k + 1
      OBVIOUS
    <3>2. g = [i \in 0 .. k + 1 |-> g[i]] /\ h = [i \in 0 .. k + 1 |-> h[i]]
      OBVIOUS
    <3> HIDE DEF g, h
    <3> QED BY <2>3, <3>2
  <2>5. T(k + 1, g)
    BY <2>4
  <2> HIDE DEF g, h, T
  <2>6. k + 1 \in Nat
    BY <2>1
  <2> QED BY <2>5, <2>6
<1>3. S = Nat
  <2> HIDE DEF S
  <2>1. S \subseteq Nat
    BY DEF S
  <2> QED BY <1>1, <1>2, <2>1, SetInduction
<1>4. n \in S
  BY <1>3
<1> QED BY <1>4

\* Draining a queue keeps the books, and what they are worth (DrainCuration).
LEMMA DrainSound ==
  ASSUME NEW s, BooksOK(s), NEW m \in [Accounts -> Nat], NEW a \in Accounts, NEW max \in Nat,
         day \in Nat
  PROVE  LET x == DrainCuration(s, a, max)
         IN  /\ BooksOK(x) /\ Worth(x, m) = Worth(s, m)
             /\ Kept(s, x) /\ \A p \in Posts : Moved(s.post[p], x.post[p])
<1> DEFINE n == AtMost(max, Len(s.cq[a]))
           f == CHOOSE f : f = [i \in 0 .. n |-> IF i = 0 THEN s ELSE SettleSlot(f[i - 1], a, i)]
           t == f[n]
           c == t.cq[a]
           x == DrainCuration(s, a, max)
<1>1. s \in BookType /\ s.cq \in [Accounts -> Seq(Posts \union {None})]
  BY WorthNat DEF BooksOK
<1>2. n \in Nat /\ n <= Len(s.cq[a]) /\ Len(s.cq[a]) \in Nat
  <2>1. Len(s.cq[a]) \in Nat
    BY <1>1
  <2> QED BY <2>1 DEF AtMost
<1>3. x = Requeue(t, a, AdvanceHead(c))
  BY DEF DrainCuration, Requeue
<1> HIDE DEF n
<1>4. f = [i \in 0 .. n |-> IF i = 0 THEN s ELSE SettleSlot(f[i - 1], a, i)]
  BY <1>2, TurnsExist, SMTT(60)
<1> HIDE DEF f
<1>5. Drained(s, t, a, m)
  <2> DEFINE S == {i \in Nat : i <= n => Drained(s, f[i], a, m)}
  <2>1. 0 \in S
    <3>1. f[0] = s
      BY <1>2, <1>4
    <3> QED BY <3>1, DrainedNot
  <2>2. ASSUME NEW i \in S PROVE i + 1 \in S
    <3>1. i \in Nat
      OBVIOUS
    <3>2. ASSUME i + 1 <= n PROVE Drained(s, f[i + 1], a, m)
      <4>1. Drained(s, f[i], a, m)
        BY <1>2, <3>1, <3>2
      <4>2. i + 1 \in 0 .. n /\ i + 1 # 0 /\ (i + 1) - 1 = i
        BY <1>2, <3>1, <3>2
      <4>3. f[i + 1] = SettleSlot(f[(i + 1) - 1], a, i + 1)
        BY <1>4, <4>2
      <4>4. f[i + 1] = SettleSlot(f[i], a, i + 1)
        BY <4>2, <4>3
      <4> DEFINE y == f[i]
      <4>5. Drained(s, y, a, m)
        BY <4>1
      <4> HIDE DEF y
      <4>6. BooksOK(y) /\ Len(y.cq[a]) = Len(s.cq[a])
        BY <4>5 DEF Drained
      <4>7. i + 1 \in DOMAIN y.cq[a]
        <5>1. y.cq[a] \in Seq(Posts \union {None})
          BY <4>6, WorthNat DEF BooksOK
        <5>2. DOMAIN y.cq[a] = 1 .. Len(s.cq[a])
          BY <4>6, <5>1
        <5> QED BY <1>2, <3>1, <3>2, <5>2
      <4>8. Drained(y, SettleSlot(y, a, i + 1), a, m)
        BY <4>6, <4>7, SlotSound
      <4>9. Drained(s, SettleSlot(y, a, i + 1), a, m)
        BY <4>5, <4>8, DrainedTwice
      <4> QED BY <4>4, <4>9 DEF y
    <3> QED BY <3>1, <3>2
  <2>3. S = Nat
    <3> HIDE DEF S
    <3>1. S \subseteq Nat
      BY DEF S
    <3> QED BY <2>1, <2>2, <3>1, SetInduction
  <2>4. n \in S
    BY <1>2, <2>3
  <2> QED BY <1>2, <2>4
<1> HIDE DEF t, x
<1>6. /\ BooksOK(t) /\ Worth(t, m) = Worth(s, m) /\ Kept(s, t)
      /\ \A p \in Posts : Moved(s.post[p], t.post[p])
  BY <1>5 DEF Drained
<1>7. t \in BookType /\ c \in Seq(Posts \union {None})
  BY <1>6, WorthNat DEF BooksOK
<1> DEFINE d == AdvanceHead(c)
           y == Requeue(t, a, d)
<1> HIDE DEF c
<1>8. /\ d \in Seq(Posts \union {None})
      /\ \A p \in Posts : (\E i \in DOMAIN c : c[i] = p) => \E i \in DOMAIN d : d[i] = p
  BY <1>7, HeadSound
<1>9. c = t.cq[a]
  BY DEF c
<1> HIDE DEF d
<1>10. /\ y \in BookType /\ y.post = t.post /\ y.vote = t.vote /\ y.cq[a] = d
       /\ \A b \in Accounts \ {a} : y.cq[b] = t.cq[b]
       /\ y.pend = t.pend /\ Worth(y, m) = Worth(t, m)
  BY <1>7, <1>8, RequeueSound
<1> HIDE DEF y
<1>11. Queued(y)
  <2>1. ASSUME NEW p \in Posts, NEW b \in Accounts, y.vote[p][b] > 0,
               y.post[p].paid => y.post[p].pot > 0
        PROVE  \E i \in DOMAIN y.cq[b] : y.cq[b][i] = p
    <3>1. t.vote[p][b] > 0 /\ (t.post[p].paid => t.post[p].pot > 0)
      BY <1>10, <2>1
    <3>2. \E i \in DOMAIN t.cq[b] : t.cq[b][i] = p
      BY <1>6, <3>1 DEF BooksOK, Queued
    <3>3. CASE b = a
      BY <1>8, <1>9, <1>10, <3>2, <3>3
    <3>4. CASE b # a
      BY <1>10, <3>2, <3>4
    <3> QED BY <3>3, <3>4
  <2> QED BY <2>1 DEF Queued
<1>12. BooksOK(y)
  BY <1>6, <1>10, <1>11 DEF BooksOK
<1>13. x = y
  BY <1>3 DEF y, d
<1>14. Kept(s, y)
  BY <1>6, <1>10 DEF Kept
<1> QED BY <1>6, <1>10, <1>12, <1>13, <1>14 DEF x

-----------------------------------------------------------------------------
(* How far drains reach.                                                   *)

\* A slot that a turn gives up: it is empty, or its post has paid.
Free(s, q) == q = None \/ (s.post[q] # NoPost /\ s.post[q].paid)

\* What turns at the slots D of the queue of a make of the books s: a vote is
\* settled or left as it was, free slots of D are emptied, no slot is changed
\* otherwise.
Turned(s, x, a, D) ==
  /\ BooksOK(x) /\ \A q \in Posts : Moved(s.post[q], x.post[q])
  /\ \A q \in Posts : x.vote[q][a] = 0 \/ (x.vote[q][a] = s.vote[q][a] /\ x.post[q] = s.post[q])
  /\ DOMAIN x.cq[a] = DOMAIN s.cq[a]
  /\ \A b \in Accounts \ {a} : x.cq[b] = s.cq[b]
  /\ \A k \in DOMAIN s.cq[a] : x.cq[a][k] = s.cq[a][k] \/ x.cq[a][k] = None
  /\ \A k \in D : k \in DOMAIN s.cq[a] /\ Free(s, s.cq[a][k]) => x.cq[a][k] = None

LEMMA TurnedNot ==
  ASSUME NEW s, BooksOK(s), NEW a \in Accounts
  PROVE  Turned(s, s, a, {})
<1>1. \A p \in Posts : Moved(s.post[p], s.post[p])
  <2>1. s.post \in Rows
    BY DEF BooksOK, BookType
  <2> QED BY <2>1, MovedNot DEF Rows
<1> QED BY <1>1 DEF Turned

\* A free slot stays free.
LEMMA FreeStays ==
  ASSUME NEW s, NEW x, NEW q \in Posts \union {None}, Free(s, q),
         \A p \in Posts : Moved(s.post[p], x.post[p])
  PROVE  Free(x, q)
BY DEF Free, Moved

LEMMA TurnedTwice ==
  ASSUME NEW s, BooksOK(s), NEW x, NEW y, NEW a \in Accounts, NEW D, NEW E,
         Turned(s, x, a, D), Turned(x, y, a, E)
  PROVE  Turned(s, y, a, D \union E)
<1>1. s \in BookType /\ x \in BookType /\ y \in BookType
  BY DEF BooksOK, Turned
<1>2. s.post \in Rows /\ x.post \in Rows /\ y.post \in Rows /\ s.cq[a] \in Seq(Posts \union {None})
  BY <1>1 DEF BookType
<1>3. \A p \in Posts : /\ s.post[p] \in PostRec \union {NoPost}
                       /\ x.post[p] \in PostRec \union {NoPost}
                       /\ y.post[p] \in PostRec \union {NoPost}
  BY <1>2 DEF Rows
<1>4. /\ \A p \in Posts : Moved(s.post[p], x.post[p]) /\ Moved(x.post[p], y.post[p])
      /\ BooksOK(y)
  BY DEF Turned
<1>5. \A p \in Posts : Moved(s.post[p], y.post[p])
  BY <1>3, <1>4, MovedTwice
<1>6. \A q \in Posts : y.vote[q][a] = 0 \/ (y.vote[q][a] = s.vote[q][a] /\ y.post[q] = s.post[q])
  BY DEF Turned
<1>7. /\ DOMAIN y.cq[a] = DOMAIN s.cq[a] /\ DOMAIN x.cq[a] = DOMAIN s.cq[a]
      /\ \A b \in Accounts \ {a} : y.cq[b] = s.cq[b]
  BY DEF Turned
<1>8. \A k \in DOMAIN s.cq[a] : y.cq[a][k] = s.cq[a][k] \/ y.cq[a][k] = None
  BY <1>7 DEF Turned
<1>9. ASSUME NEW k \in D \union E, k \in DOMAIN s.cq[a], Free(s, s.cq[a][k])
      PROVE  y.cq[a][k] = None
  <2>1. x.cq[a][k] = s.cq[a][k] \/ x.cq[a][k] = None
    BY <1>9 DEF Turned
  <2>2. CASE x.cq[a][k] = None
    <3>1. y.cq[a][k] = x.cq[a][k] \/ y.cq[a][k] = None
      BY <1>7, <1>9 DEF Turned
    <3> QED BY <2>2, <3>1
  <2>3. CASE x.cq[a][k] # None
    <3>1. k \in E
      BY <1>9, <2>3 DEF Turned
    <3>2. s.cq[a][k] \in Posts \union {None}
      BY <1>2, <1>9
    <3>3. Free(x, s.cq[a][k])
      BY <1>4, <1>9, <3>2, FreeStays
    <3>4. x.cq[a][k] = s.cq[a][k]
      BY <2>1, <2>3
    <3> QED BY <1>7, <1>9, <3>1, <3>3, <3>4 DEF Turned
  <2> QED BY <2>2, <2>3
<1> QED BY <1>4, <1>5, <1>6, <1>7, <1>8, <1>9 DEF Turned

\* One slot (DrainCuration).
LEMMA TurnSound ==
  ASSUME NEW s, BooksOK(s), NEW a \in Accounts, NEW n \in DOMAIN s.cq[a], day \in Nat
  PROVE  Turned(s, SettleSlot(s, a, n), a, {n})
<1> DEFINE p == s.cq[a][n]
           r == s.post[p]
           mine == s.vote[p][a]
           y == SettleSlot(s, a, n)
           t == IF ~ Claimable(r, mine) THEN s
                ELSE IF CurationShare(r, mine) = 0 THEN [s EXCEPT !.vote[p][a] = 0]
                ELSE Claimed(s, p, a)
           x == Requeue(t, a, [t.cq[a] EXCEPT ![n] = None])
           m == [b \in Accounts |-> 0]
<1>1. s \in BookType /\ \A q \in Posts : PostOK(s.post[q], s.vote[q])
  BY DEF BooksOK
<1>2. s.post \in Rows /\ s.vote \in Ballots /\ s.cq \in [Accounts -> Seq(Posts \union {None})]
  BY <1>1 DEF BookType
<1>3. p \in Posts \union {None}
  BY <1>2
<1>4. y = IF p = None THEN s ELSE IF ~ r.paid THEN s ELSE x
  BY DEF SettleSlot, Requeue
<1>5. Drained(s, y, a, m)
  <2>1. m \in [Accounts -> Nat]
    OBVIOUS
  <2> HIDE DEF m, y
  <2>2. Drained(s, SettleSlot(s, a, n), a, m)
    BY <2>1, SlotSound
  <2> QED BY <2>2 DEF y
<1>6. BooksOK(y) /\ \A q \in Posts : Moved(s.post[q], y.post[q])
  BY <1>5 DEF Drained
<1>7. CASE p = None \/ ~ r.paid
  <2>1. y = s
    BY <1>4, <1>7
  <2>2. Free(s, p) => p = None
    BY <1>7, <1>3 DEF Free
  <2> HIDE DEF y
  <2> QED BY <1>6, <2>1, <2>2 DEF Turned, y
<1>8. CASE p # None /\ r.paid
  <2>1. y = x /\ p \in Posts
    BY <1>3, <1>4, <1>8
  <2>2. r \in PostRec \union {NoPost} /\ mine \in Nat /\ PostOK(r, s.vote[p])
    BY <1>1, <1>2, <2>1 DEF Rows, Ballots
  <2>3. /\ t \in BookType /\ t.cq = s.cq
        /\ \A q \in Posts \ {p} : t.post[q] = s.post[q] /\ t.vote[q] = s.vote[q]
        /\ t.vote[p][a] = 0 \/ t = s
    <3>1. CASE ~ Claimable(r, mine)
      <4>1. t = s
        BY <3>1
      <4> HIDE DEF t
      <4> QED BY <1>1, <4>1
    <3>2. CASE Claimable(r, mine)
      <4>1. r \in PostRec
        <5>1. mine > 0
          BY <3>2 DEF Claimable
        <5>2. r # NoPost
          BY <2>2, <5>1 DEF PostOK
        <5> QED BY <2>2, <5>2
      <4>0. m \in [Accounts -> Nat]
        OBVIOUS
      <4>2. Settled(s, t, p, a)
        <5> HIDE DEF m
        <5>1. CASE CurationShare(r, mine) = 0
          <6>1. t = [s EXCEPT !.vote[p][a] = 0]
            BY <3>2, <5>1
          <6> HIDE DEF t
          <6> QED BY <1>1, <2>1, <2>2, <3>2, <4>0, <4>1, <6>1, DeletedSound
        <5>2. CASE CurationShare(r, mine) # 0
          <6>1. t = Claimed(s, p, a)
            BY <3>2, <5>2
          <6> HIDE DEF t
          <6> QED BY <1>1, <2>1, <2>2, <3>2, <4>0, <4>1, <6>1, ClaimedSound
        <5> QED BY <5>1, <5>2
      <4> HIDE DEF t
      <4> QED BY <4>2 DEF Settled
    <3> QED BY <3>1, <3>2
  <2> HIDE DEF t
  <2>4. t.cq[a] \in Seq(Posts \union {None}) /\ t.cq[a] = s.cq[a]
    BY <1>2, <2>3
  <2> DEFINE c == t.cq[a]
             d == [c EXCEPT ![n] = None]
  <2>5. d \in Seq(Posts \union {None}) /\ DOMAIN d = DOMAIN c /\ d[n] = None
        /\ \A k \in DOMAIN c : d[k] = c[k] \/ d[k] = None
    <3>1. c \in Seq(Posts \union {None}) /\ n \in DOMAIN c /\ n \in 1 .. Len(c)
      BY <2>4
    <3> HIDE DEF c
    <3> QED BY <3>1
  <2>6. /\ x.post = t.post /\ x.vote = t.vote /\ x.cq[a] = d
        /\ \A b \in Accounts \ {a} : x.cq[b] = t.cq[b]
    <3>1. x = Requeue(t, a, d) /\ m \in [Accounts -> Nat]
      OBVIOUS
    <3> HIDE DEF x, d, m
    <3> QED BY <2>3, <2>5, <3>1, RequeueSound
  <2> HIDE DEF x, d, y
  <2>7. \A q \in Posts : x.vote[q][a] = 0 \/ (x.vote[q][a] = s.vote[q][a] /\ x.post[q] = s.post[q])
    BY <2>3, <2>6
  <2> QED BY <1>6, <2>1, <2>3, <2>4, <2>5, <2>6, <2>7 DEF Turned, y, c
<1> QED BY <1>7, <1>8

\* The head passes so many slots at least, and what is left was queued.
LEMMA HeadPasses ==
  ASSUME NEW c \in Seq(Posts \union {None}), NEW j \in 0 .. Len(c),
         \A k \in 1 .. j : c[k] = None
  PROVE  /\ Len(AdvanceHead(c)) \in Nat /\ Len(AdvanceHead(c)) + j <= Len(c)
         /\ \A i \in DOMAIN AdvanceHead(c) : \E k \in DOMAIN c : AdvanceHead(c)[i] = c[k]
<1> DEFINE open == {n \in DOMAIN c : c[n] # None}
           k    == CHOOSE n \in open : \A i \in open : n <= i
           d    == SubSeq(c, k, Len(c))
<1>1. DOMAIN c = 1 .. Len(c) /\ Len(c) \in Nat
  OBVIOUS
<1>3. CASE open = {}
  <2>1. AdvanceHead(c) = <<>>
    BY <1>3 DEF AdvanceHead
  <2> QED BY <1>1, <2>1
<1>4. CASE open # {}
  <2>1. AdvanceHead(c) = d
    BY <1>4 DEF AdvanceHead
  <2>2. k \in open
    <3>1. open \subseteq Nat
      BY <1>1
    <3> HIDE DEF open
    <3>2. \E n \in open : \A i \in open : n <= i
      BY <1>4, <3>1, LeastExists
    <3> QED BY <3>2
  <2>3. k \in 1 .. Len(c) /\ k > j
    BY <1>1, <2>2
  <2> HIDE DEF k, open
  <2>4. \A i \in k .. Len(c) : c[i] \in Posts \union {None}
    BY <1>1, <2>3
  <2>5. /\ d \in Seq(Posts \union {None}) /\ Len(d) = Len(c) - k + 1
        /\ \A i \in 1 .. Len(c) - k + 1 : d[i] = c[k + i - 1]
    <3>1. k \in Int /\ Len(c) \in Int /\ k <= Len(c)
      BY <1>1, <2>3
    <3> HIDE DEF d
    <3>2. /\ SubSeq(c, k, Len(c)) \in Seq(Posts \union {None})
          /\ Len(SubSeq(c, k, Len(c))) = IF k <= Len(c) THEN Len(c) - k + 1 ELSE 0
          /\ \A i \in 1 .. Len(c) - k + 1 : SubSeq(c, k, Len(c))[i] = c[k + i - 1]
      BY <2>4, <3>1, SubSeqProperties
    <3> QED BY <3>1, <3>2 DEF d
  <2> HIDE DEF d
  <2>6. ASSUME NEW i \in DOMAIN d PROVE \E n \in DOMAIN c : d[i] = c[n]
    <3>1. i \in 1 .. Len(c) - k + 1
      BY <2>5, <2>6
    <3>2. k + i - 1 \in DOMAIN c
      BY <1>1, <2>3, <3>1
    <3> QED BY <2>5, <3>1, <3>2
  <2> QED BY <1>1, <2>1, <2>3, <2>5, <2>6
<1> QED BY <1>3, <1>4

\* What a drain of at most max slots of the queue of a makes of the books s.
Emptied(s, x, a, max) ==
  /\ BooksOK(x) /\ \A q \in Posts : Moved(s.post[q], x.post[q])
  /\ \A q \in Posts : x.vote[q][a] = 0 \/ (x.vote[q][a] = s.vote[q][a] /\ x.post[q] = s.post[q])
  /\ \A b \in Accounts \ {a} : x.cq[b] = s.cq[b]
  /\ \A i \in DOMAIN x.cq[a] :
       x.cq[a][i] = None \/ \E k \in DOMAIN s.cq[a] : x.cq[a][i] = s.cq[a][k]
  /\ (\A k \in DOMAIN s.cq[a] : Free(s, s.cq[a][k])) =>
       Len(x.cq[a]) + AtMost(max, Len(s.cq[a])) <= Len(s.cq[a])

LEMMA DrainEmpties ==
  ASSUME NEW s, BooksOK(s), NEW a \in Accounts, NEW max \in Nat, day \in Nat
  PROVE  Emptied(s, DrainCuration(s, a, max), a, max)
<1> DEFINE n == AtMost(max, Len(s.cq[a]))
           f == CHOOSE f : f = [i \in 0 .. n |-> IF i = 0 THEN s ELSE SettleSlot(f[i - 1], a, i)]
           t == f[n]
           c == t.cq[a]
           x == DrainCuration(s, a, max)
           m == [b \in Accounts |-> 0]
<1>1. s \in BookType /\ s.cq \in [Accounts -> Seq(Posts \union {None})]
  BY DEF BooksOK, BookType
<1>2. n \in Nat /\ n <= Len(s.cq[a]) /\ Len(s.cq[a]) \in Nat
  <2>1. Len(s.cq[a]) \in Nat
    BY <1>1
  <2> QED BY <2>1 DEF AtMost
<1>3. x = Requeue(t, a, AdvanceHead(c))
  BY DEF DrainCuration, Requeue
<1> HIDE DEF n
<1>4. f = [i \in 0 .. n |-> IF i = 0 THEN s ELSE SettleSlot(f[i - 1], a, i)]
  BY <1>2, TurnsExist, SMTT(60)
<1> HIDE DEF f
<1>5. Turned(s, t, a, 1 .. n)
  <2> DEFINE S == {i \in Nat : i <= n => Turned(s, f[i], a, 1 .. i)}
  <2>1. 0 \in S
    <3>1. f[0] = s
      BY <1>2, <1>4
    <3>2. 1 .. 0 = {}
      OBVIOUS
    <3>3. Turned(s, f[0], a, 1 .. 0)
      BY <3>1, <3>2, TurnedNot
    <3> QED BY <3>3
  <2>2. ASSUME NEW i \in S PROVE i + 1 \in S
    <3>1. i \in Nat
      OBVIOUS
    <3>2. ASSUME i + 1 <= n PROVE Turned(s, f[i + 1], a, 1 .. i + 1)
      <4>1. Turned(s, f[i], a, 1 .. i)
        BY <1>2, <3>1, <3>2
      <4>2. i + 1 \in 0 .. n /\ i + 1 # 0 /\ (i + 1) - 1 = i
        BY <1>2, <3>1, <3>2
      <4>3. f[i + 1] = SettleSlot(f[(i + 1) - 1], a, i + 1)
        BY <1>4, <4>2
      <4>4. f[i + 1] = SettleSlot(f[i], a, i + 1)
        BY <4>2, <4>3
      <4> DEFINE y == f[i]
      <4>5. Turned(s, y, a, 1 .. i)
        BY <4>1
      <4> HIDE DEF y
      <4>6. BooksOK(y) /\ DOMAIN y.cq[a] = DOMAIN s.cq[a]
        BY <4>5 DEF Turned
      <4>7. i + 1 \in DOMAIN y.cq[a]
        <5>1. DOMAIN y.cq[a] = 1 .. Len(s.cq[a])
          BY <1>1, <4>6
        <5> QED BY <1>2, <3>1, <3>2, <5>1
      <4>8. Turned(y, SettleSlot(y, a, i + 1), a, {i + 1})
        BY <4>6, <4>7, TurnSound
      <4>9. Turned(s, SettleSlot(y, a, i + 1), a, (1 .. i) \union {i + 1})
        BY <4>5, <4>8, TurnedTwice
      <4>10. (1 .. i) \union {i + 1} = 1 .. i + 1
        BY <3>1
      <4> QED BY <4>4, <4>9, <4>10 DEF y
    <3> QED BY <3>1, <3>2
  <2>3. S = Nat
    <3> HIDE DEF S
    <3>1. S \subseteq Nat
      BY DEF S
    <3> QED BY <2>1, <2>2, <3>1, SetInduction
  <2>4. n \in S
    BY <1>2, <2>3
  <2> QED BY <1>2, <2>4
<1> HIDE DEF t, x
<1>6. /\ BooksOK(t) /\ \A q \in Posts : Moved(s.post[q], t.post[q])
      /\ \A q \in Posts : t.vote[q][a] = 0 \/ (t.vote[q][a] = s.vote[q][a] /\ t.post[q] = s.post[q])
      /\ DOMAIN c = DOMAIN s.cq[a] /\ \A b \in Accounts \ {a} : t.cq[b] = s.cq[b]
      /\ \A k \in DOMAIN s.cq[a] : c[k] = s.cq[a][k] \/ c[k] = None
      /\ \A k \in 1 .. n : k \in DOMAIN s.cq[a] /\ Free(s, s.cq[a][k]) => c[k] = None
  BY <1>5 DEF Turned
<1>7. t \in BookType /\ c \in Seq(Posts \union {None})
  BY <1>6 DEF BooksOK, BookType
<1>8. DOMAIN c = 1 .. Len(c) /\ DOMAIN s.cq[a] = 1 .. Len(s.cq[a]) /\ Len(c) = Len(s.cq[a])
  BY <1>1, <1>6, <1>7
<1> DEFINE d == AdvanceHead(c)
<1> HIDE DEF c
<1>9. d \in Seq(Posts \union {None})
  BY <1>7, HeadSound
<1>10. /\ x.post = t.post /\ x.vote = t.vote /\ x.cq[a] = d
       /\ \A b \in Accounts \ {a} : x.cq[b] = t.cq[b]
  <2>1. m \in [Accounts -> Nat]
    OBVIOUS
  <2> HIDE DEF d, m
  <2> QED BY <1>3, <1>7, <1>9, <2>1, RequeueSound DEF d
<1>11. BooksOK(x)
  <2>1. m \in [Accounts -> Nat]
    OBVIOUS
  <2> HIDE DEF m
  <2> QED BY <2>1, DrainSound DEF x
<1>12. \A i \in DOMAIN d : \E k \in DOMAIN c : d[i] = c[k]
  <2>1. 0 \in 0 .. Len(c) /\ \A k \in 1 .. 0 : c[k] = None
    BY <1>7
  <2> QED BY <1>7, <2>1, HeadPasses
<1>13. ASSUME \A k \in DOMAIN s.cq[a] : Free(s, s.cq[a][k])
       PROVE  Len(d) + n <= Len(s.cq[a])
  <2>1. n \in 0 .. Len(c) /\ \A k \in 1 .. n : c[k] = None
    BY <1>2, <1>6, <1>8, <1>13
  <2>2. Len(AdvanceHead(c)) + n <= Len(c)
    BY <1>7, <2>1, HeadPasses
  <2> QED BY <1>8, <2>2
<1> HIDE DEF d
<1>14. \A i \in DOMAIN d : d[i] = None \/ \E k \in DOMAIN s.cq[a] : d[i] = s.cq[a][k]
  <2> TAKE i \in DOMAIN d
  <2>1. PICK k \in DOMAIN c : d[i] = c[k]
    BY <1>12
  <2>2. k \in DOMAIN s.cq[a] /\ (c[k] = s.cq[a][k] \/ c[k] = None)
    BY <1>6, <2>1 DEF c
  <2> QED BY <2>1, <2>2
<1> QED BY <1>6, <1>10, <1>11, <1>13, <1>14 DEF Emptied, x, n

\* Every slot that is taken is that of a registered post.
Known(s) ==
  \A b \in Accounts : \A n \in DOMAIN s.cq[b] : s.cq[b][n] # None => s.post[s.cq[b][n]] # NoPost

LEMMA DrainKnown ==
  ASSUME NEW s, BooksOK(s), Known(s), NEW a \in Accounts, NEW max \in Nat, day \in Nat
  PROVE  Known(DrainCuration(s, a, max))
<1> DEFINE x == DrainCuration(s, a, max)
<1>1. Emptied(s, x, a, max)
  BY DrainEmpties
<1> HIDE DEF x
<1>2. x \in BookType /\ x.cq \in [Accounts -> Seq(Posts \union {None})]
  BY <1>1 DEF BooksOK, BookType, Emptied
<1>3. \A q \in Posts : s.post[q] # NoPost => x.post[q] # NoPost
  BY <1>1 DEF Emptied, Moved
<1>4. ASSUME NEW b \in Accounts, NEW n \in DOMAIN x.cq[b], x.cq[b][n] # None
      PROVE  x.post[x.cq[b][n]] # NoPost
  <2>1. x.cq[b][n] \in Posts
    BY <1>2, <1>4
  <2>2. \E k \in DOMAIN s.cq[b] : x.cq[b][n] = s.cq[b][k]
    <3>1. CASE b = a
      BY <1>1, <1>4, <3>1 DEF Emptied
    <3>2. CASE b # a
      BY <1>1, <1>4, <3>2 DEF Emptied
    <3> QED BY <3>1, <3>2
  <2> QED BY <1>3, <1>4, <2>1, <2>2 DEF Known
<1> QED BY <1>4 DEF Known, x

\* The table of a queue's drains exists.
LEMMA DrainsExist ==
  ASSUME NEW s, NEW a, NEW max, NEW n \in Nat
  PROVE  \E f : f = [i \in 0 .. n |-> IF i = 0 THEN s ELSE DrainCuration(f[i - 1], a, max)]
<1> DEFINE T(k, f) == f = [i \in 0 .. k |-> IF i = 0 THEN s ELSE DrainCuration(f[i - 1], a, max)]
           S == {k \in Nat : \E f : T(k, f)}
<1>1. 0 \in S
  <2> DEFINE f == [i \in 0 .. 0 |-> s]
  <2>1. f = [i \in 0 .. 0 |-> IF i = 0 THEN s ELSE DrainCuration(f[i - 1], a, max)]
    OBVIOUS
  <2> HIDE DEF f
  <2>2. T(0, f)
    BY <2>1
  <2> QED BY <2>2
<1>2. ASSUME NEW k \in S PROVE k + 1 \in S
  <2>1. k \in Nat
    OBVIOUS
  <2>2. PICK f : T(k, f)
    OBVIOUS
  <2> DEFINE g == [i \in 0 .. k + 1 |-> IF i = k + 1 THEN DrainCuration(f[k], a, max) ELSE f[i]]
             h == [i \in 0 .. k + 1 |-> IF i = 0 THEN s ELSE DrainCuration(g[i - 1], a, max)]
  <2>3. ASSUME NEW i \in 0 .. k + 1 PROVE g[i] = h[i]
    <3>1. CASE i = 0
      <4>1. f[0] = s
        BY <2>1, <2>2
      <4>2. g[0] = f[0] /\ h[0] = s
        BY <2>1
      <4> QED BY <3>1, <4>1, <4>2
    <3>2. CASE i = k + 1
      <4>1. g[i] = DrainCuration(f[k], a, max)
        BY <3>2
      <4>2. h[i] = DrainCuration(g[i - 1], a, max)
        BY <2>1, <3>2
      <4>3. i - 1 = k /\ k \in 0 .. k + 1 /\ k # k + 1
        BY <2>1, <3>2
      <4>4. g[i - 1] = f[k]
        BY <4>3
      <4> QED BY <4>1, <4>2, <4>4
    <3>3. CASE i \in 1 .. k
      <4>1. i - 1 \in 0 .. k + 1 /\ i - 1 # k + 1 /\ i # k + 1 /\ i # 0
            /\ i \in 0 .. k
        BY <2>1, <3>3
      <4>2. g[i] = f[i] /\ g[i - 1] = f[i - 1] /\ h[i] = DrainCuration(g[i - 1], a, max)
        BY <4>1
      <4>3. f[i] = DrainCuration(f[i - 1], a, max)
        BY <2>2, <4>1
      <4> QED BY <4>2, <4>3
    <3> QED BY <2>1, <3>1, <3>2, <3>3
  <2>4. g = h
    <3>1. g = [i \in 0 .. k + 1 |-> g[i]] /\ h = [i \in 0 .. k + 1 |-> h[i]]
      OBVIOUS
    <3> HIDE DEF g, h
    <3> QED BY <2>3, <3>1
  <2>5. T(k + 1, g)
    BY <2>4
  <2> HIDE DEF g, h, T
  <2>6. k + 1 \in Nat
    BY <2>1
  <2> QED BY <2>5, <2>6
<1>3. S = Nat
  <2> HIDE DEF S
  <2>1. S \subseteq Nat
    BY DEF S
  <2> QED BY <1>1, <1>2, <2>1, SetInduction
<1>4. n \in S
  BY <1>3
<1> QED BY <1>4

\* The books after i drains of a queue whose slots are all free.
Reached(s, x, a, i) ==
  /\ BooksOK(x) /\ \A k \in DOMAIN x.cq[a] : Free(x, x.cq[a][k])
  /\ \A q \in Posts : x.vote[q][a] = 0 \/ (x.vote[q][a] = s.vote[q][a] /\ x.post[q] = s.post[q])
  /\ Len(x.cq[a]) + i <= Len(s.cq[a])

\* One more drain empties a slot at least.
LEMMA ReachedMore ==
  ASSUME NEW s, BooksOK(s), NEW x, NEW a \in Accounts, NEW max \in Nat \ {0}, NEW i \in Nat,
         Reached(s, x, a, i), i + 1 <= Len(s.cq[a]), day \in Nat
  PROVE  Reached(s, DrainCuration(x, a, max), a, i + 1)
<1> DEFINE y == DrainCuration(x, a, max)
<1>1. BooksOK(x) /\ max \in Nat
  BY DEF Reached
<1>2. Emptied(x, y, a, max)
  BY <1>1, DrainEmpties
<1> HIDE DEF y
<1>3. /\ s \in BookType /\ x \in BookType /\ y \in BookType
  BY <1>1, <1>2 DEF BooksOK, Emptied
<1>4. /\ s.cq[a] \in Seq(Posts \union {None}) /\ x.cq[a] \in Seq(Posts \union {None})
      /\ y.cq[a] \in Seq(Posts \union {None})
  BY <1>3 DEF BookType
<1>5. Len(y.cq[a]) + (i + 1) <= Len(s.cq[a])
  <2>1. Len(y.cq[a]) + AtMost(max, Len(x.cq[a])) <= Len(x.cq[a])
    BY <1>2 DEF Emptied, Reached
  <2>2. Len(x.cq[a]) + i <= Len(s.cq[a])
    BY DEF Reached
  <2>3. Len(y.cq[a]) \in Nat /\ Len(x.cq[a]) \in Nat /\ Len(s.cq[a]) \in Nat
    BY <1>4
  <2> DEFINE A == Len(y.cq[a])
             B == Len(x.cq[a])
             C == Len(s.cq[a])
  <2>4. A + AtMost(max, B) <= B /\ B + i <= C /\ A \in Nat /\ B \in Nat /\ C \in Nat
        /\ i + 1 <= C
    BY <2>1, <2>2, <2>3
  <2> HIDE DEF A, B, C
  <2>5. A + (i + 1) <= C
    BY <2>4 DEF AtMost
  <2> QED BY <2>5 DEF A, C
<1>6. ASSUME NEW q \in Posts
      PROVE  y.vote[q][a] = 0 \/ (y.vote[q][a] = s.vote[q][a] /\ y.post[q] = s.post[q])
  BY <1>2 DEF Emptied, Reached
<1>7. ASSUME NEW k \in DOMAIN y.cq[a] PROVE Free(y, y.cq[a][k])
  <2>1. y.cq[a][k] = None \/ \E n \in DOMAIN x.cq[a] : y.cq[a][k] = x.cq[a][n]
    BY <1>2, <1>7 DEF Emptied
  <2>2. CASE y.cq[a][k] = None
    BY <2>2 DEF Free
  <2>3. CASE \E n \in DOMAIN x.cq[a] : y.cq[a][k] = x.cq[a][n]
    <3>1. Free(x, y.cq[a][k])
      BY <2>3 DEF Reached
    <3>2. y.cq[a][k] \in Posts \union {None}
      BY <1>4, <1>7
    <3>3. \A p \in Posts : Moved(x.post[p], y.post[p])
      BY <1>2 DEF Emptied
    <3> QED BY <3>1, <3>2, <3>3, FreeStays
  <2> QED BY <2>1, <2>2, <2>3
<1> QED BY <1>2, <1>5, <1>6, <1>7 DEF Reached, Emptied, y

\* As many drains as there are slots empty a queue whose slots are free.
LEMMA DrainsEmpty ==
  ASSUME NEW s, BooksOK(s), NEW a \in Accounts, NEW max \in Nat \ {0}, day \in Nat,
         \A k \in DOMAIN s.cq[a] : Free(s, s.cq[a][k])
  PROVE  LET n == Len(s.cq[a])
             f == CHOOSE f : f = [i \in 0 .. n |-> IF i = 0 THEN s
                                                   ELSE DrainCuration(f[i - 1], a, max)]
         IN  Reached(s, f[n], a, n)
<1> DEFINE n == Len(s.cq[a])
           f == CHOOSE f : f = [i \in 0 .. n |-> IF i = 0 THEN s ELSE DrainCuration(f[i - 1], a, max)]
<1>2. n \in Nat
  <2>1. s.cq[a] \in Seq(Posts \union {None})
    BY DEF BooksOK, BookType
  <2> QED BY <2>1
<1> HIDE DEF n
<1>4. f = [i \in 0 .. n |-> IF i = 0 THEN s ELSE DrainCuration(f[i - 1], a, max)]
  BY <1>2, DrainsExist, SMTT(60)
<1> HIDE DEF f
<1>5. Reached(s, f[n], a, n)
  <2> DEFINE S == {i \in Nat : i <= n => Reached(s, f[i], a, i)}
  <2>1. 0 \in S
    <3>1. f[0] = s
      BY <1>2, <1>4
    <3>2. Len(s.cq[a]) \in Nat
      BY <1>2 DEF n
    <3>3. Reached(s, s, a, 0)
      BY <3>2 DEF Reached
    <3> QED BY <3>1, <3>3
  <2>2. ASSUME NEW i \in S PROVE i + 1 \in S
    <3>1. i \in Nat
      OBVIOUS
    <3>2. ASSUME i + 1 <= n PROVE Reached(s, f[i + 1], a, i + 1)
      <4>1. Reached(s, f[i], a, i)
        BY <1>2, <3>1, <3>2
      <4>2. i + 1 \in 0 .. n /\ i + 1 # 0 /\ (i + 1) - 1 = i
        BY <1>2, <3>1, <3>2
      <4>3. f[i + 1] = DrainCuration(f[(i + 1) - 1], a, max)
        BY <1>4, <4>2
      <4>4. f[i + 1] = DrainCuration(f[i], a, max)
        BY <4>2, <4>3
      <4> DEFINE y == f[i]
      <4>5. Reached(s, y, a, i)
        BY <4>1
      <4> HIDE DEF y
      <4>6. i + 1 <= Len(s.cq[a])
        BY <3>2 DEF n
      <4>7. Reached(s, DrainCuration(y, a, max), a, i + 1)
        BY <3>1, <4>5, <4>6, ReachedMore
      <4> QED BY <4>4, <4>7 DEF y
    <3> QED BY <3>1, <3>2
  <2>3. S = Nat
    <3> HIDE DEF S
    <3>1. S \subseteq Nat
      BY DEF S
    <3> QED BY <2>1, <2>2, <3>1, SetInduction
  <2>4. n \in S
    BY <1>2, <2>3
  <2> QED BY <1>2, <2>4
<1> QED BY <1>5 DEF f, n

-----------------------------------------------------------------------------
(* Steps.                                                                  *)

\* The rows that are not in the books.
RestType ==
  /\ day \in 0 .. LastDay /\ acc_day \in 0 .. day
  /\ pool \in [Windows -> Nat] /\ rshares \in [Windows -> Nat] /\ stale \in [Windows -> Nat]
  /\ power \in [Accounts -> [Windows -> [power : 0 .. MultScale, last : 0 .. LastDay]]]
  /\ minted \in [Accounts -> Nat] /\ recycled \in Nat /\ acts \in 0 .. MaxActs

Recent == \A a \in Accounts, w \in Windows : power[a][w].last <= day

LEMMA BooksTyped ==
  ASSUME PobInv
  PROVE  /\ RestType /\ Recent /\ BooksOK(Books) /\ Books \in BookType
         /\ post \in Rows /\ vote \in Ballots /\ pend \in Pends
         /\ cq \in [Accounts -> Seq(Posts \union {None})]
         /\ bal \in [Accounts -> Nat] /\ burned \in Nat
         /\ day \in Nat /\ acc_day \in Nat
<1>1. RestType
  BY DEF PobInv, TypeOK, RestType
<1>2. Recent /\ BooksOK(Books)
  BY DEF PobInv, Recent
<1>3. Books \in BookType
  BY <1>2 DEF BooksOK
<1>4. /\ Books.post = post /\ Books.vote = vote /\ Books.cq = cq /\ Books.pend = pend
      /\ Books.bal = bal /\ Books.burned = burned
  BY DEF Books
<1>5. /\ post \in Rows /\ vote \in Ballots /\ pend \in Pends
      /\ cq \in [Accounts -> Seq(Posts \union {None})]
      /\ bal \in [Accounts -> Nat] /\ burned \in Nat
  BY <1>3, <1>4 DEF BookType
<1>6. day \in Nat /\ acc_day \in Nat
  BY <1>1, PobConstants DEF RestType
<1> QED BY <1>1, <1>2, <1>3, <1>5, <1>6

\* The books are the record they are written from.
LEMMA BooksAre ==
  ASSUME NEW s \in BookType, SetBooks(s)
  PROVE  Books' = s
<1>1. Books' = [post |-> s.post, vote |-> s.vote, cq |-> s.cq, pend |-> s.pend,
                bal |-> s.bal, burned |-> s.burned]
  BY DEF Books, SetBooks
<1>2. s = [post |-> s.post, vote |-> s.vote, cq |-> s.cq, pend |-> s.pend,
           bal |-> s.bal, burned |-> s.burned]
  BY DEF BookType
<1> QED BY <1>1, <1>2

\* What a step owes the invariant.
LEMMA StepSound ==
  ASSUME NEW s, SetBooks(s), BooksOK(s), RestType', Recent',
         \A w \in Windows : rshares'[w] = stale'[w] + Total(OpenShares(s.post, w), Posts),
         Total(pool', Windows) + Worth(s, minted') + recycled'
           = acc_day' * Total(DayEmission, Windows) + Funds * Cardinality(Accounts)
  PROVE  PobInv'
<1>1. s \in BookType
  BY DEF BooksOK
<1>2. Books' = s
  BY <1>1, BooksAre
<1>3. /\ post' = s.post /\ vote' = s.vote /\ cq' = s.cq
      /\ pend' = s.pend /\ bal' = s.bal /\ burned' = s.burned
  BY DEF SetBooks
<1>4. /\ s.post \in Rows /\ s.vote \in Ballots /\ s.pend \in Pends
      /\ s.bal \in [Accounts -> Nat] /\ s.burned \in Nat
      /\ s.cq \in [Accounts -> Seq(Posts \union {None})]
  BY <1>1 DEF BookType
<1>5. TypeOK'
  BY <1>3, <1>4 DEF TypeOK, RestType, Rows, Ballots, Pends
<1>6. BooksOK(Books)'
  <2>1. BooksOK(Books') = BooksOK(s)
    BY <1>2
  <2> QED BY <2>1 DEF BooksOK, PostOK, Queued
<1>7. (\A w \in Windows : rshares[w] = stale[w] + Total(OpenShares(post, w), Posts))'
  BY <1>3
<1>8. (Total(pool, Windows) + Worth(Books, minted) + recycled
         = acc_day * Total(DayEmission, Windows) + Funds * Cardinality(Accounts))'
  BY <1>2
<1>9. (\A a \in Accounts, w \in Windows : power[a][w].last <= day)'
  BY DEF Recent
<1> QED BY <1>5, <1>6, <1>7, <1>8, <1>9 DEF PobInv

\* The shares a window's pool is divided by, when the books have moved.
LEMMA SharesKept ==
  ASSUME NEW q, NEW r, \A p \in Posts : Moved(q[p], r[p]), NEW w
  PROVE  OpenShares(r, w) = OpenShares(q, w)
<1>1. ASSUME NEW p \in Posts
      PROVE  (IF r[p] # NoPost /\ ~ r[p].paid /\ r[p].win = w THEN r[p].rshares ELSE 0)
               = (IF q[p] # NoPost /\ ~ q[p].paid /\ q[p].win = w THEN q[p].rshares ELSE 0)
  <2>1. CASE q[p] # NoPost /\ q[p].paid
    <3>1. Moved(q[p], r[p])
      OBVIOUS
    <3>2. r[p] # NoPost /\ r[p].paid
      BY <2>1, <3>1 DEF Moved
    <3> QED BY <2>1, <3>2
  <2>2. CASE ~ (q[p] # NoPost /\ q[p].paid)
    <3>1. Moved(q[p], r[p])
      OBVIOUS
    <3>2. r[p] = q[p]
      BY <2>2, <3>1 DEF Moved
    <3> QED BY <3>2
  <2> QED BY <2>1, <2>2
<1> QED BY <1>1 DEF OpenShares

LEMMA SharesChange ==
  ASSUME NEW q \in Rows, NEW r \in Rows, NEW p \in Posts, \A x \in Posts \ {p} : r[x] = q[x],
         NEW w \in Windows
  PROVE  /\ Total(OpenShares(q, w), Posts) \in Nat /\ Total(OpenShares(r, w), Posts) \in Nat
         /\ OpenShares(q, w)[p] \in Nat /\ OpenShares(r, w)[p] \in Nat
         /\ OpenShares(q, w)[p] <= Total(OpenShares(q, w), Posts)
         /\ Total(OpenShares(r, w), Posts)
              = Total(OpenShares(q, w), Posts) - OpenShares(q, w)[p] + OpenShares(r, w)[p]
<1> DEFINE f == OpenShares(q, w)
           g == OpenShares(r, w)
<1>1. ASSUME NEW s \in Rows, NEW x \in Posts PROVE OpenShares(s, w)[x] \in Nat
  <2>1. CASE s[x] = NoPost
    BY <2>1 DEF OpenShares
  <2>2. CASE s[x] # NoPost
    <3>1. s[x] \in PostRec
      BY <2>2 DEF Rows
    <3>2. s[x].rshares \in Nat
      BY <3>1, PostFields
    <3> QED BY <3>2 DEF OpenShares
  <2> QED BY <2>1, <2>2
<1>2. (\A x \in Posts : f[x] \in Nat) /\ (\A x \in Posts : g[x] \in Nat)
  BY <1>1
<1>3. \A x \in Posts \ {p} : g[x] = f[x]
  BY DEF OpenShares
<1> HIDE DEF f, g
<1>4. Total(g, Posts) = Total(f, Posts) - f[p] + g[p]
  BY <1>2, <1>3, PobConstants, TotalUpdate
<1>5. Total(f, Posts) \in Nat /\ Total(g, Posts) \in Nat
  BY <1>2, PobConstants, TotalIsNat
<1>6. Total(f, Posts) >= f[p]
  BY <1>2, PobConstants, TotalRemove
<1>7. f[p] \in Nat /\ g[p] \in Nat
  BY <1>2
<1>8. f[p] <= Total(f, Posts)
  BY <1>5, <1>6, <1>7
<1> QED BY <1>4, <1>5, <1>7, <1>8 DEF f, g

\* The walk goes forward, and no further than today.
LEMMA WalkBounds ==
  ASSUME PobInv, NEW to \in Walks
  PROVE  to \in Nat /\ acc_day <= to /\ to <= day /\ acc_day \in Nat /\ day \in Nat
<1>1. acc_day \in 0 .. day /\ day \in Nat /\ acc_day \in Nat
  BY BooksTyped DEF RestType
<1>2. to = acc_day \/ to = AtMost(day, acc_day + MaxAccrualDays)
  BY DEF Walks
<1>3. acc_day <= day /\ MaxAccrualDays \in Nat
  BY <1>1, PobConstants
<1>4. AtMost(day, acc_day + MaxAccrualDays) \in Nat
      /\ acc_day <= AtMost(day, acc_day + MaxAccrualDays)
      /\ AtMost(day, acc_day + MaxAccrualDays) <= day
  BY <1>1, <1>3 DEF AtMost
<1> QED BY <1>1, <1>2, <1>3, <1>4

\* A walk pays every day it crosses into the pools.
LEMMA AccruedSound ==
  ASSUME PobInv, NEW to \in Nat, acc_day <= to
  PROVE  /\ Accrued(to) \in [Windows -> Nat]
         /\ Total(pool, Windows) \in Nat /\ Total(Accrued(to), Windows) \in Nat
         /\ Total(Accrued(to), Windows) + acc_day * Total(DayEmission, Windows)
              = Total(pool, Windows) + to * Total(DayEmission, Windows)
<1> DEFINE c == to - acc_day
           f == Accrued(to)
           g == [w \in Windows |-> c * DayEmission[w]]
           e == Total(DayEmission, Windows)
<1>1. /\ acc_day \in Nat /\ pool \in [Windows -> Nat] /\ c \in Nat
  <2>1. acc_day \in Nat /\ pool \in [Windows -> Nat]
    BY BooksTyped DEF RestType
  <2> QED BY <2>1
<1>2. to = acc_day + c
  BY <1>1
<1>3. \A w \in Windows : DayEmission[w] \in Nat
  BY PobConstants
<1>4. \A w \in Windows : c * DayEmission[w] \in Nat
  <2> HIDE DEF c
  <2> QED BY <1>1, <1>3, ProductNat
<1>5. \A w \in Windows : f[w] = pool[w] + c * DayEmission[w]
  BY DEF Accrued
<1> HIDE DEF c
<1>6. f \in [Windows -> Nat]
  <2>1. \A w \in Windows : pool[w] + c * DayEmission[w] \in Nat
    BY <1>1, <1>4
  <2>2. DOMAIN f = Windows /\ f = [w \in Windows |-> f[w]]
    BY DEF Accrued
  <2>3. \A w \in Windows : f[w] \in Nat
    BY <1>5, <2>1
  <2> HIDE DEF f
  <2> QED BY <2>2, <2>3
<1>7. Total(f, Windows) = Total(pool, Windows) + c * e
  <2>1. \A w \in Windows : pool[w] \in Nat
    BY <1>1
  <2> HIDE DEF f, e
  <2>2. Total(f, Windows) = Total(pool, Windows) + c * Total(DayEmission, Windows)
    BY <1>1, <1>3, <1>5, <2>1, PobConstants, TotalScale
  <2> QED BY <2>2 DEF e
<1>8. e \in Nat
  BY <1>3, PobConstants, TotalIsNat
<1>9. Total(pool, Windows) \in Nat
  <2>1. \A w \in Windows : pool[w] \in Nat
    BY <1>1
  <2> QED BY <2>1, PobConstants, TotalIsNat
<1>10. Total(f, Windows) \in Nat
  <2>1. \A w \in Windows : f[w] \in Nat
    BY <1>6
  <2> HIDE DEF f
  <2> QED BY <2>1, PobConstants, TotalIsNat
<1> HIDE DEF e, f
<1>11. Total(f, Windows) + acc_day * e = Total(pool, Windows) + to * e
  <2>1. to * e = acc_day * e + c * e
    BY <1>1, <1>2, <1>8
  <2>2. acc_day * e \in Nat /\ c * e \in Nat
    BY <1>1, <1>8, ProductNat
  <2> QED BY <1>7, <1>9, <2>1, <2>2
<1> QED BY <1>6, <1>9, <1>10, <1>11 DEF e, f

\* What the equation of values is made of.
LEMMA ValueNat ==
  ASSUME PobInv
  PROVE  /\ Worth(Books, minted) \in Nat /\ Total(pool, Windows) \in Nat /\ recycled \in Nat
         /\ Total(DayEmission, Windows) \in Nat
         /\ acc_day * Total(DayEmission, Windows) \in Nat
         /\ Funds * Cardinality(Accounts) \in Nat
         /\ Total(pool, Windows) + Worth(Books, minted) + recycled
              = acc_day * Total(DayEmission, Windows) + Funds * Cardinality(Accounts)
<1>1. RestType /\ Books \in BookType /\ acc_day \in Nat
  BY BooksTyped
<1>2. minted \in [Accounts -> Nat] /\ pool \in [Windows -> Nat] /\ recycled \in Nat
  BY <1>1 DEF RestType
<1>3. Worth(Books, minted) \in Nat
  BY <1>1, <1>2, WorthNat
<1>4. Total(pool, Windows) \in Nat
  <2>1. \A w \in Windows : pool[w] \in Nat
    BY <1>2
  <2> QED BY <2>1, PobConstants, TotalIsNat
<1>5. Total(DayEmission, Windows) \in Nat
  <2>1. \A w \in Windows : DayEmission[w] \in Nat
    BY PobConstants
  <2> QED BY <2>1, PobConstants, TotalIsNat
<1>6. acc_day * Total(DayEmission, Windows) \in Nat
  BY <1>1, <1>5, ProductNat
<1>7. Funds * Cardinality(Accounts) \in Nat
  <2>1. Funds \in Nat /\ Cardinality(Accounts) \in Nat
    BY PobConstants, FS_CardinalityType
  <2> QED BY <2>1, ProductNat
<1> QED BY <1>2, <1>3, <1>4, <1>5, <1>6, <1>7 DEF PobInv

\* A step that leaves the pools alone.
LEMMA CalmStep ==
  ASSUME PobInv, NEW s, SetBooks(s), BooksOK(s), acts' \in 0 .. MaxActs,
         UNCHANGED <<day, acc_day, pool, rshares, power, minted, recycled, stale>>,
         \A w \in Windows : Total(OpenShares(s.post, w), Posts) = Total(OpenShares(post, w), Posts),
         Worth(s, minted) = Worth(Books, minted)
  PROVE  PobInv'
<1>1. RestType /\ Recent
  BY BooksTyped
<1>2. RestType' /\ Recent'
  BY <1>1 DEF RestType, Recent
<1>3. \A w \in Windows : rshares'[w] = stale'[w] + Total(OpenShares(s.post, w), Posts)
  BY DEF PobInv
<1>4. Total(pool', Windows) + Worth(s, minted') + recycled'
        = acc_day' * Total(DayEmission, Windows) + Funds * Cardinality(Accounts)
  BY ValueNat
<1> QED BY <1>2, <1>3, <1>4, StepSound

\* Nothing, and a day.
LEMMA TickSound ==
  ASSUME PobInv, UNCHANGED vars \/ Tick
  PROVE  PobInv'
<1>1. /\ RestType /\ Recent /\ BooksOK(Books) /\ day \in Nat /\ acc_day \in Nat
      /\ LastDay \in Nat
  BY BooksTyped, PobConstants
<1>2. /\ UNCHANGED <<acc_day, pool, rshares, post, vote, power, cq, pend, bal, minted, burned,
                     recycled, stale, acts>>
      /\ day' \in day .. LastDay
  <2>1. day \in 0 .. LastDay
    BY <1>1 DEF RestType
  <2> QED BY <1>1, <2>1 DEF vars, Tick
<1>3. SetBooks(Books)
  BY <1>2 DEF SetBooks, Books
<1>4. RestType'
  <2>1. day' \in 0 .. LastDay /\ acc_day \in 0 .. day'
    BY <1>1, <1>2 DEF RestType
  <2> QED BY <1>1, <1>2, <2>1 DEF RestType
<1>5. Recent'
  <2>1. power \in [Accounts -> [Windows -> [power : 0 .. MultScale, last : 0 .. LastDay]]]
    BY <1>1 DEF RestType
  <2>2. ASSUME NEW a \in Accounts, NEW w \in Windows PROVE power[a][w].last <= day'
    <3>1. power[a][w].last \in 0 .. LastDay
      BY <2>1
    <3>2. power[a][w].last <= day
      BY <1>1 DEF Recent
    <3>3. day' \in Nat /\ day <= day'
      BY <1>1, <1>2
    <3> QED BY <1>1, <3>1, <3>2, <3>3
  <2> QED BY <1>2, <2>2 DEF Recent
<1>6. \A w \in Windows : rshares'[w] = stale'[w] + Total(OpenShares(Books.post, w), Posts)
  BY <1>2 DEF PobInv, Books
<1>7. Total(pool', Windows) + Worth(Books, minted') + recycled'
        = acc_day' * Total(DayEmission, Windows) + Funds * Cardinality(Accounts)
  BY <1>2, ValueNat
<1> QED BY <1>1, <1>3, <1>4, <1>5, <1>6, <1>7, StepSound

\* A walk on its own (Settle).
LEMMA SettleSound ==
  ASSUME PobInv, NEW to \in Walks, Settle(to)
  PROVE  PobInv'
<1>1. RestType /\ Recent /\ BooksOK(Books)
  BY BooksTyped
<1>2. /\ UNCHANGED <<day, rshares, post, vote, power, cq, pend, bal, minted, burned, recycled,
                     stale, acts>>
      /\ acc_day' = to /\ pool' = Accrued(to)
  BY DEF Settle
<1>3. to \in Nat /\ acc_day <= to /\ to <= day
  BY WalkBounds
<1>4. /\ Accrued(to) \in [Windows -> Nat]
      /\ Total(pool, Windows) \in Nat /\ Total(Accrued(to), Windows) \in Nat
      /\ Total(Accrued(to), Windows) + acc_day * Total(DayEmission, Windows)
           = Total(pool, Windows) + to * Total(DayEmission, Windows)
  BY <1>3, AccruedSound
<1>5. SetBooks(Books)
  BY <1>2 DEF SetBooks, Books
<1>6. RestType' /\ Recent'
  BY <1>1, <1>2, <1>3, <1>4 DEF RestType, Recent
<1>7. \A w \in Windows : rshares'[w] = stale'[w] + Total(OpenShares(Books.post, w), Posts)
  BY <1>2 DEF PobInv, Books
<1>8. Total(pool', Windows) + Worth(Books, minted') + recycled'
        = acc_day' * Total(DayEmission, Windows) + Funds * Cardinality(Accounts)
  <2> DEFINE a0 == acc_day * Total(DayEmission, Windows)
             a1 == to * Total(DayEmission, Windows)
             t0 == Total(pool, Windows)
             t1 == Total(Accrued(to), Windows)
             b0 == Worth(Books, minted)
             k0 == Funds * Cardinality(Accounts)
  <2>1. a0 \in Nat /\ a1 \in Nat /\ t0 \in Nat /\ t1 \in Nat /\ b0 \in Nat /\ k0 \in Nat
        /\ recycled \in Nat
    BY <1>3, <1>4, ValueNat, ProductNat
  <2>2. t1 + a0 = t0 + a1 /\ t0 + b0 + recycled = a0 + k0
    BY <1>4, ValueNat
  <2> HIDE DEF a0, a1, t0, t1, b0, k0
  <2>3. t1 + b0 + recycled = a1 + k0
    BY <2>1, <2>2
  <2> QED BY <1>2, <2>3 DEF a1, t1, b0, k0
<1> QED BY <1>1, <1>5, <1>6, <1>7, <1>8, StepSound

\* A new post has no votes (CreatePost).
LEMMA NewPostIs ==
  ASSUME day \in Nat, NEW w \in Windows, NEW mode \in Modes
  PROVE  /\ NewPost(w, mode) \in PostRec /\ NewPost(w, mode) # NoPost
         /\ NewPost(w, mode).pot = 0 /\ NewPost(w, mode).rshares = 0
         /\ NewPost(w, mode).paid = FALSE /\ NewPost(w, mode).win = w
<1>1. /\ NewPost(w, mode) \in PostRec
      /\ NewPost(w, mode).pot = 0 /\ NewPost(w, mode).rshares = 0
      /\ NewPost(w, mode).paid = FALSE /\ NewPost(w, mode).win = w
  BY DEF NewPost, PostRec, Modes
<1> QED BY <1>1, PostFields

LEMMA CreateSound ==
  ASSUME PobInv, NEW p \in Posts, CreatePost(p)
  PROVE  PobInv'
<1> DEFINE q == NewPost(WindowOf[p], ModeOf[p])
           v == vote[p]
           b == Books
           s == Edit(b, p, q, v)
<1>1. /\ RestType /\ BooksOK(b) /\ b \in BookType /\ day \in Nat
      /\ post \in Rows /\ vote \in Ballots
  BY BooksTyped
<1>2. /\ UNCHANGED <<day, acc_day, pool, rshares, vote, power, cq, pend, bal, minted, burned,
                     recycled, stale, acts>>
      /\ post[p] = NoPost /\ post' = [post EXCEPT ![p] = q]
  BY DEF CreatePost, Registered
<1>3. /\ q \in PostRec /\ q # NoPost /\ q.pot = 0 /\ q.rshares = 0 /\ q.paid = FALSE
  <2>1. WindowOf[p] \in Windows /\ ModeOf[p] \in Modes
    BY PobConstants
  <2> QED BY <1>1, <2>1, NewPostIs
<1>4. b.post = post /\ b.vote = vote /\ b.cq = cq
  BY DEF Books
<1>5. v \in [Accounts -> Nat]
  BY <1>1 DEF Ballots
<1>6. minted \in [Accounts -> Nat] /\ acts \in 0 .. MaxActs
  BY <1>1 DEF RestType
<1>7. SetBooks(s)
  <2>1. [vote EXCEPT ![p] = vote[p]] = vote
    BY <1>1 DEF Ballots
  <2> HIDE DEF q
  <2>2. s = [b EXCEPT !.post = [post EXCEPT ![p] = q], !.vote = vote]
    BY <1>4, <2>1 DEF Edit
  <2>3. s.post = [post EXCEPT ![p] = q] /\ s.vote = vote /\ s.cq = cq /\ s.pend = pend
        /\ s.bal = bal /\ s.burned = burned
    BY <2>2 DEF Books
  <2> HIDE DEF s
  <2> QED BY <1>2, <2>3 DEF SetBooks
<1> HIDE DEF q, b
<1>8. /\ s \in BookType /\ s.cq = b.cq /\ s.post[p] = q /\ s.vote[p] = v
      /\ \A x \in Posts \ {p} : s.post[x] = b.post[x] /\ s.vote[x] = b.vote[x]
      /\ Worth(s, minted) = Worth(b, minted) - PotOf(b.post[p]) + PotOf(q)
      /\ PotOf(b.post[p]) \in Nat /\ PotOf(q) \in Nat
  BY <1>1, <1>3, <1>5, <1>6, EditSound
<1> HIDE DEF s
<1>9. \A a \in Accounts : v[a] = 0
  <2>1. PostOK(b.post[p], b.vote[p])
    BY <1>1 DEF BooksOK
  <2> QED BY <1>2, <1>4, <2>1 DEF PostOK
<1>10. PostOK(q, v)
  <2>1. Total(v, Accounts) = 0
    <3>1. Total(v, Accounts) = Cardinality(Accounts) * 0
      BY <1>9, PobConstants, TotalConstant
    <3>2. Cardinality(Accounts) \in Nat
      BY PobConstants, FS_CardinalityType
    <3> QED BY <3>1, <3>2
  <2> QED BY <1>3, <2>1 DEF PostOK
<1>11. BooksOK(s)
  <2>1. \A x \in Posts : PostOK(s.post[x], s.vote[x])
    BY <1>1, <1>8, <1>10 DEF BooksOK
  <2>2. ASSUME NEW x \in Posts, NEW a \in Accounts, s.vote[x][a] > 0,
               s.post[x].paid => s.post[x].pot > 0
        PROVE  \E n \in DOMAIN s.cq[a] : s.cq[a][n] = x
    <3>1. x # p
      BY <1>8, <1>9, <2>2
    <3>2. s.vote[x][a] = b.vote[x][a] /\ s.post[x] = b.post[x]
      BY <1>8, <3>1
    <3> QED BY <1>1, <1>8, <2>2, <3>2 DEF BooksOK, Queued
  <2> QED BY <1>8, <2>1, <2>2 DEF BooksOK, Queued
<1>12. ASSUME NEW w \in Windows
       PROVE  Total(OpenShares(s.post, w), Posts) = Total(OpenShares(post, w), Posts)
  <2> DEFINE f == s.post
  <2>1. f \in Rows /\ f[p] = q /\ \A x \in Posts \ {p} : f[x] = post[x]
    BY <1>4, <1>8 DEF BookType
  <2> HIDE DEF f
  <2>2. OpenShares(post, w)[p] = 0 /\ OpenShares(f, w)[p] = 0
    BY <1>2, <1>3, <2>1 DEF OpenShares
  <2>3. /\ Total(OpenShares(post, w), Posts) \in Nat
        /\ Total(OpenShares(f, w), Posts)
              = Total(OpenShares(post, w), Posts) - OpenShares(post, w)[p] + OpenShares(f, w)[p]
    BY <1>1, <2>1, SharesChange
  <2> QED BY <2>2, <2>3 DEF f
<1>13. Worth(s, minted) = Worth(Books, minted)
  <2>1. PotOf(b.post[p]) = 0 /\ PotOf(q) = 0
    BY <1>2, <1>3, <1>4 DEF PotOf
  <2>2. Worth(b, minted) \in Nat
    BY <1>1, <1>6, WorthNat
  <2> QED BY <1>8, <2>1, <2>2 DEF b
<1> QED BY <1>2, <1>6, <1>7, <1>11, <1>12, <1>13, CalmStep

\* A claim called for by anyone (ClaimCuration).
LEMMA SettledKeeps ==
  ASSUME NEW s, BooksOK(s), NEW t, NEW p \in Posts, NEW a \in Accounts,
         s.post[p] \in PostRec, Settled(s, t, p, a)
  PROVE  BooksOK(t) /\ \A q \in Posts : Moved(s.post[q], t.post[q])
<1>1. s \in BookType
  BY DEF BooksOK
<1>2. s.post \in Rows
  BY <1>1, WorthNat DEF BookType
<1>3. /\ t \in BookType /\ t.cq = s.cq
      /\ \A q \in Posts \ {p} : t.post[q] = s.post[q] /\ t.vote[q] = s.vote[q]
      /\ t.post[p] \in PostRec /\ t.post[p].paid = s.post[p].paid
      /\ PostOK(t.post[p], t.vote[p]) /\ Moved(s.post[p], t.post[p])
      /\ \A b \in Accounts \ {a} : t.vote[p][b] = s.vote[p][b]
  BY DEF Settled
<1>4. t.post[p].pot <= s.post[p].pot /\ t.post[p].pot \in Nat /\ s.post[p].pot \in Nat
  <2>1. t.post[p].pot <= s.post[p].pot
    BY DEF Settled
  <2> QED BY <1>3, <2>1, PostFields
<1>5. ~ (t.vote[p][a] > 0)
  <2>1. t.vote[p][a] = 0
    BY DEF Settled
  <2> QED BY <2>1
<1>6. \A q \in Posts : PostOK(t.post[q], t.vote[q])
  BY <1>3 DEF BooksOK
<1>7. ASSUME NEW q \in Posts, NEW b \in Accounts, t.vote[q][b] > 0,
             t.post[q].paid => t.post[q].pot > 0
      PROVE  \E n \in DOMAIN t.cq[b] : t.cq[b][n] = q
  <2>1. CASE q # p
    <3>1. s.vote[q][b] > 0 /\ (s.post[q].paid => s.post[q].pot > 0)
      BY <1>3, <1>7, <2>1
    <3> QED BY <1>3, <3>1 DEF BooksOK, Queued
  <2>2. CASE q = p
    <3>1. b # a
      BY <1>5, <1>7, <2>2
    <3>2. s.vote[p][b] = t.vote[p][b]
      BY <1>3, <3>1
    <3>3. s.post[p].paid => s.post[p].pot > 0
      <4>1. s.post[p].paid => t.post[p].pot > 0
        BY <1>3, <1>7, <2>2
      <4> QED BY <1>4, <4>1
    <3>4. s.vote[p][b] > 0
      BY <1>7, <2>2, <3>2
    <3> QED BY <1>3, <2>2, <3>3, <3>4 DEF BooksOK, Queued
  <2> QED BY <2>1, <2>2
<1>8. ASSUME NEW q \in Posts PROVE Moved(s.post[q], t.post[q])
  <2>1. CASE q = p
    BY <1>3, <2>1
  <2>2. CASE q # p
    <3>1. t.post[q] = s.post[q] /\ s.post[q] \in PostRec \union {NoPost}
      BY <1>2, <1>3, <2>2 DEF Rows
    <3> QED BY <3>1, MovedNot
  <2> QED BY <2>1, <2>2
<1> QED BY <1>3, <1>6, <1>7, <1>8 DEF BooksOK, Queued

LEMMA ClaimSound ==
  ASSUME PobInv, NEW p \in Posts, NEW a \in Accounts, ClaimCuration(p, a)
  PROVE  PobInv' /\ \A q \in Posts : Moved(post[q], post'[q])
<1> DEFINE b == Books
           s == Claimed(b, p, a)
<1>1. /\ RestType /\ BooksOK(b) /\ b \in BookType /\ day \in Nat
      /\ post \in Rows /\ vote \in Ballots
  BY BooksTyped
<1>2. b.post = post /\ b.vote = vote
  BY DEF Books
<1>3. /\ post[p] # NoPost /\ Claimable(post[p], vote[p][a]) /\ SetBooks(s)
      /\ UNCHANGED <<day, acc_day, pool, rshares, power, minted, recycled, stale, acts>>
  BY DEF ClaimCuration, Registered
<1> HIDE DEF b
<1>4. post[p] \in PostRec /\ PostOK(b.post[p], b.vote[p])
  BY <1>1, <1>3 DEF Rows, BooksOK
<1>5. minted \in [Accounts -> Nat] /\ acts \in 0 .. MaxActs
  BY <1>1 DEF RestType
<1>6. Settled(b, s, p, a) /\ Worth(s, minted) = Worth(b, minted)
  BY <1>1, <1>2, <1>3, <1>4, <1>5, ClaimedSound
<1> HIDE DEF s
<1>7. BooksOK(s) /\ \A q \in Posts : Moved(post[q], s.post[q])
  <2>1. BooksOK(s) /\ \A q \in Posts : Moved(b.post[q], s.post[q])
    BY <1>1, <1>2, <1>4, <1>6, SettledKeeps
  <2> QED BY <1>2, <2>1
<1>8. \A w \in Windows : Total(OpenShares(s.post, w), Posts) = Total(OpenShares(post, w), Posts)
  BY <1>7, SharesKept
<1>9. Worth(s, minted) = Worth(Books, minted)
  BY <1>6 DEF b
<1>10. PobInv'
  BY <1>3, <1>5, <1>7, <1>8, <1>9, CalmStep
<1>11. post' = s.post
  BY <1>3 DEF SetBooks
<1> QED BY <1>7, <1>10, <1>11

\* What nobody claimed in time goes to the recyclers (SweepCuration).
LEMMA SweepSound ==
  ASSUME PobInv, NEW p \in Posts, SweepCuration(p)
  PROVE  PobInv' /\ \A q \in Posts : Moved(post[q], post'[q])
<1> DEFINE r == post[p]
           q == [r EXCEPT !.pot = 0, !.potRshares = 0]
           v == vote[p]
           b == Books
           s == Edit(b, p, q, v)
<1>1. /\ RestType /\ Recent /\ BooksOK(b) /\ b \in BookType /\ day \in Nat
      /\ post \in Rows /\ vote \in Ballots
  BY BooksTyped
<1>2. /\ UNCHANGED <<day, acc_day, pool, rshares, vote, power, cq, pend, bal, minted, burned,
                     stale, acts>>
      /\ r # NoPost /\ r.paid /\ r.pot > 0 /\ recycled' = recycled + r.pot
      /\ post' = [post EXCEPT ![p].pot = 0, ![p].potRshares = 0]
  BY DEF SweepCuration, Registered
<1>3. r \in PostRec
  BY <1>1, <1>2 DEF Rows
<1>4. r.pot \in Nat
  BY <1>3, PostFields
<1>5. post' = [post EXCEPT ![p] = q]
  <2>1. DOMAIN post = Posts
    BY <1>1 DEF Rows
  <2> QED BY <1>2, <2>1
<1> HIDE DEF r
<1>6. /\ q \in PostRec /\ q.pot = 0 /\ q.potRshares = 0 /\ q.paid = r.paid
  BY <1>3 DEF PostRec
<1>7. q # NoPost
  BY <1>6, PostFields
<1>8. b.post = post /\ b.vote = vote /\ b.cq = cq /\ b.post[p] = r
  BY DEF Books, r
<1>9. v \in [Accounts -> Nat]
  BY <1>1 DEF Ballots
<1>10. minted \in [Accounts -> Nat]
  BY <1>1 DEF RestType
<1>11. SetBooks(s)
  <2>1. [vote EXCEPT ![p] = vote[p]] = vote
    BY <1>1 DEF Ballots
  <2> HIDE DEF q
  <2>2. s = [b EXCEPT !.post = [post EXCEPT ![p] = q], !.vote = vote]
    BY <1>8, <2>1 DEF Edit
  <2>3. s.post = [post EXCEPT ![p] = q] /\ s.vote = vote /\ s.cq = cq /\ s.pend = pend
        /\ s.bal = bal /\ s.burned = burned
    BY <2>2 DEF Books
  <2> HIDE DEF s
  <2> QED BY <1>2, <1>5, <2>3 DEF SetBooks
<1> HIDE DEF q, b
<1>12. /\ s \in BookType /\ s.cq = b.cq /\ s.post[p] = q /\ s.vote[p] = v
       /\ \A x \in Posts \ {p} : s.post[x] = b.post[x] /\ s.vote[x] = b.vote[x]
       /\ Worth(s, minted) = Worth(b, minted) - PotOf(b.post[p]) + PotOf(q)
  BY <1>1, <1>6, <1>9, <1>10, EditSound
<1> HIDE DEF s
<1>13. PostOK(q, v)
  BY <1>2, <1>6, <1>7 DEF PostOK
<1>14. BooksOK(s)
  <2>1. \A x \in Posts : PostOK(s.post[x], s.vote[x])
    BY <1>1, <1>12, <1>13 DEF BooksOK
  <2>2. ASSUME NEW x \in Posts, NEW a \in Accounts, s.vote[x][a] > 0,
               s.post[x].paid => s.post[x].pot > 0
        PROVE  \E n \in DOMAIN s.cq[a] : s.cq[a][n] = x
    <3>1. x # p
      <4>1. ~ (q.pot > 0) /\ q.paid
        BY <1>2, <1>6
      <4> QED BY <1>12, <2>2, <4>1
    <3>2. s.vote[x][a] = b.vote[x][a] /\ s.post[x] = b.post[x]
      BY <1>12, <3>1
    <3> QED BY <1>1, <1>12, <2>2, <3>2 DEF BooksOK, Queued
  <2> QED BY <1>12, <2>1, <2>2 DEF BooksOK, Queued
<1>15. ASSUME NEW x \in Posts PROVE Moved(post[x], s.post[x])
  <2>1. CASE x = p
    <3>1. Moved(r, q)
      <4>1. ~ (q.potRshares > 0)
        BY <1>6
      <4> QED BY <1>2, <1>6, <1>7, <4>1 DEF Moved
    <3> QED BY <1>8, <1>12, <2>1, <3>1
  <2>2. CASE x # p
    <3>1. s.post[x] = post[x] /\ post[x] \in PostRec \union {NoPost}
      BY <1>1, <1>8, <1>12, <2>2 DEF Rows
    <3> QED BY <3>1, MovedNot
  <2> QED BY <2>1, <2>2
<1>16. \A w \in Windows : rshares'[w] = stale'[w] + Total(OpenShares(s.post, w), Posts)
  <2>1. \A w \in Windows : OpenShares(s.post, w) = OpenShares(post, w)
    BY <1>15, SharesKept
  <2> QED BY <1>2, <2>1 DEF PobInv
<1>17. Total(pool', Windows) + Worth(s, minted') + recycled'
         = acc_day' * Total(DayEmission, Windows) + Funds * Cardinality(Accounts)
  <2> DEFINE a0 == acc_day * Total(DayEmission, Windows)
             t0 == Total(pool, Windows)
             b0 == Worth(b, minted)
             b1 == Worth(s, minted)
             k0 == Funds * Cardinality(Accounts)
             g0 == r.pot
  <2>1. a0 \in Nat /\ t0 \in Nat /\ b0 \in Nat /\ k0 \in Nat /\ recycled \in Nat /\ g0 \in Nat
    BY <1>4, ValueNat DEF b
  <2>2. t0 + b0 + recycled = a0 + k0
    BY ValueNat DEF b
  <2>3. PotOf(b.post[p]) = g0 /\ PotOf(q) = 0
    BY <1>2, <1>6, <1>7, <1>8 DEF PotOf
  <2>4. b1 = b0 - g0 + 0
    BY <1>12, <2>3
  <2> HIDE DEF a0, t0, b0, b1, k0, g0
  <2>5. t0 + b1 + (recycled + g0) = a0 + k0
    BY <2>1, <2>2, <2>4
  <2>6. recycled' = recycled + g0
    BY <1>2 DEF g0
  <2> QED BY <1>2, <2>5, <2>6 DEF a0, t0, b1, k0
<1>18. RestType' /\ Recent'
  <2>1. recycled' \in Nat
    BY <1>1, <1>2, <1>4 DEF RestType
  <2> QED BY <1>1, <1>2, <2>1 DEF RestType, Recent
<1>19. PobInv'
  BY <1>11, <1>14, <1>16, <1>17, <1>18, StepSound
<1>20. post' = s.post
  BY <1>11 DEF SetBooks
<1> QED BY <1>15, <1>19, <1>20

\* A step is fair when no claim is worth less after it.
Fair == \A p \in Posts : post[p] # NoPost /\ post[p].paid => Moved(post[p], post'[p])

\* The first vote on a post opens it (Vote).
LEMMA TargetIs ==
  ASSUME PobInv, NEW p \in Posts
  PROVE  LET r == Target(p)
         IN  /\ r \in PostRec /\ r.win \in Windows /\ r.rshares \in Nat /\ r.pot \in Nat
             /\ ~ r.paid => r.pot = 0 /\ r.rshares = Total(vote[p], Accounts)
             /\ ~ r.paid => PotOf(post[p]) = 0
             /\ ~ r.paid => ~ (post[p] # NoPost /\ post[p].paid)
             /\ \A w \in Windows : ~ r.paid =>
                  OpenShares(post, w)[p] = IF w = r.win THEN r.rshares ELSE 0
<1> DEFINE r == Target(p)
<1>1. BooksOK(Books) /\ post \in Rows /\ vote \in Ballots /\ day \in Nat
  BY BooksTyped
<1>2. PostOK(post[p], vote[p])
  BY <1>1 DEF BooksOK, Books
<1>3. CASE post[p] = NoPost
  <2>1. r = NewPost(Viral, "default")
    BY <1>3 DEF Target, Registered
  <2>2. Viral \in Windows /\ "default" \in Modes
    BY PobConstants DEF Modes
  <2> HIDE DEF r
  <2>3. /\ r \in PostRec /\ r.pot = 0 /\ r.rshares = 0 /\ r.paid = FALSE /\ r.win = Viral
    BY <1>1, <2>1, <2>2, NewPostIs
  <2>4. Total(vote[p], Accounts) = 0
    <3>1. \A a \in Accounts : vote[p][a] = 0
      BY <1>2, <1>3 DEF PostOK
    <3>2. Total(vote[p], Accounts) = Cardinality(Accounts) * 0
      BY <3>1, PobConstants, TotalConstant
    <3>3. Cardinality(Accounts) \in Nat
      BY PobConstants, FS_CardinalityType
    <3> QED BY <3>2, <3>3
  <2>5. PotOf(post[p]) = 0 /\ \A w \in Windows : OpenShares(post, w)[p] = 0
    BY <1>3 DEF PotOf, OpenShares
  <2> QED BY <1>3, <2>2, <2>3, <2>4, <2>5 DEF r
<1>4. CASE post[p] # NoPost
  <2>1. r = post[p]
    BY <1>4 DEF Target, Registered
  <2> HIDE DEF r
  <2>2. r \in PostRec
    BY <1>1, <1>4, <2>1 DEF Rows
  <2>3. r.win \in Windows /\ r.rshares \in Nat /\ r.pot \in Nat /\ r.paid \in BOOLEAN
    BY <2>2, PostFields
  <2>4. ~ r.paid => r.pot = 0 /\ r.rshares = Total(vote[p], Accounts)
    BY <1>2, <1>4, <2>1 DEF PostOK
  <2>5. PotOf(post[p]) = r.pot
    BY <1>4, <2>1 DEF PotOf
  <2>6. \A w \in Windows : ~ r.paid =>
          OpenShares(post, w)[p] = IF w = r.win THEN r.rshares ELSE 0
    BY <1>4, <2>1 DEF OpenShares
  <2> QED BY <1>4, <2>1, <2>2, <2>3, <2>4, <2>5, <2>6 DEF r
<1> QED BY <1>3, <1>4

\* A ballot written anew, with its post (Vote).
Cast(p, a, new) ==
  Edit(Books, p, [Target(p) EXCEPT !.rshares = @ - vote[p][a] + new], [vote[p] EXCEPT ![a] = new])

\* A vote that is cast, replaced or withdrawn moves the totals of its post and
\* of its window alike.
LEMMA BallotSound ==
  ASSUME PobInv, NEW p \in Posts, NEW a \in Accounts, NEW new \in Nat, ~ Target(p).paid
  PROVE  LET e == Cast(p, a, new)
         IN  /\ e \in BookType /\ e.cq = cq /\ Worth(e, minted) = Worth(Books, minted)
             /\ \A x \in Posts : PostOK(e.post[x], e.vote[x])
             /\ \A x \in Posts \ {p} : e.post[x] = post[x] /\ e.vote[x] = vote[x]
             /\ e.vote[p][a] = new /\ \A b \in Accounts \ {a} : e.vote[p][b] = vote[p][b]
             /\ e.post[p] # NoPost /\ ~ e.post[p].paid /\ e.post[p].win = Target(p).win
             /\ e.post[p].rshares = Target(p).rshares - vote[p][a] + new
             /\ Target(p).win \in Windows
             /\ vote[p][a] \in Nat /\ vote[p][a] <= rshares[Target(p).win]
             /\ \A w \in Windows :
                  /\ Total(OpenShares(e.post, w), Posts) \in Nat
                  /\ Total(OpenShares(post, w), Posts) \in Nat
                  /\ Total(OpenShares(e.post, w), Posts)
                       = Total(OpenShares(post, w), Posts)
                         + (IF w = Target(p).win THEN new - vote[p][a] ELSE 0)
<1> DEFINE r == Target(p)
           votes == vote[p]
           mine == votes[a]
           q == [r EXCEPT !.rshares = @ - mine + new]
           v == [votes EXCEPT ![a] = new]
           b == Books
           e == Edit(b, p, q, v)
<1>1. /\ RestType /\ BooksOK(b) /\ b \in BookType /\ post \in Rows /\ vote \in Ballots
  BY BooksTyped
<1>2. b.post = post /\ b.vote = vote /\ b.cq = cq
  BY DEF Books
<1>3. /\ r \in PostRec /\ r.win \in Windows /\ r.rshares \in Nat /\ r.paid \in BOOLEAN
      /\ r.pot = 0 /\ r.rshares = Total(votes, Accounts) /\ PotOf(post[p]) = 0
      /\ ~ (post[p] # NoPost /\ post[p].paid)
      /\ \A w \in Windows : OpenShares(post, w)[p] = IF w = r.win THEN r.rshares ELSE 0
  <2>1. r \in PostRec /\ ~ r.paid
    BY TargetIs
  <2>2. r.paid \in BOOLEAN
    BY <2>1, PostFields
  <2> QED BY <2>1, <2>2, TargetIs
<1>4. minted \in [Accounts -> Nat] /\ rshares \in [Windows -> Nat] /\ stale \in [Windows -> Nat]
  BY <1>1 DEF RestType
<1>5. votes \in [Accounts -> Nat]
  BY <1>1 DEF Ballots
<1>6. ~ r.paid
  OBVIOUS
<1> HIDE DEF r, votes, b
<1>7. /\ v \in [Accounts -> Nat] /\ v[a] = new /\ \A x \in Accounts \ {a} : v[x] = votes[x]
      /\ Total(votes, Accounts) \in Nat /\ Total(v, Accounts) \in Nat
      /\ mine \in Nat /\ mine <= Total(votes, Accounts)
      /\ Total(v, Accounts) = Total(votes, Accounts) - mine + new
  BY <1>5, OneVote
<1> HIDE DEF v, mine
<1>8. /\ q \in PostRec /\ q.rshares = r.rshares - mine + new /\ q.paid = FALSE
      /\ q.pot = 0 /\ q.win = r.win
  <2> DEFINE y == r.rshares - mine + new
  <2>1. y \in Nat
    BY <1>3, <1>7
  <2> HIDE DEF y
  <2>2. /\ [r EXCEPT !.rshares = y] \in PostRec /\ [r EXCEPT !.rshares = y].rshares = y
        /\ [r EXCEPT !.rshares = y].paid = r.paid /\ [r EXCEPT !.rshares = y].pot = r.pot
        /\ [r EXCEPT !.rshares = y].win = r.win
    BY <1>3, <2>1 DEF PostRec
  <2>3. q = [r EXCEPT !.rshares = y]
    BY DEF y
  <2> HIDE DEF q
  <2> QED BY <1>3, <1>6, <2>2, <2>3 DEF y
<1> HIDE DEF q
<1>9. q # NoPost /\ q.rshares \in Nat
  BY <1>8, PostFields
<1>10. PostOK(q, v)
  <2>1. q.rshares = Total(v, Accounts)
    BY <1>3, <1>7, <1>8
  <2> QED BY <1>8, <1>9, <2>1 DEF PostOK
<1>11. /\ e \in BookType /\ e.cq = b.cq /\ e.post[p] = q /\ e.vote[p] = v
       /\ \A x \in Posts \ {p} : e.post[x] = b.post[x] /\ e.vote[x] = b.vote[x]
       /\ Worth(e, minted) = Worth(b, minted) - PotOf(b.post[p]) + PotOf(q)
  BY <1>1, <1>4, <1>7, <1>8, EditSound
<1> HIDE DEF e
<1>12. Worth(e, minted) = Worth(b, minted)
  <2>1. PotOf(b.post[p]) = 0 /\ PotOf(q) = 0
    BY <1>2, <1>3, <1>8 DEF PotOf
  <2>2. Worth(b, minted) \in Nat
    BY <1>1, <1>4, WorthNat
  <2> QED BY <1>11, <2>1, <2>2
<1>13. \A x \in Posts : PostOK(e.post[x], e.vote[x])
  BY <1>1, <1>10, <1>11 DEF BooksOK
<1> DEFINE f == e.post
<1>14. f \in Rows /\ f[p] = q /\ \A x \in Posts \ {p} : f[x] = post[x]
  BY <1>2, <1>11 DEF BookType
<1> HIDE DEF f
<1>15. ASSUME NEW w \in Windows
       PROVE  /\ Total(OpenShares(f, w), Posts) \in Nat
              /\ Total(OpenShares(post, w), Posts) \in Nat
              /\ OpenShares(post, w)[p] <= Total(OpenShares(post, w), Posts)
              /\ Total(OpenShares(f, w), Posts)
                   = Total(OpenShares(post, w), Posts)
                     + (IF w = r.win THEN new - mine ELSE 0)
  <2>1. /\ Total(OpenShares(post, w), Posts) \in Nat /\ Total(OpenShares(f, w), Posts) \in Nat
        /\ OpenShares(post, w)[p] <= Total(OpenShares(post, w), Posts)
        /\ Total(OpenShares(f, w), Posts)
             = Total(OpenShares(post, w), Posts) - OpenShares(post, w)[p] + OpenShares(f, w)[p]
    BY <1>1, <1>14, SharesChange
  <2>2. OpenShares(f, w)[p] = IF w = r.win THEN q.rshares ELSE 0
    BY <1>8, <1>9, <1>14 DEF OpenShares
  <2>3. OpenShares(post, w)[p] = IF w = r.win THEN r.rshares ELSE 0
    BY <1>3
  <2> QED BY <1>3, <1>7, <1>8, <2>1, <2>2, <2>3
<1>16. mine <= rshares[r.win]
  <2> DEFINE w == r.win
             t == Total(OpenShares(post, w), Posts)
  <2>1. rshares[w] = stale[w] + t
    BY <1>3 DEF PobInv
  <2>2. OpenShares(post, w)[p] = r.rshares
    BY <1>3
  <2>3. t \in Nat /\ r.rshares <= t
    BY <1>3, <1>15, <2>2
  <2>4. stale[w] \in Nat /\ rshares[w] \in Nat
    BY <1>3, <1>4
  <2>5. mine <= r.rshares
    BY <1>3, <1>7
  <2> HIDE DEF w, t
  <2>6. mine <= rshares[w]
    BY <1>3, <1>7, <2>1, <2>3, <2>4, <2>5
  <2> QED BY <2>6 DEF w
<1>17. /\ e.post[p] # NoPost /\ ~ e.post[p].paid /\ e.post[p].win = r.win
       /\ e.post[p].rshares = r.rshares - mine + new
  BY <1>8, <1>9, <1>11
<1>18. mine \in Nat /\ r.win \in Windows /\ e.vote[p][a] = new
       /\ \A x \in Accounts \ {a} : e.vote[p][x] = votes[x]
  BY <1>3, <1>7, <1>11
<1>19. /\ e.cq = cq /\ \A x \in Posts \ {p} : e.post[x] = post[x] /\ e.vote[x] = vote[x]
  BY <1>2, <1>11
<1> QED BY <1>11, <1>12, <1>13, <1>15, <1>16, <1>17, <1>18, <1>19
        DEF f, e, q, v, mine, votes, r, b, Cast

\* A vote that is withdrawn gives back what it counted for (Vote, weight 0).
LEMMA UnvoteSound ==
  ASSUME PobInv, NEW p \in Posts, NEW a \in Accounts, Unvote(a, p)
  PROVE  PobInv' /\ Fair
<1> DEFINE r == Target(p)
           mine == vote[p][a]
           q == [r EXCEPT !.rshares = @ - mine + 0]
           v == [vote[p] EXCEPT ![a] = 0]
           s == Cast(p, a, 0)
<1>1. /\ RestType /\ Recent /\ BooksOK(Books) /\ post \in Rows /\ vote \in Ballots
      /\ acts \in 0 .. MaxActs /\ MaxActs \in Nat /\ 0 \in Nat
      /\ rshares \in [Windows -> Nat]
  BY BooksTyped, PobConstants DEF RestType
<1>2. /\ UNCHANGED <<day, acc_day, pool, power, cq, pend, bal, minted, burned, recycled, stale>>
      /\ acts' = acts + 1 /\ acts < MaxActs /\ post[p] # NoPost /\ ~ post[p].paid
      /\ post' = [post EXCEPT ![p].rshares = @ - vote[p][a]]
      /\ vote' = [vote EXCEPT ![p][a] = 0]
      /\ rshares' = [rshares EXCEPT ![post[p].win] = @ - vote[p][a]]
  BY DEF Unvote, Act, UnvoteAccepted, Registered, VotingOpen
<1>3. r = post[p] /\ r \in PostRec
  BY <1>1, <1>2 DEF Target, Registered, Rows
<1>4. r.win \in Windows /\ r.rshares \in Nat /\ mine \in Nat
  BY <1>1, <1>3, PostFields DEF Ballots
<1>5. SetBooks(s)
  <2>1. r.rshares - mine + 0 = r.rshares - mine
    BY <1>4
  <2>2. DOMAIN post = Posts /\ DOMAIN vote = Posts
    BY <1>1 DEF Rows, Ballots
  <2>3. [post EXCEPT ![p] = q] = [post EXCEPT ![p].rshares = @ - vote[p][a]]
    BY <1>3, <2>1, <2>2
  <2>4. [vote EXCEPT ![p] = v] = [vote EXCEPT ![p][a] = 0]
    BY <2>2
  <2> DEFINE b == Books
  <2>5. s = Edit(b, p, q, v)
    BY DEF Cast
  <2> HIDE DEF q, v, s
  <2>6. /\ b.post = post /\ b.vote = vote /\ b.cq = cq /\ b.pend = pend /\ b.bal = bal
        /\ b.burned = burned
        /\ DOMAIN b = {"post", "vote", "cq", "pend", "bal", "burned"}
    BY DEF Books
  <2> HIDE DEF b
  <2>7. s.post = [post EXCEPT ![p] = q] /\ s.vote = [vote EXCEPT ![p] = v] /\ s.cq = cq
        /\ s.pend = pend /\ s.bal = bal /\ s.burned = burned
    BY <2>5, <2>6 DEF Edit
  <2> QED BY <1>2, <2>3, <2>4, <2>7 DEF SetBooks
<1>6. ~ r.paid
  BY <1>2, <1>3
<1> HIDE DEF s
<1>7. /\ s \in BookType /\ s.cq = cq /\ Worth(s, minted) = Worth(Books, minted)
      /\ \A x \in Posts : PostOK(s.post[x], s.vote[x])
      /\ \A x \in Posts \ {p} : s.post[x] = post[x] /\ s.vote[x] = vote[x]
      /\ s.vote[p][a] = 0 /\ \A b \in Accounts \ {a} : s.vote[p][b] = vote[p][b]
      /\ ~ s.post[p].paid
      /\ mine \in Nat /\ mine <= rshares[r.win]
      /\ \A w \in Windows :
           /\ Total(OpenShares(s.post, w), Posts) \in Nat
           /\ Total(OpenShares(post, w), Posts) \in Nat
           /\ Total(OpenShares(s.post, w), Posts)
                = Total(OpenShares(post, w), Posts) + (IF w = r.win THEN 0 - mine ELSE 0)
  <2> DEFINE z == 0
  <2>1. z \in Nat /\ ~ Target(p).paid
    BY <1>6
  <2> HIDE DEF z, r, mine
  <2>2. Cast(p, a, z) \in BookType
    BY <2>1, BallotSound
  <2>3. /\ Cast(p, a, z).cq = cq
        /\ Worth(Cast(p, a, z), minted) = Worth(Books, minted)
        /\ Cast(p, a, z).vote[p][a] = z
        /\ \A b \in Accounts \ {a} : Cast(p, a, z).vote[p][b] = vote[p][b]
        /\ ~ Cast(p, a, z).post[p].paid
        /\ vote[p][a] \in Nat /\ vote[p][a] <= rshares[Target(p).win]
    BY <2>1, BallotSound
  <2>4. \A x \in Posts : PostOK(Cast(p, a, z).post[x], Cast(p, a, z).vote[x])
    BY <2>1, BallotSound
  <2>5. \A x \in Posts \ {p} :
             Cast(p, a, z).post[x] = post[x] /\ Cast(p, a, z).vote[x] = vote[x]
    BY <2>1, BallotSound
  <2>6. \A w \in Windows :
             /\ Total(OpenShares(Cast(p, a, z).post, w), Posts) \in Nat
             /\ Total(OpenShares(post, w), Posts) \in Nat
             /\ Total(OpenShares(Cast(p, a, z).post, w), Posts)
                  = Total(OpenShares(post, w), Posts)
                    + (IF w = Target(p).win THEN z - vote[p][a] ELSE 0)
    BY <2>1, BallotSound
  <2> QED BY <2>2, <2>3, <2>4, <2>5, <2>6 DEF s, r, mine, z
<1> HIDE DEF r, v, q
<1>8. BooksOK(s)
  <2>1. ASSUME NEW x \in Posts, NEW b \in Accounts, s.vote[x][b] > 0,
               s.post[x].paid => s.post[x].pot > 0
        PROVE  \E n \in DOMAIN s.cq[b] : s.cq[b][n] = x
    <3>1. CASE x # p
      <4>1. vote[x][b] > 0 /\ (post[x].paid => post[x].pot > 0)
        BY <1>7, <2>1, <3>1
      <4> QED BY <1>1, <1>7, <4>1 DEF BooksOK, Queued, Books
    <3>2. CASE x = p
      <4>1. b # a
        <5>1. s.vote[p][a] = 0
          BY <1>7
        <5>2. ~ (s.vote[p][a] > 0)
          BY <5>1
        <5> QED BY <2>1, <3>2, <5>2
      <4>2. vote[p][b] > 0
        BY <1>7, <2>1, <3>2, <4>1
      <4> QED BY <1>1, <1>2, <1>7, <3>2, <4>2 DEF BooksOK, Queued, Books
    <3> QED BY <3>1, <3>2
  <2> QED BY <1>7, <2>1 DEF BooksOK, Queued
<1> HIDE DEF mine
<1>9. \A w \in Windows : rshares'[w] = rshares[w] + (IF w = r.win THEN 0 - mine ELSE 0)
  BY <1>1, <1>2, <1>3, <1>4 DEF mine
<1>10. ASSUME NEW w \in Windows
       PROVE  rshares'[w] = stale'[w] + Total(OpenShares(s.post, w), Posts)
  <2> DEFINE t0 == Total(OpenShares(post, w), Posts)
             t1 == Total(OpenShares(s.post, w), Posts)
             d  == IF w = r.win THEN 0 - mine ELSE 0
  <2>1. t0 \in Nat /\ t1 = t0 + d /\ d \in Int
    BY <1>7
  <2>2. rshares'[w] = rshares[w] + d
    BY <1>9
  <2>3. rshares[w] = stale[w] + t0 /\ rshares[w] \in Nat /\ stale[w] \in Nat
    BY <1>1 DEF PobInv, RestType
  <2> HIDE DEF t0, t1, d
  <2>4. rshares'[w] = stale[w] + t1
    BY <2>1, <2>2, <2>3
  <2> QED BY <1>2, <2>4 DEF t1
<1>11. RestType' /\ Recent'
  <2>1. rshares' \in [Windows -> Nat]
    <3> DEFINE y == rshares[r.win] - mine
    <3>1. y \in Nat
      BY <1>1, <1>4, <1>7
    <3>2. rshares' = [rshares EXCEPT ![r.win] = y]
      BY <1>2, <1>3 DEF mine
    <3> HIDE DEF y
    <3> QED BY <1>1, <3>1, <3>2
  <2>2. acts' \in 0 .. MaxActs
    BY <1>1, <1>2
  <2> QED BY <1>1, <1>2, <2>1, <2>2 DEF RestType, Recent
<1>12. Total(pool', Windows) + Worth(s, minted') + recycled'
         = acc_day' * Total(DayEmission, Windows) + Funds * Cardinality(Accounts)
  BY <1>2, <1>7, ValueNat
<1>13. PobInv'
  BY <1>5, <1>8, <1>10, <1>11, <1>12, StepSound
<1>14. Fair
  <2>1. post' = s.post
    BY <1>5 DEF SetBooks
  <2>2. ASSUME NEW x \in Posts, post[x] # NoPost /\ post[x].paid PROVE Moved(post[x], s.post[x])
    <3>1. x # p
      BY <1>2, <2>2
    <3>2. s.post[x] = post[x] /\ post[x] \in PostRec \union {NoPost}
      BY <1>1, <1>7, <3>1 DEF Rows
    <3> QED BY <3>2, MovedNot
  <2> QED BY <2>1, <2>2 DEF Fair
<1> QED BY <1>13, <1>14

\* Promoting burns what it takes from the account (PromotePost).
LEMMA PromoteSound ==
  ASSUME PobInv, NEW p \in Posts, NEW a \in Accounts, PromotePost(a, p)
  PROVE  PobInv' /\ Fair
<1> DEFINE x == PromoteMinBurn
           r == post[p]
           q == [r EXCEPT !.promoted = @ + x]
           f == [post EXCEPT ![p] = q]
           c == [bal EXCEPT ![a] = @ - x]
           s == [post |-> f, vote |-> vote, cq |-> cq, pend |-> pend, bal |-> c,
                 burned |-> burned + x]
<1>1. /\ RestType /\ Recent /\ BooksOK(Books) /\ post \in Rows /\ vote \in Ballots
      /\ pend \in Pends /\ bal \in [Accounts -> Nat] /\ burned \in Nat
      /\ cq \in [Accounts -> Seq(Posts \union {None})]
      /\ acts \in 0 .. MaxActs /\ MaxActs \in Nat /\ x \in Nat
  BY BooksTyped, PobConstants DEF RestType
<1>2. /\ UNCHANGED <<day, acc_day, pool, rshares, vote, power, cq, pend, minted, recycled, stale>>
      /\ acts' = acts + 1 /\ acts < MaxActs /\ r # NoPost /\ ~ r.paid /\ bal[a] >= x
      /\ post' = [post EXCEPT ![p].promoted = @ + x]
      /\ bal' = c /\ burned' = burned + x
  BY DEF PromotePost, Act, PromoteAccepted, Registered
<1>3. r \in PostRec
  BY <1>1, <1>2 DEF Rows
<1>4. post' = f
  BY <1>1, <1>2 DEF Rows
<1> HIDE DEF r, x
<1>5. /\ q \in PostRec /\ q.pot = r.pot /\ q.rshares = r.rshares /\ q.paid = r.paid
      /\ q.win = r.win /\ q.potRshares = r.potRshares
  <2> DEFINE y == r.promoted + x
  <2>1. y \in Nat
    BY <1>1, <1>3, PostFields
  <2> HIDE DEF y
  <2>2. LET z == [r EXCEPT !.promoted = y]
        IN  /\ z \in PostRec /\ z.pot = r.pot /\ z.rshares = r.rshares /\ z.paid = r.paid
            /\ z.win = r.win /\ z.potRshares = r.potRshares
    BY <1>3, <2>1 DEF PostRec
  <2>3. q = [r EXCEPT !.promoted = y]
    BY DEF y
  <2> HIDE DEF q
  <2> QED BY <2>2, <2>3
<1>6. q # NoPost
  BY <1>5, PostFields
<1> HIDE DEF q
<1>7. f \in Rows /\ f[p] = q /\ \A y \in Posts \ {p} : f[y] = post[y]
  BY <1>1, <1>5 DEF Rows
<1>8. /\ c \in [Accounts -> Nat] /\ c[a] = bal[a] - x /\ bal[a] \in Nat
      /\ \A y \in Accounts \ {a} : c[y] = bal[y]
  <2> DEFINE z == bal[a] - x
  <2>1. z \in Nat /\ bal[a] \in Nat
    BY <1>1, <1>2
  <2>2. c = [bal EXCEPT ![a] = z]
    OBVIOUS
  <2> HIDE DEF z, c
  <2>3. c \in [Accounts -> Nat] /\ c[a] = z /\ \A y \in Accounts \ {a} : c[y] = bal[y]
    BY <1>1, <2>1, <2>2
  <2> QED BY <2>1, <2>3 DEF z
<1> HIDE DEF f, c
<1>9. s \in BookType
  <2>1. burned + x \in Nat
    BY <1>1
  <2> QED BY <1>1, <1>7, <1>8, <2>1 DEF BookType
<1>10. /\ s.post = f /\ s.vote = vote /\ s.cq = cq /\ s.pend = pend /\ s.bal = c
       /\ s.burned = burned + x
  OBVIOUS
<1> HIDE DEF s
<1>11. SetBooks(s)
  BY <1>2, <1>4, <1>10 DEF SetBooks
<1>12. \A y \in Posts : PostOK(post[y], vote[y])
  BY <1>1 DEF BooksOK, Books
<1>13. BooksOK(s)
  <2>1. PostOK(q, vote[p])
    <3>1. PostOK(r, vote[p])
      BY <1>12 DEF r
    <3> QED BY <1>2, <1>5, <1>6, <3>1 DEF PostOK
  <2>2. \A y \in Posts : PostOK(s.post[y], s.vote[y])
    BY <1>7, <1>10, <1>12, <2>1
  <2>3. \A y \in Posts : s.post[y].paid = post[y].paid /\ s.post[y].pot = post[y].pot
    BY <1>5, <1>7, <1>10 DEF r
  <2>4. Queued(Books)
    BY <1>1 DEF BooksOK
  <2>5. Queued(s)
    BY <1>10, <2>3, <2>4 DEF Queued, Books
  <2> QED BY <1>9, <2>2, <2>5 DEF BooksOK
<1>14. ASSUME NEW w \in Windows
       PROVE  Total(OpenShares(s.post, w), Posts) = Total(OpenShares(post, w), Posts)
  <2>1. \A y \in Posts : OpenShares(f, w)[y] = OpenShares(post, w)[y]
    BY <1>2, <1>5, <1>6, <1>7 DEF OpenShares, r
  <2>2. Total(OpenShares(f, w), Posts) = Total(OpenShares(post, w), Posts)
    BY <2>1, TotalSame
  <2> QED BY <1>10, <2>2
<1>15. Worth(s, minted) = Worth(Books, minted)
  <2> DEFINE t0 == Total(PotsOf(post), Posts)
             t1 == Total(PotsOf(f), Posts)
             h0 == Total(HoldsOf(pend, bal, minted), Accounts)
             h1 == Total(HoldsOf(pend, c, minted), Accounts)
             d0 == pend[a].balance
             b0 == bal[a]
             m0 == minted[a]
  <2>1. Worth(Books, minted) = t0 + h0 + burned /\ Worth(s, minted) = t1 + h1 + (burned + x)
    BY <1>10 DEF Worth, Books
  <2>2. t1 = t0
    <3>1. \A y \in Posts : PotsOf(f)[y] = PotsOf(post)[y]
      BY <1>2, <1>5, <1>6, <1>7 DEF PotsOf, r
    <3> QED BY <3>1, TotalSame
  <2>3. minted \in [Accounts -> Nat]
    BY <1>1 DEF RestType
  <2>4. h0 \in Nat /\ h1 \in Nat /\ h1 = h0 - (d0 + b0 + m0) + (d0 + (b0 - x) + m0)
    <3> DEFINE d == pend
               b == bal
               m == minted
    <3>1. /\ d \in Pends /\ b \in [Accounts -> Nat] /\ c \in [Accounts -> Nat]
          /\ m \in [Accounts -> Nat]
      BY <1>1, <1>8, <2>3
    <3>2. \A y \in Accounts \ {a} : d[y] = d[y] /\ c[y] = b[y] /\ m[y] = m[y]
      BY <1>8
    <3> HIDE DEF d, b, m
    <3>3. /\ Total(HoldsOf(d, b, m), Accounts) \in Nat
          /\ Total(HoldsOf(d, c, m), Accounts) \in Nat
          /\ Total(HoldsOf(d, c, m), Accounts)
               = Total(HoldsOf(d, b, m), Accounts) - (d[a].balance + b[a] + m[a])
                 + (d[a].balance + c[a] + m[a])
      BY <3>1, <3>2, HoldsChange
    <3> QED BY <1>8, <3>3 DEF d, b, m
  <2>5. d0 \in Nat /\ b0 \in Nat /\ m0 \in Nat /\ x \in Nat /\ burned \in Nat
    BY <1>1, <2>3 DEF Pends
  <2>6. t0 \in Nat
    BY <1>1, <1>7, PotsChange
  <2> HIDE DEF t0, t1, h0, h1, d0, b0, m0
  <2> QED BY <2>1, <2>2, <2>4, <2>5, <2>6
<1>16. acts' \in 0 .. MaxActs
  BY <1>1, <1>2
<1>17. PobInv'
  BY <1>2, <1>11, <1>13, <1>14, <1>15, <1>16, CalmStep
<1>18. Fair
  <2>1. ASSUME NEW y \in Posts, post[y] # NoPost /\ post[y].paid PROVE Moved(post[y], f[y])
    <3>1. y # p
      BY <1>2, <2>1 DEF r
    <3>2. f[y] = post[y] /\ post[y] \in PostRec \union {NoPost}
      BY <1>1, <1>7, <3>1 DEF Rows
    <3> QED BY <3>2, MovedNot
  <2> QED BY <1>4, <2>1 DEF Fair
<1> QED BY <1>17, <1>18

\* A post never takes more out of a pool than there is (poolClaim).
LEMMA PoolClaimBounds ==
  ASSUME NEW balance \in Nat, NEW total \in Nat, NEW mine \in Nat
  PROVE  PoolClaim(balance, total, mine) \in 0 .. balance
<1> DEFINE part == AtMost(mine, total)
<1>1. CASE mine = 0 \/ total = 0 \/ balance = 0
  BY <1>1 DEF PoolClaim
<1>2. CASE ~ (mine = 0 \/ total = 0 \/ balance = 0)
  <2>1. part \in Nat /\ part <= total /\ total \in Nat \ {0}
    BY <1>2 DEF AtMost
  <2> HIDE DEF part
  <2>2. MulDiv(balance, part, total) \in Nat /\ MulDiv(balance, part, total) <= balance
    BY <2>1, MulDivBounds, MulDivShrinks
  <2>3. PoolClaim(balance, total, mine) = MulDiv(balance, part, total)
    BY <1>2 DEF PoolClaim, part
  <2> QED BY <2>2, <2>3
<1> QED BY <1>1, <1>2

\* A closed post takes its part of the pool: the curators' into its pot, the
\* author's paid (Payout).
LEMMA PayoutSound ==
  ASSUME PobInv, NEW p \in Posts, NEW to \in Walks, Payout(p, to)
  PROVE  /\ PobInv' /\ Fair /\ vote' = vote /\ \A x \in Posts \ {p} : post'[x] = post[x]
         /\ post'[p] # NoPost /\ post'[p].rshares = post[p].rshares
<1> DEFINE r     == post[p]
           win   == r.win
           full  == Accrued(to)
           total == PoolClaim(full[win], rshares[win], r.rshares)
           pot   == MulDiv(total, CuratorPct, 100)
           left  == IF full[win] = 0 THEN r.rshares ELSE 0
           q     == IF total = 0 THEN [r EXCEPT !.paid = TRUE, !.paidDay = day]
                    ELSE [r EXCEPT !.paid = TRUE, !.paidDay = day, !.pot = pot,
                                   !.potRshares = r.rshares]
           v     == vote[p]
           b     == Books
           done  == Edit(b, p, q, v)
           s     == PayReward(done, AuthorOf[p], total - pot, r.mode)
<1>1. /\ RestType /\ Recent /\ BooksOK(b) /\ b \in BookType /\ day \in Nat /\ acc_day \in Nat
      /\ post \in Rows /\ vote \in Ballots
  BY BooksTyped
<1>2. /\ UNCHANGED <<day, power, minted, recycled, acts>>
      /\ r # NoPost /\ ~ r.paid /\ acc_day' = to
      /\ pool' = [full EXCEPT ![win] = @ - total]
      /\ rshares' = [rshares EXCEPT ![win] = @ - (r.rshares - left)]
      /\ stale' = [stale EXCEPT ![win] = @ + left]
  BY DEF Payout, PayoutAccepted, Registered
<1>3. SetBooks(s)
  <2> DEFINE o == [b EXCEPT !.post[p] = q]
  <2>1. SetBooks(PayReward(o, AuthorOf[p], total - pot, r.mode))
    BY DEF Payout
  <2> HIDE DEF q
  <2>2. [vote EXCEPT ![p] = vote[p]] = vote
    BY <1>1 DEF Ballots
  <2> DEFINE f == [post EXCEPT ![p] = q]
             d == [vote EXCEPT ![p] = vote[p]]
  <2>3. done = [b EXCEPT !.post = f, !.vote = d] /\ o = [b EXCEPT !.post = f]
    BY DEF Edit, Books
  <2> HIDE DEF done, o, f
  <2>4. done = [b EXCEPT !.post = f, !.vote = vote]
    BY <2>2, <2>3
  <2>5. [b EXCEPT !.post = f, !.vote = vote] = [b EXCEPT !.post = f]
    <3>1. b.vote = vote
      BY DEF Books
    <3>2. b \in [post : Rows, vote : Ballots, cq : [Accounts -> Seq(Posts \union {None})],
                 pend : Pends, bal : [Accounts -> Nat], burned : Nat]
      BY <1>1 DEF BookType
    <3> HIDE DEF b
    <3> QED BY <3>1, <3>2
  <2>6. done = o
    BY <2>3, <2>4, <2>5
  <2> HIDE DEF r, total, pot
  <2> QED BY <2>1, <2>6
<1>4. r \in PostRec
  BY <1>1, <1>2 DEF Rows
<1>5. PostOK(r, v)
  BY <1>1 DEF BooksOK, Books
<1> HIDE DEF r
<1>6. /\ win \in Windows /\ r.mode \in Modes /\ r.rshares \in Nat /\ r.pot = 0
      /\ r.rshares = Total(v, Accounts)
  BY <1>2, <1>4, <1>5, PostFields DEF PostOK
<1>7. to \in Nat /\ acc_day <= to /\ to <= day
  BY WalkBounds
<1>8. /\ full \in [Windows -> Nat]
      /\ Total(pool, Windows) \in Nat /\ Total(full, Windows) \in Nat
      /\ Total(full, Windows) + acc_day * Total(DayEmission, Windows)
           = Total(pool, Windows) + to * Total(DayEmission, Windows)
  BY <1>7, AccruedSound
<1>9. /\ rshares \in [Windows -> Nat] /\ stale \in [Windows -> Nat]
      /\ minted \in [Accounts -> Nat] /\ recycled \in Nat
  BY <1>1 DEF RestType
<1> HIDE DEF win, full
<1>10. full[win] \in Nat /\ rshares[win] \in Nat /\ stale[win] \in Nat
  BY <1>6, <1>8, <1>9
<1>11. total \in 0 .. full[win]
  BY <1>6, <1>10, PoolClaimBounds
<1>12. total \in Nat /\ total <= full[win]
  BY <1>10, <1>11
<1> HIDE DEF total
<1>13. pot \in 0 .. total
  BY <1>12, PobConstants, Percent
<1>14. pot \in Nat /\ total - pot \in Nat
  BY <1>12, <1>13
<1>15. left \in 0 .. r.rshares
  BY <1>6
<1> HIDE DEF pot, left
<1>16. /\ q \in PostRec /\ q.paid /\ q.pot = pot /\ q.rshares = r.rshares
       /\ q.pot > 0 => q.potRshares = r.rshares
  <2>1. CASE total = 0
    <3>1. pot = 0
      BY <1>13, <2>1
    <3>2. q = [r EXCEPT !.paid = TRUE, !.paidDay = day]
      BY <2>1
    <3> HIDE DEF q
    <3>3. q \in PostRec /\ q.paid /\ q.pot = r.pot /\ q.rshares = r.rshares
      BY <1>1, <1>4, <3>2 DEF PostRec
    <3>4. ~ (q.pot > 0)
      BY <1>6, <3>3
    <3> QED BY <1>6, <3>1, <3>3, <3>4
  <2>2. CASE total # 0
    <3>1. q = [r EXCEPT !.paid = TRUE, !.paidDay = day, !.pot = pot, !.potRshares = r.rshares]
      BY <2>2
    <3> HIDE DEF q
    <3> QED BY <1>1, <1>4, <1>6, <1>14, <3>1 DEF PostRec
  <2> QED BY <2>1, <2>2
<1> HIDE DEF q
<1>17. q # NoPost /\ q.potRshares \in Nat /\ q.pot \in Nat
  BY <1>16, PostFields
<1>18. v \in [Accounts -> Nat]
  BY <1>1 DEF Ballots
<1>19. PostOK(q, v)
  <2>1. q.pot > 0 => Total(v, Accounts) <= q.potRshares
    <3>1. ASSUME q.pot > 0 PROVE Total(v, Accounts) <= q.potRshares
      <4>1. q.potRshares = Total(v, Accounts) /\ q.potRshares \in Nat
        BY <1>6, <1>16, <1>17, <3>1
      <4> QED BY <4>1
    <3> QED BY <3>1
  <2> QED BY <1>16, <1>17, <2>1 DEF PostOK
<1>20. b.post = post /\ b.vote = vote /\ b.cq = cq /\ b.post[p] = r
  BY DEF Books, r
<1> HIDE DEF b
<1>21. /\ done \in BookType /\ done.cq = b.cq /\ done.post[p] = q /\ done.vote[p] = v
       /\ \A x \in Posts \ {p} : done.post[x] = b.post[x] /\ done.vote[x] = b.vote[x]
       /\ Worth(done, minted) = Worth(b, minted) - PotOf(b.post[p]) + PotOf(q)
  BY <1>1, <1>9, <1>16, <1>18, EditSound
<1> HIDE DEF done
<1>22. /\ s \in BookType /\ s.post = done.post /\ s.vote = done.vote /\ s.cq = done.cq
       /\ Worth(s, minted) = Worth(done, minted) + (total - pot)
  <2>1. AuthorOf[p] \in Accounts
    BY PobConstants
  <2> DEFINE amount == total - pot
             mode == r.mode
             who == AuthorOf[p]
  <2>2. amount \in Nat /\ mode \in Modes /\ who \in Accounts
    BY <1>6, <1>14, <2>1
  <2> HIDE DEF amount, mode, who
  <2>3. LET y == PayReward(done, who, amount, mode)
        IN  /\ y \in BookType /\ y.post = done.post /\ y.vote = done.vote /\ y.cq = done.cq
            /\ Worth(y, minted) = Worth(done, minted) + amount
    BY <1>1, <1>9, <1>21, <2>2, RewardSound
  <2> QED BY <2>3 DEF amount, mode, who
<1> HIDE DEF s
<1>23. Worth(s, minted) = Worth(b, minted) + total
  <2>1. PotOf(b.post[p]) = 0 /\ PotOf(q) = pot
    BY <1>2, <1>6, <1>16, <1>17, <1>20 DEF PotOf
  <2>2. Worth(b, minted) \in Nat
    BY <1>1, <1>9, WorthNat
  <2> QED BY <1>12, <1>14, <1>21, <1>22, <2>1, <2>2
<1>24. BooksOK(s)
  <2>1. \A x \in Posts : PostOK(s.post[x], s.vote[x])
    BY <1>1, <1>19, <1>21, <1>22 DEF BooksOK
  <2>2. ASSUME NEW x \in Posts, NEW a \in Accounts, s.vote[x][a] > 0,
               s.post[x].paid => s.post[x].pot > 0
        PROVE  \E n \in DOMAIN s.cq[a] : s.cq[a][n] = x
    <3>1. b.vote[x][a] > 0
      BY <1>20, <1>21, <1>22, <2>2
    <3>2. b.post[x].paid => b.post[x].pot > 0
      <4>1. CASE x = p
        BY <1>2, <1>20, <4>1
      <4>2. CASE x # p
        <5>1. s.post[x] = b.post[x]
          BY <1>21, <1>22, <4>2
        <5> QED BY <2>2, <5>1
      <4> QED BY <4>1, <4>2
    <3> QED BY <1>1, <1>21, <1>22, <3>1, <3>2 DEF BooksOK, Queued
  <2> QED BY <1>22, <2>1, <2>2 DEF BooksOK, Queued
<1>25. RestType' /\ Recent'
  <2>1. pool' \in [Windows -> Nat]
    <3> DEFINE y == full[win] - total
    <3>1. y \in Nat
      BY <1>10, <1>12
    <3>2. pool' = [full EXCEPT ![win] = y]
      BY <1>2
    <3> HIDE DEF y
    <3> QED BY <1>8, <3>1, <3>2
  <2>2. stale' \in [Windows -> Nat]
    <3> DEFINE y == stale[win] + left
    <3>1. y \in Nat
      BY <1>6, <1>10, <1>15
    <3>2. stale' = [stale EXCEPT ![win] = y]
      BY <1>2
    <3> HIDE DEF y
    <3> QED BY <1>9, <3>1, <3>2
  <2>3. r.rshares <= rshares[win]
    <3> DEFINE t == Total(OpenShares(post, win), Posts)
    <3>1. rshares[win] = stale[win] + t
      BY <1>6 DEF PobInv
    <3>2. t \in Nat /\ OpenShares(post, win)[p] <= t
      BY <1>1, <1>6, SharesChange
    <3>3. OpenShares(post, win)[p] = r.rshares
      BY <1>2 DEF OpenShares, r, win
    <3> HIDE DEF t
    <3> QED BY <1>6, <1>10, <3>1, <3>2, <3>3
  <2>4. rshares' \in [Windows -> Nat]
    <3> DEFINE y == rshares[win] - (r.rshares - left)
    <3>1. y \in Nat
      BY <1>6, <1>10, <1>15, <2>3
    <3>2. rshares' = [rshares EXCEPT ![win] = y]
      BY <1>2
    <3> HIDE DEF y
    <3> QED BY <1>9, <3>1, <3>2
  <2>5. acc_day' \in 0 .. day
    BY <1>1, <1>2, <1>7
  <2> QED BY <1>1, <1>2, <2>1, <2>2, <2>4, <2>5 DEF RestType, Recent
<1>26. ASSUME NEW w \in Windows
       PROVE  rshares'[w] = stale'[w] + Total(OpenShares(s.post, w), Posts)
  <2> DEFINE f  == s.post
             t0 == Total(OpenShares(post, w), Posts)
             t1 == Total(OpenShares(f, w), Posts)
             o0 == OpenShares(post, w)[p]
             o1 == OpenShares(f, w)[p]
             x0 == rshares[w]
             y0 == stale[w]
  <2>1. f \in Rows /\ f[p] = q /\ \A x \in Posts \ {p} : f[x] = post[x]
    BY <1>20, <1>21, <1>22 DEF BookType
  <2> HIDE DEF f
  <2>2. t0 \in Nat /\ t1 \in Nat /\ o0 <= t0 /\ t1 = t0 - o0 + o1
    BY <1>1, <2>1, SharesChange
  <2>3. o1 = 0
    BY <1>16, <2>1 DEF OpenShares
  <2>4. x0 = y0 + t0 /\ x0 \in Nat /\ y0 \in Nat
    BY <1>9 DEF PobInv
  <2>5. left \in Nat
    BY <1>6, <1>15
  <2>6. CASE w = win
    <3>1. o0 = r.rshares
      BY <1>2, <2>6 DEF OpenShares, r, win
    <3>2. rshares'[w] = x0 - (r.rshares - left) /\ stale'[w] = y0 + left
      BY <1>2, <1>9, <2>6
    <3> HIDE DEF t0, t1, o0, o1, x0, y0
    <3>3. rshares'[w] = stale'[w] + t1
      BY <1>6, <2>2, <2>3, <2>4, <2>5, <3>1, <3>2
    <3> QED BY <3>3 DEF t1, f
  <2>7. CASE w # win
    <3>1. o0 = 0
      BY <2>7 DEF OpenShares, r, win
    <3>2. rshares'[w] = x0 /\ stale'[w] = y0
      BY <1>2, <1>9, <2>7
    <3> HIDE DEF t0, t1, o0, o1, x0, y0
    <3>3. rshares'[w] = stale'[w] + t1
      BY <2>2, <2>3, <2>4, <3>1, <3>2
    <3> QED BY <3>3 DEF t1, f
  <2> QED BY <2>6, <2>7
<1>27. Total(pool', Windows) = Total(full, Windows) - total
  <2> DEFINE g == pool'
             y == full[win] - total
  <2>1. y \in Nat
    BY <1>10, <1>12
  <2>2. g = [full EXCEPT ![win] = y]
    BY <1>2
  <2>3. g[win] = y /\ \A w \in Windows \ {win} : g[w] = full[w]
    BY <1>6, <1>8, <2>2
  <2>4. \A w \in Windows : full[w] \in Nat
    BY <1>8
  <2>a. y = full[win] - total
    OBVIOUS
  <2> HIDE DEF g, y
  <2>b. IsFiniteSet(Windows) /\ win \in Windows /\ g[win] \in Nat
    BY <1>6, <2>1, <2>3, PobConstants
  <2>5. Total(g, Windows) = Total(full, Windows) - full[win] + g[win]
    BY ONLY <2>3, <2>4, <2>b, TotalUpdate
  <2>6. Total(g, Windows) = Total(full, Windows) - total
    BY <1>8, <1>10, <1>12, <2>3, <2>5, <2>a
  <2> QED BY <2>6 DEF g
<1>28. Total(pool', Windows) + Worth(s, minted') + recycled'
         = acc_day' * Total(DayEmission, Windows) + Funds * Cardinality(Accounts)
  <2> DEFINE a0 == acc_day * Total(DayEmission, Windows)
             a1 == to * Total(DayEmission, Windows)
             t0 == Total(pool, Windows)
             t1 == Total(full, Windows)
             t2 == Total(pool', Windows)
             b0 == Worth(b, minted)
             b1 == Worth(s, minted)
             k0 == Funds * Cardinality(Accounts)
  <2>1. a0 \in Nat /\ a1 \in Nat /\ t0 \in Nat /\ t1 \in Nat /\ b0 \in Nat /\ k0 \in Nat
        /\ recycled \in Nat
    BY <1>7, <1>8, ValueNat, ProductNat DEF b
  <2>2. t1 + a0 = t0 + a1 /\ t0 + b0 + recycled = a0 + k0
    BY <1>8, ValueNat DEF b
  <2>3. t2 = t1 - total /\ b1 = b0 + total
    BY <1>23, <1>27
  <2> HIDE DEF a0, a1, t0, t1, t2, b0, b1, k0
  <2>4. t2 + b1 + recycled = a1 + k0
    BY <1>12, <2>1, <2>2, <2>3
  <2> QED BY <1>2, <2>4 DEF a1, t2, b1, k0
<1>29. PobInv'
  BY <1>3, <1>24, <1>25, <1>26, <1>28, StepSound
<1>30. Fair
  <2>1. post' = s.post
    BY <1>3 DEF SetBooks
  <2>2. ASSUME NEW x \in Posts, post[x] # NoPost /\ post[x].paid PROVE Moved(post[x], s.post[x])
    <3>1. x # p
      BY <1>2, <2>2 DEF r
    <3>2. s.post[x] = post[x] /\ post[x] \in PostRec \union {NoPost}
      BY <1>1, <1>20, <1>21, <1>22, <3>1 DEF Rows
    <3> QED BY <3>2, MovedNot
  <2> QED BY <2>1, <2>2 DEF Fair
<1>31. /\ vote' = vote /\ \A x \in Posts \ {p} : post'[x] = post[x]
       /\ post'[p] # NoPost /\ post'[p].rshares = r.rshares
  <2>1. vote' = s.vote /\ post' = s.post
    BY <1>3 DEF SetBooks
  <2>2. s.post[p] = q /\ \A x \in Posts \ {p} : s.post[x] = post[x]
    BY <1>20, <1>21, <1>22
  <2>3. s.vote = vote
    <3>1. s.vote \in Ballots
      BY <1>22 DEF BookType
    <3>2. \A x \in Posts : s.vote[x] = vote[x]
      BY <1>20, <1>21, <1>22
    <3> QED BY <1>1, <3>1, <3>2 DEF Ballots
  <2> QED BY <1>16, <1>17, <2>1, <2>2, <2>3
<1> QED BY <1>29, <1>30, <1>31 DEF r

\* The power of a voter, and what a vote counts for (calculateVotingPower).
LEMMA VoteTyped ==
  ASSUME PobInv, NEW a \in Accounts, NEW w \in Windows, NEW weight,
         VoteCost(weight) \in 1 .. Current(power[a][w], w)
  PROVE  /\ Current(power[a][w], w) \in 0 .. MultScale
         /\ Current(power[a][w], w) - VoteCost(weight) \in 0 .. MultScale
         /\ VoteWeight(SharesOf(a), VoteCost(weight)) \in Nat
<1> DEFINE vp == power[a][w]
           cost == VoteCost(weight)
           left == Current(vp, w)
           more == MulDiv(day - vp.last, MultScale, PayoutDays[w])
<1>1. RestType /\ Recent /\ day \in Nat /\ acc_day \in Nat
  BY BooksTyped
<1>2. vp \in [power : 0 .. MultScale, last : 0 .. LastDay] /\ vp.last <= day
  BY <1>1 DEF RestType, Recent
<1>3. MultScale \in Nat \ {0} /\ PayoutDays[w] \in Nat \ {0} /\ LastDay \in Nat
  BY PobConstants
<1>4. vp.power \in Nat /\ vp.last \in Nat /\ day - vp.last \in Nat
  BY <1>1, <1>2, <1>3
<1>5. more \in Nat
  BY <1>3, <1>4, MulDivBounds
<1>6. left = AtMost(vp.power + more, MultScale)
  BY DEF Current
<1> HIDE DEF more, vp, left
<1>7. left \in 0 .. MultScale
  BY <1>3, <1>4, <1>5, <1>6 DEF AtMost
<1>8. cost \in 1 .. left
  BY DEF left, vp
<1> HIDE DEF cost
<1>9. cost \in Nat /\ left - cost \in 0 .. MultScale
  BY <1>3, <1>7, <1>8
<1>10. SharesOf(a) \in Nat
  <2>1. minted[a] \in Nat
    BY <1>1 DEF RestType
  <2>2. Stake[a] \in Nat
    BY PobConstants
  <2> QED BY <2>1, <2>2 DEF SharesOf
<1>11. VoteWeight(SharesOf(a), cost) \in Nat
  <2> DEFINE shares == SharesOf(a)
  <2>1. shares \in Nat
    BY <1>10
  <2> HIDE DEF shares
  <2>2. MulDiv(shares, cost, MultScale) \in Nat
    BY <1>3, <1>9, <2>1, MulDivBounds
  <2> QED BY <2>2 DEF VoteWeight, shares
<1> QED BY <1>7, <1>9, <1>11 DEF left, vp, cost

\* The slot of a first vote is appended, that of a re-vote is there (Vote).
Slots(p, a) == IF vote[p][a] = 0 THEN Append(cq[a], p) ELSE cq[a]

LEMMA SlotsSound ==
  ASSUME PobInv, NEW p \in Posts, NEW a \in Accounts
  PROVE  /\ Slots(p, a) \in Seq(Posts \union {None})
         /\ \A q \in Posts : (\E n \in DOMAIN cq[a] : cq[a][n] = q) =>
              \E n \in DOMAIN Slots(p, a) : Slots(p, a)[n] = q
         /\ vote[p][a] = 0 => \E n \in DOMAIN Slots(p, a) : Slots(p, a)[n] = p
<1> DEFINE c == cq[a]
           d == Slots(p, a)
<1>1. c \in Seq(Posts \union {None})
  BY BooksTyped
<1>2. CASE vote[p][a] = 0
  <2>1. d = Append(c, p)
    BY <1>2 DEF Slots
  <2> HIDE DEF c, d
  <2>2. /\ Append(c, p) \in Seq(Posts \union {None})
        /\ Len(Append(c, p)) = Len(c) + 1
        /\ \A i \in 1 .. Len(c) : Append(c, p)[i] = c[i]
        /\ Append(c, p)[Len(c) + 1] = p
    BY <1>1, AppendProperties
  <2>3. DOMAIN c = 1 .. Len(c) /\ Len(c) \in Nat
    BY <1>1
  <2>4. DOMAIN d = 1 .. Len(c) + 1
    BY <2>1, <2>2
  <2>5. ASSUME NEW q \in Posts, NEW n \in DOMAIN c, c[n] = q
        PROVE  \E i \in DOMAIN d : d[i] = q
    <3>1. n \in DOMAIN d /\ d[n] = q
      BY <2>1, <2>2, <2>3, <2>4, <2>5
    <3> QED BY <3>1
  <2>6. Len(c) + 1 \in DOMAIN d /\ d[Len(c) + 1] = p
    BY <2>1, <2>2, <2>3, <2>4
  <2> QED BY <2>1, <2>2, <2>5, <2>6 DEF c, d
<1>3. CASE vote[p][a] # 0
  <2>1. d = c
    BY <1>3 DEF Slots
  <2> QED BY <1>1, <1>3, <2>1
<1> QED BY <1>2, <1>3

\* A vote moves its post and window alike, is queued once, and drains a little
\* of the voter's queue (Vote).
LEMMA CastSound ==
  ASSUME PobInv, NEW p \in Posts, NEW a \in Accounts, NEW new \in Nat, ~ Target(p).paid
  PROVE  LET o == Requeue(Cast(p, a, new), a, Slots(p, a))
         IN  /\ BooksOK(o) /\ Worth(o, minted) = Worth(Books, minted)
             /\ o.post = Cast(p, a, new).post /\ o.vote = Cast(p, a, new).vote
<1> DEFINE e == Cast(p, a, new)
           c == Slots(p, a)
           o == Requeue(e, a, c)
           b == Books
<1>1. /\ RestType /\ BooksOK(b) /\ b \in BookType /\ post \in Rows /\ vote \in Ballots
  BY BooksTyped
<1>2. minted \in [Accounts -> Nat]
  BY <1>1 DEF RestType
<1>3. b.post = post /\ b.vote = vote /\ b.cq = cq
  BY DEF Books
<1>4. /\ e \in BookType /\ e.cq = cq /\ Worth(e, minted) = Worth(b, minted)
      /\ \A x \in Posts : PostOK(e.post[x], e.vote[x])
      /\ \A x \in Posts \ {p} : e.post[x] = post[x] /\ e.vote[x] = vote[x]
      /\ \A x \in Accounts \ {a} : e.vote[p][x] = vote[p][x]
      /\ vote[p][a] \in Nat
  BY BallotSound
<1>5. /\ c \in Seq(Posts \union {None})
      /\ \A q \in Posts : (\E n \in DOMAIN cq[a] : cq[a][n] = q) => \E n \in DOMAIN c : c[n] = q
      /\ vote[p][a] = 0 => \E n \in DOMAIN c : c[n] = p
  BY SlotsSound
<1> HIDE DEF e, c, b
<1>6. /\ o \in BookType /\ o.post = e.post /\ o.vote = e.vote /\ o.cq[a] = c
      /\ \A x \in Accounts \ {a} : o.cq[x] = e.cq[x]
      /\ Worth(o, minted) = Worth(e, minted)
  BY <1>2, <1>4, <1>5, RequeueSound
<1> HIDE DEF o
<1>7. ASSUME NEW x \in Posts, NEW y \in Accounts, \E n \in DOMAIN cq[y] : cq[y][n] = x
      PROVE  \E n \in DOMAIN o.cq[y] : o.cq[y][n] = x
  <2>1. CASE y = a
    <3>1. \E n \in DOMAIN c : c[n] = x
      BY <1>5, <1>7, <2>1
    <3> QED BY <1>6, <2>1, <3>1
  <2>2. CASE y # a
    <3>1. o.cq[y] = cq[y]
      BY <1>4, <1>6, <2>2
    <3> QED BY <1>7, <3>1
  <2> QED BY <2>1, <2>2
<1>8. ASSUME NEW y \in Accounts, vote[p][y] > 0
      PROVE  \E n \in DOMAIN cq[y] : cq[y][n] = p
  <2>1. PostOK(post[p], vote[p]) /\ Queued(b)
    BY <1>1, <1>3 DEF BooksOK
  <2>2. post[p] # NoPost
    BY <1>8, <2>1 DEF PostOK
  <2>3. ~ post[p].paid
    BY <2>2 DEF Target, Registered
  <2> QED BY <1>3, <1>8, <2>1, <2>3 DEF Queued
<1>9. ASSUME NEW x \in Posts, NEW y \in Accounts, o.vote[x][y] > 0,
             o.post[x].paid => o.post[x].pot > 0
      PROVE  \E n \in DOMAIN o.cq[y] : o.cq[y][n] = x
  <2>1. CASE x # p
    <3>1. vote[x][y] > 0 /\ (post[x].paid => post[x].pot > 0)
      BY <1>4, <1>6, <1>9, <2>1
    <3>2. \E n \in DOMAIN cq[y] : cq[y][n] = x
      BY <1>1, <1>3, <3>1 DEF BooksOK, Queued
    <3> QED BY <1>7, <3>2
  <2>2. CASE x = p /\ y # a
    <3>1. vote[p][y] > 0
      BY <1>4, <1>6, <1>9, <2>2
    <3>2. \E n \in DOMAIN cq[y] : cq[y][n] = p
      BY <1>8, <3>1
    <3> QED BY <1>7, <2>2, <3>2
  <2>3. CASE x = p /\ y = a
    <3>1. CASE vote[p][a] = 0
      BY <1>5, <1>6, <2>3, <3>1
    <3>2. CASE vote[p][a] # 0
      <4>1. vote[p][a] > 0
        BY <1>4, <3>2
      <4>2. \E n \in DOMAIN cq[a] : cq[a][n] = p
        BY <1>8, <4>1
      <4> QED BY <1>7, <2>3, <4>2
    <3> QED BY <3>1, <3>2
  <2> QED BY <2>1, <2>2, <2>3
<1>10. BooksOK(o)
  <2>1. \A x \in Posts : PostOK(o.post[x], o.vote[x])
    BY <1>4, <1>6
  <2> QED BY <1>6, <1>9, <2>1 DEF BooksOK, Queued
<1> QED BY <1>4, <1>6, <1>10 DEF o, e, c, b

\* What the action writes is the ballot, the slots and a drain.
LEMMA VoteIs ==
  ASSUME PobInv, NEW p \in Posts, NEW a \in Accounts, NEW weight, Vote(a, p, weight)
  PROVE  LET w    == Target(p).win
             new  == VoteWeight(SharesOf(a), VoteCost(weight))
             left == Current(power[a][w], w)
         IN  /\ SetBooks(DrainCuration(Requeue(Cast(p, a, new), a, Slots(p, a)), a, PiggybackDrain))
             /\ power' = [power EXCEPT ![a][w] = [power |-> left - VoteCost(weight), last |-> day]]
             /\ rshares' = [rshares EXCEPT ![w] = @ - vote[p][a] + new]
             /\ UNCHANGED <<day, acc_day, pool, minted, recycled, stale>>
             /\ acts < MaxActs /\ acts' = acts + 1 /\ ~ Target(p).paid
             /\ VoteCost(weight) \in 1 .. left
<1> DEFINE r    == Target(p)
           w    == r.win
           left == Current(power[a][w], w)
           cost == VoteCost(weight)
           prev == vote[p][a]
           new  == VoteWeight(SharesOf(a), cost)
           q    == [r EXCEPT !.rshares = @ - prev + new]
           v    == [vote[p] EXCEPT ![a] = new]
           c    == Slots(p, a)
           o    == [Books EXCEPT !.post[p] = q, !.vote[p][a] = new,
                      !.cq[a] = IF prev = 0 THEN Append(@, p) ELSE @]
           x    == Requeue(Cast(p, a, new), a, c)
<1>1. /\ SetBooks(DrainCuration(o, a, PiggybackDrain))
      /\ power' = [power EXCEPT ![a][w] = [power |-> left - cost, last |-> day]]
      /\ rshares' = [rshares EXCEPT ![w] = @ - prev + new]
      /\ UNCHANGED <<day, acc_day, pool, minted, recycled, stale>>
      /\ acts < MaxActs /\ acts' = acts + 1 /\ ~ r.paid /\ cost \in 1 .. left
  BY DEF Vote, Act, VoteAccepted, VotingOpen, Replaced
<1>2. vote \in Ballots /\ post \in Rows /\ cq \in [Accounts -> Seq(Posts \union {None})]
  BY BooksTyped
<1>3. o = x
  <2> HIDE DEF r, new
  <2> DEFINE f == [post EXCEPT ![p] = q]
             d == [vote EXCEPT ![p] = v]
             g == [cq EXCEPT ![a] = c]
             t == [post |-> f, vote |-> d, cq |-> g, pend |-> pend, bal |-> bal,
                   burned |-> burned]
  <2>1. [vote EXCEPT ![p][a] = new] = d
    BY <1>2 DEF Ballots
  <2>2. [cq EXCEPT ![a] = IF prev = 0 THEN Append(@, p) ELSE @] = g
    BY <1>2 DEF Slots
  <2>3. o = t
    <3> DEFINE d1 == [vote EXCEPT ![p][a] = new]
               g1 == [cq EXCEPT ![a] = IF prev = 0 THEN Append(@, p) ELSE @]
    <3>1. o = [post |-> f, vote |-> d1, cq |-> g1, pend |-> pend, bal |-> bal,
               burned |-> burned]
      <4> DEFINE b == Books
                 z == IF prev = 0 THEN Append(b.cq[a], p) ELSE b.cq[a]
                 f2 == [b.post EXCEPT ![p] = q]
                 d2 == [b.vote EXCEPT ![p][a] = new]
                 g2 == [b.cq EXCEPT ![a] = z]
                 o2 == [b EXCEPT !.post[p] = q, !.vote[p][a] = new,
                          !.cq[a] = IF prev = 0 THEN Append(@, p) ELSE @]
      <4>1. b.post = post /\ b.vote = vote /\ b.cq = cq
        BY DEF Books
      <4>2. f2 = f /\ d2 = d1 /\ g2 = g1
        BY <4>1
      <4>3. o = [b EXCEPT !.post = f2, !.vote = d2, !.cq = g2]
        <5>1. o = o2
          OBVIOUS
        <5>2. o2 = [b EXCEPT !.post = f2, !.vote = d2, !.cq = g2]
          <6> HIDE DEF q, prev, b
          <6> QED OBVIOUS
        <5> HIDE DEF o, o2
        <5> QED BY <5>1, <5>2
      <4> HIDE DEF f2, d2, g2, o, f, d1, g1
      <4>4. o = [b EXCEPT !.post = f, !.vote = d1, !.cq = g1]
        BY <4>2, <4>3
      <4> QED BY <4>4 DEF Books
    <3>2. d1 = d /\ g1 = g
      BY <2>1, <2>2
    <3> HIDE DEF d1, g1, d, g, f, o
    <3> QED BY <3>1, <3>2
  <2>4. x = t
    <3>1. Cast(p, a, new) = [post |-> f, vote |-> d, cq |-> cq, pend |-> pend, bal |-> bal,
                             burned |-> burned]
      <4> HIDE DEF f, d
      <4> USE DEF f, d
      <4> HIDE DEF q, v
      <4>1. Cast(p, a, new) = Edit(Books, p, q, v)
        BY DEF Cast, r, q, v
      <4> QED BY <4>1 DEF Edit, Books
    <3> HIDE DEF f, d
    <3>2. x = [Cast(p, a, new) EXCEPT !.cq[a] = c]
      BY DEF Requeue
    <3> HIDE DEF x
    <3> QED BY <3>1, <3>2
  <2> HIDE DEF o, x, t
  <2> QED BY <2>3, <2>4
<1> HIDE DEF o
<1> QED BY <1>1, <1>3 DEF x, new, r, q

LEMMA VoteSound ==
  ASSUME PobInv, NEW p \in Posts, NEW a \in Accounts, NEW weight, Vote(a, p, weight)
  PROVE  PobInv' /\ Fair
<1> DEFINE w    == Target(p).win
           new  == VoteWeight(SharesOf(a), VoteCost(weight))
           left == Current(power[a][w], w)
           mine == vote[p][a]
           e    == Cast(p, a, new)
           o    == Requeue(e, a, Slots(p, a))
           s    == DrainCuration(o, a, PiggybackDrain)
           cost == VoteCost(weight)
<1>1. /\ SetBooks(s)
      /\ power' = [power EXCEPT ![a][w] = [power |-> left - cost, last |-> day]]
      /\ rshares' = [rshares EXCEPT ![w] = @ - mine + new]
      /\ UNCHANGED <<day, acc_day, pool, minted, recycled, stale>>
      /\ acts < MaxActs /\ acts' = acts + 1 /\ ~ Target(p).paid
      /\ cost \in 1 .. left
  BY VoteIs
<1>2. /\ RestType /\ Recent /\ post \in Rows /\ vote \in Ballots /\ day \in Nat
      /\ acts \in 0 .. MaxActs /\ MaxActs \in Nat /\ LastDay \in Nat
      /\ rshares \in [Windows -> Nat] /\ minted \in [Accounts -> Nat]
  BY BooksTyped, PobConstants DEF RestType
<1>3. w \in Windows
  BY TargetIs
<1>4. left - cost \in 0 .. MultScale /\ new \in Nat
  BY <1>1, <1>3, VoteTyped
<1> HIDE DEF new
<1>5. /\ \A x \in Posts \ {p} : e.post[x] = post[x]
      /\ mine \in Nat /\ mine <= rshares[w]
      /\ \A y \in Windows :
           /\ Total(OpenShares(e.post, y), Posts) \in Nat
           /\ Total(OpenShares(post, y), Posts) \in Nat
           /\ Total(OpenShares(e.post, y), Posts)
                = Total(OpenShares(post, y), Posts) + (IF y = w THEN new - mine ELSE 0)
  BY <1>1, <1>4, BallotSound
<1>6. BooksOK(o) /\ Worth(o, minted) = Worth(Books, minted) /\ o.post = e.post
  BY <1>1, <1>4, CastSound
<1> HIDE DEF o, e, mine, w, left, cost
<1>7. /\ BooksOK(s) /\ Worth(s, minted) = Worth(o, minted)
      /\ \A x \in Posts : Moved(o.post[x], s.post[x])
  <2>1. PiggybackDrain \in Nat
    BY PobConstants
  <2> QED BY <1>2, <1>6, <2>1, DrainSound
<1> HIDE DEF s
<1>8. \A y \in Windows : OpenShares(s.post, y) = OpenShares(e.post, y)
  <2>1. \A x \in Posts : Moved(e.post[x], s.post[x])
    BY <1>6, <1>7
  <2> QED BY <2>1, SharesKept
<1>9. ASSUME NEW y \in Windows
      PROVE  rshares'[y] = stale'[y] + Total(OpenShares(s.post, y), Posts)
  <2> DEFINE t0 == Total(OpenShares(post, y), Posts)
             t1 == Total(OpenShares(e.post, y), Posts)
             d  == IF y = w THEN new - mine ELSE 0
  <2>1. t0 \in Nat /\ t1 = t0 + d /\ d \in Int
    BY <1>4, <1>5
  <2>2. rshares'[y] = rshares[y] + d
    BY <1>1, <1>2, <1>3, <1>4, <1>5
  <2>3. rshares[y] = stale[y] + t0 /\ rshares[y] \in Nat /\ stale[y] \in Nat
    BY <1>2 DEF PobInv, RestType
  <2> HIDE DEF t0, t1, d
  <2>4. rshares'[y] = stale[y] + t1
    BY <2>1, <2>2, <2>3
  <2> QED BY <1>1, <1>8, <2>4 DEF t1
<1>10. RestType' /\ Recent'
  <2>1. rshares' \in [Windows -> Nat]
    <3> DEFINE y == rshares[w] - mine + new
    <3>1. y \in Nat
      BY <1>2, <1>3, <1>4, <1>5
    <3>2. rshares' = [rshares EXCEPT ![w] = y]
      BY <1>1
    <3> HIDE DEF y
    <3> QED BY <1>2, <3>1, <3>2
  <2>2. acts' \in 0 .. MaxActs
    BY <1>1, <1>2
  <2> DEFINE z == [power |-> left - cost, last |-> day]
  <2>3. z \in [power : 0 .. MultScale, last : 0 .. LastDay] /\ z.last = day
    BY <1>2, <1>4 DEF RestType
  <2>4. power' = [power EXCEPT ![a][w] = z]
    BY <1>1
  <2> HIDE DEF z
  <2>5. power \in [Accounts -> [Windows -> [power : 0 .. MultScale, last : 0 .. LastDay]]]
    BY <1>2 DEF RestType
  <2>6. power' \in [Accounts -> [Windows -> [power : 0 .. MultScale, last : 0 .. LastDay]]]
    BY <1>3, <2>3, <2>4, <2>5
  <2>7. ASSUME NEW x \in Accounts, NEW y \in Windows PROVE power'[x][y].last <= day
    <3>1. power'[x][y] = IF x = a /\ y = w THEN z ELSE power[x][y]
      BY <2>4, <2>5
    <3>2. CASE x = a /\ y = w
      BY <1>2, <2>3, <3>1, <3>2
    <3>3. CASE ~ (x = a /\ y = w)
      BY <1>2, <3>1, <3>3 DEF Recent
    <3> QED BY <3>2, <3>3
  <2>8. Recent'
    BY <1>1, <2>7 DEF Recent
  <2> QED BY <1>1, <1>2, <2>1, <2>2, <2>6, <2>8 DEF RestType
<1>11. Total(pool', Windows) + Worth(s, minted') + recycled'
         = acc_day' * Total(DayEmission, Windows) + Funds * Cardinality(Accounts)
  BY <1>1, <1>6, <1>7, ValueNat
<1>12. PobInv'
  BY <1>1, <1>7, <1>9, <1>10, <1>11, StepSound
<1>13. Fair
  <2>1. post' = s.post
    BY <1>1 DEF SetBooks
  <2>2. ASSUME NEW x \in Posts, post[x] # NoPost /\ post[x].paid PROVE Moved(post[x], s.post[x])
    <3>1. x # p
      <4>1. ~ (post[p] # NoPost /\ post[p].paid)
        BY <1>1, TargetIs
      <4> QED BY <2>2, <4>1
    <3>2. e.post[x] = post[x]
      BY <1>5, <3>1
    <3>3. Moved(e.post[x], s.post[x])
      BY <1>6, <1>7
    <3> QED BY <3>2, <3>3
  <2> QED BY <2>1, <2>2 DEF Fair
<1> QED BY <1>12, <1>13

\* What an account waits for, written anew.
Repend(s, a, x) == [s EXCEPT !.pend[a] = x]

\* An account waits for less by what is minted to it, and nobody else is touched.
Exchanged(d, m, e, n, a) ==
  /\ \A x \in Accounts \ {a} : e[x] = d[x] /\ n[x] = m[x]
  /\ e[a].balance + n[a] = d[a].balance + m[a]

\* What the accounts hold is the same after such an exchange.
LEMMA HoldsKept ==
  ASSUME NEW d \in Pends, NEW b \in [Accounts -> Nat], NEW m \in [Accounts -> Nat],
         NEW e \in Pends, NEW n \in [Accounts -> Nat],
         NEW a \in Accounts, Exchanged(d, m, e, n, a)
  PROVE  Total(HoldsOf(e, b, n), Accounts) = Total(HoldsOf(d, b, m), Accounts)
<1> DEFINE f == HoldsOf(d, b, m)
           g == HoldsOf(e, b, n)
<1>1. ASSUME NEW x \in Accounts PROVE g[x] = f[x]
  <2>1. e[x].balance \in Nat /\ d[x].balance \in Nat /\ b[x] \in Nat /\ m[x] \in Nat /\ n[x] \in Nat
    BY DEF Pends
  <2>2. e[x].balance + n[x] = d[x].balance + m[x]
    BY DEF Exchanged
  <2>3. f[x] = d[x].balance + b[x] + m[x] /\ g[x] = e[x].balance + b[x] + n[x]
    BY DEF HoldsOf
  <2> QED BY <2>1, <2>2, <2>3
<1> HIDE DEF f, g
<1>2. Total(g, Accounts) = Total(f, Accounts)
  BY <1>1, TotalSame
<1> QED BY <1>2 DEF f, g

\* What leaves the pending balance of an account becomes shares of its own.
LEMMA RependSound ==
  ASSUME NEW s \in BookType, NEW m \in [Accounts -> Nat], NEW n \in [Accounts -> Nat],
         NEW a \in Accounts, NEW x \in [balance : Nat, lastEpoch : Nat],
         Exchanged(s.pend, m, [s.pend EXCEPT ![a] = x], n, a)
  PROVE  LET r == Repend(s, a, x)
         IN  /\ r \in BookType /\ r.post = s.post /\ r.vote = s.vote /\ r.cq = s.cq
             /\ Worth(r, n) = Worth(s, m)
<1> DEFINE r == Repend(s, a, x)
           e == [s.pend EXCEPT ![a] = x]
           d == s.pend
           b == s.bal
<1>1. d \in Pends /\ b \in [Accounts -> Nat]
  BY WorthNat
<1>2. e \in Pends
  BY <1>1 DEF Pends
<1>3. r = [s EXCEPT !.pend = e]
  BY DEF Repend
<1>4. Exchanged(d, m, e, n, a)
  OBVIOUS
<1> HIDE DEF e, r
<1>5. /\ r \in BookType /\ r.post = s.post /\ r.vote = s.vote /\ r.cq = s.cq
      /\ r.pend = e /\ r.bal = b /\ r.burned = s.burned
  BY <1>2, <1>3 DEF BookType
<1>6. Worth(s, m) = Total(PotsOf(s.post), Posts) + Total(HoldsOf(d, b, m), Accounts) + s.burned
      /\ Worth(r, n) = Total(PotsOf(s.post), Posts) + Total(HoldsOf(e, b, n), Accounts) + s.burned
  BY <1>5 DEF Worth
<1> HIDE DEF d, b
<1>7. Total(HoldsOf(e, b, n), Accounts) = Total(HoldsOf(d, b, m), Accounts)
  BY <1>1, <1>2, <1>4, HoldsKept
<1> QED BY <1>5, <1>6, <1>7 DEF r

\* The queue is drained, and what is pending is minted when it is due
\* (SettlePending).
LEMMA PendingSound ==
  ASSUME PobInv, NEW a \in Accounts, SettlePending(a)
  PROVE  PobInv' /\ \A x \in Posts : Moved(post[x], post'[x])
<1> DEFINE s == DrainCuration(Books, a, MaxCurationDrain)
           p == s.pend[a]
           due == p.lastEpoch # 0 /\ Epoch > p.lastEpoch /\ p.balance >= MinMintAmount
           x0 == [balance |-> p.balance,
                  lastEpoch |-> IF p.lastEpoch = 0 THEN Epoch ELSE p.lastEpoch]
           x1 == [balance |-> 0, lastEpoch |-> Epoch]
           t0 == Repend(s, a, x0)
           t1 == Repend(s, a, x1)
<1>1. /\ RestType /\ Recent /\ BooksOK(Books) /\ day \in Nat /\ acc_day \in Nat
      /\ post \in Rows /\ minted \in [Accounts -> Nat] /\ acts \in 0 .. MaxActs
      /\ Epoch \in Nat
  <2>1. RestType /\ Recent /\ BooksOK(Books) /\ day \in Nat /\ acc_day \in Nat /\ post \in Rows
    BY BooksTyped
  <2>2. Epoch \in Nat
    BY <2>1, PobConstants DEF Epoch
  <2> QED BY <2>1, <2>2 DEF RestType
<1> DEFINE calm == /\ SetBooks([s EXCEPT !.pend[a].lastEpoch = IF @ = 0 THEN Epoch ELSE @])
                   /\ UNCHANGED <<day, acc_day, pool, rshares, power, minted, recycled, stale, acts>>
           mint == /\ day \in Walks
                   /\ SetBooks(t1)
                   /\ minted' = [minted EXCEPT ![a] = @ + p.balance]
                   /\ acc_day' = day /\ pool' = Accrued(day)
                   /\ UNCHANGED <<day, rshares, power, recycled, stale, acts>>
<1>2. calm \/ mint
  BY DEF SettlePending, Repend
<1>3. /\ BooksOK(s) /\ Worth(s, minted) = Worth(Books, minted)
      /\ \A x \in Posts : Moved(post[x], s.post[x])
  <2>1. MaxCurationDrain \in Nat
    BY PobConstants
  <2>2. \A x \in Posts : Books.post[x] = post[x]
    BY DEF Books
  <2>3. /\ BooksOK(s) /\ Worth(s, minted) = Worth(Books, minted)
        /\ \A x \in Posts : Moved(Books.post[x], s.post[x])
    BY <1>1, <2>1, DrainSound
  <2> QED BY <2>2, <2>3
<1> HIDE DEF s, Epoch
<1>4. s \in BookType /\ s.pend \in Pends
  BY <1>1, <1>3, WorthNat DEF BooksOK
<1>5. p.balance \in Nat /\ p.lastEpoch \in Nat /\ p \in [balance : Nat, lastEpoch : Nat]
  BY <1>4 DEF Pends
<1>6. \A w \in Windows : OpenShares(s.post, w) = OpenShares(post, w)
  BY <1>3, SharesKept
<1>7. ASSUME calm PROVE PobInv' /\ post' = s.post
  <2>1. [s EXCEPT !.pend[a].lastEpoch = IF @ = 0 THEN Epoch ELSE @] = t0
    <3> DEFINE l == IF p.lastEpoch = 0 THEN Epoch ELSE p.lastEpoch
               y == [p EXCEPT !.lastEpoch = l]
    <3>1. y = x0
      <4> HIDE DEF p
      <4> QED BY <1>5
    <3>2. DOMAIN s.pend = Accounts
      BY <1>4 DEF Pends
    <3>3. [s EXCEPT !.pend[a].lastEpoch = IF @ = 0 THEN Epoch ELSE @]
            = [s EXCEPT !.pend = [s.pend EXCEPT ![a] = y]]
      OBVIOUS
    <3>4. t0 = [s EXCEPT !.pend = [s.pend EXCEPT ![a] = x0]]
      BY DEF Repend
    <3> HIDE DEF y, x0, t0
    <3> QED BY <3>1, <3>3, <3>4
  <2>2. SetBooks(t0)
    BY <1>7, <2>1
  <2>3. x0 \in [balance : Nat, lastEpoch : Nat] /\ x0.balance = p.balance
    BY <1>1, <1>5
  <2> HIDE DEF x0
  <2>4. Exchanged(s.pend, minted, [s.pend EXCEPT ![a] = x0], minted, a)
    BY <1>4, <2>3 DEF Exchanged, Pends
  <2>6. /\ t0 \in BookType /\ t0.post = s.post /\ t0.vote = s.vote /\ t0.cq = s.cq
        /\ Worth(t0, minted) = Worth(s, minted)
    BY <1>1, <1>4, <2>3, <2>4, RependSound
  <2> HIDE DEF t0
  <2>7. BooksOK(t0)
    BY <1>3, <2>6 DEF BooksOK, Queued
  <2>8. PobInv'
    BY <1>1, <1>3, <1>6, <1>7, <2>2, <2>6, <2>7, CalmStep
  <2>9. post' = s.post
    BY <2>2, <2>6 DEF SetBooks
  <2> QED BY <2>8, <2>9
<1>8. ASSUME mint PROVE PobInv' /\ post' = s.post
  <2> DEFINE n == [minted EXCEPT ![a] = @ + p.balance]
  <2>1. /\ n \in [Accounts -> Nat] /\ n[a] = minted[a] + p.balance
        /\ \A b \in Accounts \ {a} : n[b] = minted[b]
    <3> DEFINE y == minted[a] + p.balance
    <3>1. y \in Nat
      BY <1>1, <1>5
    <3> HIDE DEF y
    <3>2. LET z == [minted EXCEPT ![a] = y]
          IN  z \in [Accounts -> Nat] /\ z[a] = y /\ \A b \in Accounts \ {a} : z[b] = minted[b]
      BY <1>1, <3>1
    <3> QED BY <3>2 DEF y
  <2>2. minted' = n
    BY <1>8
  <2> HIDE DEF n
  <2>3. x1 \in [balance : Nat, lastEpoch : Nat] /\ x1.balance + n[a] = s.pend[a].balance + minted[a]
    <3>1. minted[a] \in Nat
      BY <1>1
    <3>2. x1 \in [balance : Nat, lastEpoch : Nat] /\ x1.balance = 0
      BY <1>1
    <3> HIDE DEF x1
    <3> QED BY <1>5, <2>1, <3>1, <3>2
  <2> HIDE DEF x1
  <2>12. Exchanged(s.pend, minted, [s.pend EXCEPT ![a] = x1], n, a)
    BY <1>4, <2>1, <2>3 DEF Exchanged, Pends
  <2>4. /\ t1 \in BookType /\ t1.post = s.post /\ t1.vote = s.vote /\ t1.cq = s.cq
        /\ Worth(t1, n) = Worth(s, minted)
    BY <1>1, <1>4, <2>1, <2>3, <2>12, RependSound
  <2>5. SetBooks(t1)
    BY <1>8
  <2> HIDE DEF t1
  <2>6. BooksOK(t1)
    BY <1>3, <2>4 DEF BooksOK, Queued
  <2>7. /\ Accrued(day) \in [Windows -> Nat]
        /\ Total(pool, Windows) \in Nat /\ Total(Accrued(day), Windows) \in Nat
        /\ Total(Accrued(day), Windows) + acc_day * Total(DayEmission, Windows)
             = Total(pool, Windows) + day * Total(DayEmission, Windows)
    <3>1. acc_day <= day
      BY <1>1 DEF RestType
    <3> QED BY <1>1, <3>1, AccruedSound
  <2>8. RestType' /\ Recent'
    <3>1. day \in 0 .. day
      BY <1>1
    <3>2. minted' \in [Accounts -> Nat]
      BY <2>1, <2>2
    <3> QED BY <1>1, <1>8, <2>7, <3>1, <3>2 DEF RestType, Recent
  <2>9. \A w \in Windows : rshares'[w] = stale'[w] + Total(OpenShares(t1.post, w), Posts)
    BY <1>6, <1>8, <2>4 DEF PobInv
  <2>10. Total(pool', Windows) + Worth(t1, minted') + recycled'
           = acc_day' * Total(DayEmission, Windows) + Funds * Cardinality(Accounts)
    <3> DEFINE a0 == acc_day * Total(DayEmission, Windows)
               a1 == day * Total(DayEmission, Windows)
               p0 == Total(pool, Windows)
               p1 == Total(Accrued(day), Windows)
               b0 == Worth(Books, minted)
               k0 == Funds * Cardinality(Accounts)
    <3>1. a0 \in Nat /\ a1 \in Nat /\ p0 \in Nat /\ p1 \in Nat /\ b0 \in Nat /\ k0 \in Nat
          /\ recycled \in Nat
      BY <1>1, <2>7, ValueNat, ProductNat
    <3>2. p1 + a0 = p0 + a1 /\ p0 + b0 + recycled = a0 + k0
      BY <2>7, ValueNat
    <3>3. Worth(t1, minted') = b0
      BY <1>3, <2>2, <2>4
    <3> HIDE DEF a0, a1, p0, p1, b0, k0
    <3>4. p1 + b0 + recycled = a1 + k0
      BY <3>1, <3>2
    <3> QED BY <1>8, <3>3, <3>4 DEF a1, p1, k0
  <2>11. PobInv'
    BY <2>5, <2>6, <2>8, <2>9, <2>10, StepSound
  <2>13. post' = s.post
    BY <2>4, <2>5 DEF SetBooks
  <2> QED BY <2>11, <2>13
<1> QED BY <1>2, <1>3, <1>7, <1>8

-----------------------------------------------------------------------------
(* The theorems.                                                           *)

\* Nothing is posted, voted or paid at first.
LEMMA InitSound ==
  ASSUME Init
  PROVE  PobInv
<1>1. /\ day = 0 /\ acc_day = 0 /\ burned = 0 /\ recycled = 0 /\ acts = 0
      /\ pool = [w \in Windows |-> 0] /\ rshares = [w \in Windows |-> 0]
      /\ stale = [w \in Windows |-> 0]
      /\ post = [p \in Posts |-> NoPost] /\ vote = [p \in Posts |-> [a \in Accounts |-> 0]]
      /\ cq = [a \in Accounts |-> <<>>]
      /\ pend = [a \in Accounts |-> [balance |-> 0, lastEpoch |-> 0]]
      /\ bal = [a \in Accounts |-> Funds] /\ minted = [a \in Accounts |-> 0]
      /\ power = [a \in Accounts |-> [w \in Windows |-> [power |-> MultScale, last |-> 0]]]
  BY DEF Init
<1>2. Funds \in Nat /\ MultScale \in Nat /\ MaxActs \in Nat /\ LastDay \in Nat
  BY PobConstants
<1>3. RestType
  BY <1>1, <1>2 DEF RestType
<1>4. Recent
  BY <1>1 DEF Recent
<1>5. BooksOK(Books)
  <2>1. /\ post \in Rows /\ vote \in Ballots /\ pend \in Pends /\ bal \in [Accounts -> Nat]
        /\ burned \in Nat
    BY <1>1, <1>2 DEF Rows, Ballots, Pends
  <2>2. cq \in [Accounts -> Seq(Posts \union {None})]
    <3>1. <<>> \in Seq(Posts \union {None})
      OBVIOUS
    <3> QED BY <1>1, <3>1
  <2>3. Books \in BookType
    BY <2>1, <2>2 DEF Books, BookType
  <2>4. ASSUME NEW p \in Posts PROVE PostOK(Books.post[p], Books.vote[p])
    <3>1. Books.post[p] = NoPost /\ \A a \in Accounts : Books.vote[p][a] = 0
      BY <1>1 DEF Books
    <3> QED BY <3>1 DEF PostOK
  <2>5. Queued(Books)
    <3>1. \A p \in Posts, a \in Accounts : Books.vote[p][a] = 0
      BY <1>1 DEF Books
    <3> QED BY <3>1 DEF Queued
  <2> QED BY <2>3, <2>4, <2>5 DEF BooksOK
<1>6. ASSUME NEW w \in Windows PROVE rshares[w] = stale[w] + Total(OpenShares(post, w), Posts)
  <2>1. \A p \in Posts : OpenShares(post, w)[p] = 0
    BY <1>1 DEF OpenShares
  <2>2. Total(OpenShares(post, w), Posts) = Cardinality(Posts) * 0
    BY <2>1, PobConstants, TotalConstant
  <2>3. Cardinality(Posts) \in Nat
    BY PobConstants, FS_CardinalityType
  <2> QED BY <1>1, <2>2, <2>3
<1>7. Total(pool, Windows) = 0
  <2>1. Total(pool, Windows) = Cardinality(Windows) * 0
    <3>1. \A w \in Windows : pool[w] = 0
      BY <1>1
    <3> QED BY <3>1, PobConstants, TotalConstant
  <2>2. Cardinality(Windows) \in Nat
    BY PobConstants, FS_CardinalityType
  <2> QED BY <2>1, <2>2
<1>8. Worth(Books, minted) = Cardinality(Accounts) * Funds
  <2>1. Total(PotsOf(post), Posts) = 0
    <3>1. \A p \in Posts : PotsOf(post)[p] = 0
      BY <1>1 DEF PotsOf
    <3>2. Total(PotsOf(post), Posts) = Cardinality(Posts) * 0
      BY <3>1, PobConstants, TotalConstant
    <3>3. Cardinality(Posts) \in Nat
      BY PobConstants, FS_CardinalityType
    <3> QED BY <3>2, <3>3
  <2>2. Total(HoldsOf(pend, bal, minted), Accounts) = Cardinality(Accounts) * Funds
    <3>1. \A a \in Accounts : HoldsOf(pend, bal, minted)[a] = Funds
      BY <1>1, <1>2 DEF HoldsOf
    <3> QED BY <1>2, <3>1, PobConstants, TotalConstant
  <2>3. Worth(Books, minted)
          = Total(PotsOf(post), Posts) + Total(HoldsOf(pend, bal, minted), Accounts) + burned
    BY DEF Worth, Books
  <2>4. Cardinality(Accounts) * Funds \in Nat
    BY PobConstants, FS_CardinalityType, ProductNat
  <2> DEFINE k == Cardinality(Accounts) * Funds
  <2> HIDE DEF k
  <2> QED BY <1>1, <2>1, <2>2, <2>3, <2>4 DEF k
<1>9. Total(pool, Windows) + Worth(Books, minted) + recycled
        = acc_day * Total(DayEmission, Windows) + Funds * Cardinality(Accounts)
  <2>1. Total(DayEmission, Windows) \in Nat
    <3>1. \A w \in Windows : DayEmission[w] \in Nat
      BY PobConstants
    <3> QED BY <3>1, PobConstants, TotalIsNat
  <2>2. Cardinality(Accounts) \in Nat
    BY PobConstants, FS_CardinalityType
  <2>3. Cardinality(Accounts) * Funds = Funds * Cardinality(Accounts)
        /\ Funds * Cardinality(Accounts) \in Nat
    BY <1>2, <2>2
  <2>4. acc_day * Total(DayEmission, Windows) = 0
    BY <1>1, <2>1
  <2> DEFINE k == Funds * Cardinality(Accounts)
  <2>5. Worth(Books, minted) = k /\ k \in Nat
    BY <1>8, <2>3
  <2> HIDE DEF k
  <2>6. Total(pool, Windows) + Worth(Books, minted) + recycled = k
    BY <1>1, <1>7, <2>5
  <2> QED BY <2>4, <2>5, <2>6 DEF k
<1> QED BY <1>3, <1>4, <1>5, <1>6, <1>9 DEF PobInv, RestType, Recent, TypeOK, BooksOK, BookType,
           Books, Rows, Ballots, Pends

\* A step that leaves the posts alone takes nothing from a pot.
LEMMA FairKept ==
  ASSUME post \in Rows, post' = post
  PROVE  Fair
<1>1. ASSUME NEW p \in Posts PROVE Moved(post[p], post[p])
  BY MovedNot DEF Rows
<1> QED BY <1>1 DEF Fair

\* No step breaks the invariant, or takes from a pot more than its part.
LEMMA NextSound ==
  ASSUME PobInv, [Next]_vars
  PROVE  PobInv' /\ Fair
<1>1. post \in Rows
  BY BooksTyped
<1>2. ASSUME UNCHANGED vars \/ Tick PROVE PobInv' /\ Fair
  <2>1. PobInv'
    BY <1>2, TickSound
  <2>2. post' = post
    BY <1>2 DEF vars, Tick
  <2> QED BY <2>1, <1>1, <2>2, FairKept
<1>3. ASSUME NEW to \in Walks, Settle(to) PROVE PobInv' /\ Fair
  <2>1. PobInv'
    BY <1>3, SettleSound
  <2>2. post' = post
    BY <1>3 DEF Settle
  <2> QED BY <2>1, <1>1, <2>2, FairKept
<1>4. ASSUME NEW p \in Posts, CreatePost(p) PROVE PobInv' /\ Fair
  <2>1. PobInv'
    BY <1>4, CreateSound
  <2>2. post[p] = NoPost /\ \A q \in Posts \ {p} : post'[q] = post[q]
    BY <1>1, <1>4 DEF CreatePost, Registered, Rows
  <2>3. ASSUME NEW q \in Posts, post[q] # NoPost /\ post[q].paid
        PROVE  Moved(post[q], post'[q])
    <3>1. q # p
      BY <2>2, <2>3
    <3>2. post'[q] = post[q] /\ post[q] \in PostRec \union {NoPost}
      BY <1>1, <2>2, <3>1 DEF Rows
    <3> DEFINE r == post[q]
    <3>3. Moved(r, r)
      <4>1. r \in PostRec \union {NoPost}
        BY <3>2
      <4> HIDE DEF r
      <4> QED BY <4>1, MovedNot
    <3> QED BY <3>2, <3>3
  <2> QED BY <2>1, <2>3 DEF Fair
<1>5. ASSUME NEW p \in Posts PROVE SweepCuration(p) => PobInv' /\ Fair
  BY SweepSound DEF Fair
<1>6. ASSUME NEW p \in Posts, NEW a \in Accounts PROVE ClaimCuration(p, a) => PobInv' /\ Fair
  BY ClaimSound DEF Fair
<1>7. ASSUME NEW a \in Accounts PROVE SettlePending(a) => PobInv' /\ Fair
  BY PendingSound DEF Fair
<1>8. CASE UNCHANGED vars
  BY <1>2, <1>8
<1>9. CASE Next
  BY <1>2, <1>3, <1>4, <1>5, <1>6, <1>7, <1>9, PayoutSound, VoteSound, UnvoteSound, PromoteSound
     DEF Next
<1> QED BY <1>8, <1>9

\* A step that queues nothing and unregisters nothing keeps the slots known.
LEMMA KnownKept ==
  ASSUME Known(Books), cq \in [Accounts -> Seq(Posts \union {None})], cq' = cq,
         \A q \in Posts : post[q] # NoPost => post'[q] # NoPost
  PROVE  Known(Books)'
<1>1. ASSUME NEW b \in Accounts, NEW n \in DOMAIN cq[b], cq[b][n] # None
      PROVE  post'[cq[b][n]] # NoPost
  <2>1. cq[b][n] \in Posts
    BY <1>1
  <2>2. post[cq[b][n]] # NoPost
    BY <1>1 DEF Known, Books
  <2> QED BY <2>1, <2>2
<1> QED BY <1>1 DEF Known, Books

\* A first vote queues the post it registers.
LEMMA CastKnown ==
  ASSUME PobInv, Known(Books), NEW p \in Posts, NEW a \in Accounts, NEW new \in Nat,
         ~ Target(p).paid
  PROVE  Known(Requeue(Cast(p, a, new), a, Slots(p, a)))
<1> DEFINE e == Cast(p, a, new)
           c == Slots(p, a)
           o == Requeue(e, a, c)
<1>1. /\ Books \in BookType /\ post \in Rows /\ vote \in Ballots
      /\ cq \in [Accounts -> Seq(Posts \union {None})] /\ minted \in [Accounts -> Nat]
  BY BooksTyped DEF RestType, PobInv, TypeOK
<1>2. /\ e \in BookType /\ e.cq = cq
      /\ \A x \in Posts \ {p} : e.post[x] = post[x]
  BY BallotSound
<1>3. e.post[p] # NoPost
  <2>1. Target(p) \in PostRec
    BY TargetIs
  <2> DEFINE q == [Target(p) EXCEPT !.rshares = @ - vote[p][a] + new]
  <2>2. q # NoPost
    <3>1. DOMAIN q = DOMAIN Target(p)
      OBVIOUS
    <3>2. DOMAIN Target(p) # DOMAIN NoPost
      BY <2>1 DEF PostRec, NoPost
    <3> HIDE DEF q
    <3> QED BY <3>1, <3>2
  <2>3. e.post[p] = q
    <3>1. e = Edit(Books, p, q, [vote[p] EXCEPT ![a] = new])
      BY DEF Cast
    <3> HIDE DEF q, e
    <3> QED BY <1>1, <3>1 DEF Edit, Books, Rows
  <2> QED BY <2>2, <2>3
<1>4. c \in Seq(Posts \union {None})
  BY SlotsSound
<1>5. \A n \in DOMAIN c : c[n] = p \/ \E k \in DOMAIN cq[a] : c[n] = cq[a][k]
  <2>1. CASE vote[p][a] = 0
    <3>1. c = Append(cq[a], p) /\ cq[a] \in Seq(Posts \union {None})
      BY <1>1, <2>1 DEF Slots
    <3> HIDE DEF c
    <3> QED BY <3>1
  <2>2. CASE vote[p][a] # 0
    BY <2>2 DEF Slots
  <2> QED BY <2>1, <2>2
<1> HIDE DEF e, c
<1>6. /\ o.post = e.post /\ o.cq[a] = c /\ \A b \in Accounts \ {a} : o.cq[b] = e.cq[b]
  BY <1>1, <1>2, <1>4, RequeueSound, SMTT(60)
<1> HIDE DEF o
<1>7. \A x \in Posts : post[x] # NoPost => o.post[x] # NoPost
  BY <1>2, <1>3, <1>6
<1>8. ASSUME NEW b \in Accounts, NEW n \in DOMAIN cq[b], cq[b][n] # None
      PROVE  o.post[cq[b][n]] # NoPost
  <2>1. cq[b][n] \in Posts
    BY <1>1, <1>8
  <2>2. post[cq[b][n]] # NoPost
    BY <1>8 DEF Known, Books
  <2> QED BY <1>7, <2>1, <2>2
<1>9. ASSUME NEW b \in Accounts, NEW n \in DOMAIN o.cq[b], o.cq[b][n] # None
      PROVE  o.post[o.cq[b][n]] # NoPost
  <2>1. CASE b # a
    BY <1>2, <1>6, <1>8, <1>9, <2>1
  <2>2. CASE b = a
    <3>1. c[n] = p \/ \E k \in DOMAIN cq[a] : c[n] = cq[a][k]
      BY <1>5, <1>6, <1>9, <2>2
    <3>2. CASE c[n] = p
      BY <1>3, <1>6, <2>2, <3>2
    <3>3. CASE \E k \in DOMAIN cq[a] : c[n] = cq[a][k]
      <4>1. PICK k \in DOMAIN cq[a] : c[n] = cq[a][k]
        BY <3>3
      <4>2. o.post[cq[a][k]] # NoPost
        BY <1>6, <1>8, <1>9, <2>2, <4>1
      <4> QED BY <1>6, <2>2, <4>1, <4>2
    <3> QED BY <3>1, <3>2, <3>3
  <2> QED BY <2>1, <2>2
<1> QED BY <1>9 DEF Known, o, e, c

LEMMA VoteKnown ==
  ASSUME PobInv, Known(Books), NEW p \in Posts, NEW a \in Accounts, NEW weight, Vote(a, p, weight)
  PROVE  Known(Books)'
<1> DEFINE new == VoteWeight(SharesOf(a), VoteCost(weight))
           o   == Requeue(Cast(p, a, new), a, Slots(p, a))
           s   == DrainCuration(o, a, PiggybackDrain)
           w   == Target(p).win
<1>1. /\ SetBooks(s) /\ ~ Target(p).paid /\ VoteCost(weight) \in 1 .. Current(power[a][w], w)
  BY VoteIs
<1>2. new \in Nat
  <2>1. w \in Windows
    BY TargetIs
  <2> HIDE DEF w
  <2> QED BY <1>1, <2>1, VoteTyped DEF w
<1> HIDE DEF new
<1>3. BooksOK(o) /\ Known(o)
  BY <1>1, <1>2, CastSound, CastKnown
<1>4. day \in Nat /\ PiggybackDrain \in Nat
  BY BooksTyped, PobConstants
<1> HIDE DEF o
<1>5. BooksOK(s) /\ Known(s)
  <2>1. Known(s)
    BY <1>3, <1>4, DrainKnown
  <2>2. Emptied(o, s, a, PiggybackDrain)
    BY <1>3, <1>4, DrainEmpties
  <2> QED BY <2>1, <2>2 DEF Emptied
<1> HIDE DEF s
<1>6. Books' = s
  BY <1>1, <1>5, BooksAre DEF BooksOK
<1> QED BY <1>5, <1>6 DEF Known

LEMMA PendingKnown ==
  ASSUME PobInv, Known(Books), NEW a \in Accounts, SettlePending(a)
  PROVE  Known(Books)'
<1> DEFINE s == DrainCuration(Books, a, MaxCurationDrain)
<1>1. BooksOK(Books) /\ day \in Nat /\ MaxCurationDrain \in Nat
  BY BooksTyped, PobConstants
<1>2. Known(s)
  BY <1>1, DrainKnown
<1>3. post' = s.post /\ cq' = s.cq
  BY DEF SettlePending, SetBooks
<1> HIDE DEF s
<1> QED BY <1>2, <1>3 DEF Known, Books

LEMMA ClaimKnown ==
  ASSUME PobInv, Known(Books), NEW p \in Posts, NEW a \in Accounts, ClaimCuration(p, a)
  PROVE  Known(Books)'
<1>1. cq \in [Accounts -> Seq(Posts \union {None})]
  BY DEF PobInv, TypeOK
<1>2. cq' = cq
  BY DEF ClaimCuration, SetBooks, Claimed, PayReward, AccruePending, Books
<1>3. \A q \in Posts : post[q] # NoPost => post'[q] # NoPost
  BY ClaimSound DEF Moved
<1> QED BY <1>1, <1>2, <1>3, KnownKept

LEMMA PayoutKnown ==
  ASSUME PobInv, Known(Books), NEW p \in Posts, NEW to \in Walks, Payout(p, to)
  PROVE  Known(Books)'
<1>1. cq \in [Accounts -> Seq(Posts \union {None})]
  BY DEF PobInv, TypeOK
<1>2. cq' = cq /\ \E q : post' = [post EXCEPT ![p] = q] /\ q # NoPost
  <2> DEFINE r     == post[p]
             full  == Accrued(to)
             total == PoolClaim(full[r.win], rshares[r.win], r.rshares)
             pot   == MulDiv(total, CuratorPct, 100)
             q     == IF total = 0 THEN [r EXCEPT !.paid = TRUE, !.paidDay = day]
                      ELSE [r EXCEPT !.paid = TRUE, !.paidDay = day, !.pot = pot,
                                     !.potRshares = r.rshares]
             done  == [Books EXCEPT !.post[p] = q]
  <2>1. SetBooks(PayReward(done, AuthorOf[p], total - pot, r.mode))
    BY DEF Payout
  <2>2. done.cq = cq /\ done.post = [post EXCEPT ![p] = q]
    <3> HIDE DEF q
    <3> QED BY DEF Books
  <2>3. q # NoPost
    <3>1. r # NoPost /\ post \in Rows
      BY BooksTyped DEF Payout, PayoutAccepted, Registered
    <3>2. r \in PostRec
      BY <3>1 DEF Rows
    <3>3. DOMAIN q = DOMAIN r
      <4> HIDE DEF r, total, pot
      <4> QED OBVIOUS
    <3>4. DOMAIN r # DOMAIN NoPost
      BY <3>2 DEF PostRec, NoPost
    <3> HIDE DEF q, r
    <3> QED BY <3>3, <3>4
  <2> HIDE DEF done, q, total, pot, r
  <2>4. cq' = done.cq /\ post' = done.post
    BY <2>1 DEF SetBooks, PayReward, AccruePending
  <2> QED BY <2>2, <2>3, <2>4
<1>3. \A q \in Posts : post[q] # NoPost => post'[q] # NoPost
  <2>1. post \in Rows
    BY BooksTyped
  <2> QED BY <1>2, <2>1 DEF Rows
<1> QED BY <1>1, <1>2, <1>3, KnownKept

LEMMA KnownStep ==
  ASSUME PobInv, Known(Books), [Next]_vars
  PROVE  Known(Books)'
<1>1. cq \in [Accounts -> Seq(Posts \union {None})] /\ post \in Rows
  BY BooksTyped DEF PobInv, TypeOK
<1>2. \A r \in PostRec : DOMAIN r # DOMAIN NoPost
  BY DEF PostRec, NoPost
<1>3. CASE UNCHANGED vars
  <2>1. cq' = cq /\ post' = post
    BY <1>3 DEF vars
  <2> QED BY <1>1, <2>1, KnownKept
<1>4. ASSUME Tick \/ \E to \in Walks : Settle(to) PROVE Known(Books)'
  <2>1. cq' = cq /\ post' = post
    BY <1>4 DEF Tick, Settle
  <2> QED BY <1>1, <2>1, KnownKept
<1>5. ASSUME NEW p \in Posts, CreatePost(p) \/ SweepCuration(p)
                              \/ \E a \in Accounts : Unvote(a, p) \/ PromotePost(a, p)
      PROVE  Known(Books)'
  <2>1. cq' = cq /\ \E q : post' = [post EXCEPT ![p] = q] /\ (DOMAIN q # DOMAIN NoPost)
    <3>1. CASE CreatePost(p)
      <4> DEFINE q == NewPost(WindowOf[p], ModeOf[p])
      <4>1. DOMAIN q # DOMAIN NoPost
        BY DEF NewPost, NoPost
      <4> HIDE DEF q
      <4>2. cq' = cq /\ post' = [post EXCEPT ![p] = q]
        BY <3>1 DEF CreatePost, q
      <4> QED BY <4>1, <4>2
    <3>2. CASE SweepCuration(p)
      <4> DEFINE r == post[p]
                 q == [r EXCEPT !.pot = 0, !.potRshares = 0]
      <4>1. cq' = cq /\ post' = [post EXCEPT ![p] = q]
        BY <3>2 DEF SweepCuration
      <4>2. r \in PostRec
        BY <1>1, <3>2 DEF SweepCuration, Registered, Rows
      <4> HIDE DEF r
      <4>3. DOMAIN q = DOMAIN r
        OBVIOUS
      <4>4. DOMAIN q # DOMAIN NoPost
        BY <1>2, <4>2, <4>3
      <4> HIDE DEF q
      <4> QED BY <4>1, <4>4
    <3>3. ASSUME NEW a \in Accounts, Unvote(a, p) \/ PromotePost(a, p)
          PROVE  cq' = cq /\ \E q : post' = [post EXCEPT ![p] = q] /\ (DOMAIN q # DOMAIN NoPost)
      <4> DEFINE r == post[p]
                 q == IF Unvote(a, p) THEN [r EXCEPT !.rshares = @ - vote[p][a]]
                      ELSE [r EXCEPT !.promoted = @ + PromoteMinBurn]
      <4>1. cq' = cq /\ post' = [post EXCEPT ![p] = q]
        <5>1. CASE Unvote(a, p)
          BY <5>1 DEF Unvote
        <5>2. CASE ~ Unvote(a, p)
          BY <3>3, <5>2 DEF PromotePost
        <5> QED BY <5>1, <5>2
      <4>2. r \in PostRec
        <5>1. r # NoPost
          BY <3>3 DEF Unvote, UnvoteAccepted, PromotePost, PromoteAccepted, Registered
        <5> QED BY <1>1, <5>1 DEF Rows
      <4> HIDE DEF r
      <4>3. DOMAIN q = DOMAIN r
        OBVIOUS
      <4>4. DOMAIN q # DOMAIN NoPost
        BY <1>2, <4>2, <4>3
      <4> HIDE DEF q
      <4> QED BY <4>1, <4>4
    <3> QED BY <1>5, <3>1, <3>2, <3>3
  <2>2. \A q \in Posts : post[q] # NoPost => post'[q] # NoPost
    BY <1>1, <2>1 DEF Rows
  <2> QED BY <1>1, <2>1, <2>2, KnownKept
<1>6. CASE Next
  BY <1>4, <1>5, <1>6, PayoutKnown, VoteKnown, ClaimKnown, PendingKnown DEF Next
<1> QED BY <1>3, <1>6

\* As many drains as there are slots pay what is due.
LEMMA DrainsReach ==
  ASSUME PobInv, Known(Books), NEW a \in Accounts, OpenSlots(a) = {}, NEW max \in Nat \ {0}
  PROVE  Drains(a, max)
<1> DEFINE n == Len(cq[a])
           s == Books
           f == CHOOSE f : f = [i \in 0 .. n |-> IF i = 0 THEN s ELSE DrainCuration(f[i - 1], a, max)]
           x == f[n]
<1>1. BooksOK(s) /\ s.cq = cq /\ s.post = post /\ s.vote = vote /\ day \in Nat
  <2>1. BooksOK(Books) /\ day \in Nat
    BY BooksTyped
  <2> QED BY <2>1 DEF Books
<1>2. n \in Nat /\ cq[a] \in Seq(Posts \union {None})
  <2>1. cq \in [Accounts -> Seq(Posts \union {None})]
    BY DEF PobInv, TypeOK
  <2> QED BY <2>1
<1>3. \A k \in DOMAIN s.cq[a] : Free(s, s.cq[a][k])
  <2> TAKE k \in DOMAIN s.cq[a]
  <2>1. k \notin OpenSlots(a) /\ s.cq[a][k] \in Posts \union {None}
    BY <1>1, <1>2
  <2>2. s.cq[a][k] # None => s.post[s.cq[a][k]] # NoPost
    BY DEF Known
  <2> HIDE DEF s
  <2>3. s.cq[a][k] \notin OpenPosts
    BY <1>1, <2>1 DEF OpenSlots
  <2> QED BY <1>1, <2>1, <2>2, <2>3 DEF Free, OpenPosts, Registered
<1>5. Reached(s, x, a, n)
  <2> HIDE DEF s
  <2>1. Reached(s, (CHOOSE g : g = [i \in 0 .. Len(s.cq[a]) |-> IF i = 0 THEN s
                       ELSE DrainCuration(g[i - 1], a, max)])[Len(s.cq[a])], a, Len(s.cq[a]))
    BY <1>1, <1>3, DrainsEmpty
  <2> QED BY <1>1, <2>1
<1> HIDE DEF n, s, f
<1>6. /\ BooksOK(x) /\ Len(x.cq[a]) + n <= n
      /\ \A q \in Posts : x.vote[q][a] = 0 \/ (x.vote[q][a] = vote[q][a] /\ x.post[q] = post[q])
  BY <1>1, <1>5 DEF Reached, n
<1> HIDE DEF x
<1>7. x \in BookType /\ x.cq[a] \in Seq(Posts \union {None}) /\ Queued(x)
  BY <1>6 DEF BooksOK, BookType
<1>8. DOMAIN x.cq[a] = {}
  <2>1. Len(x.cq[a]) \in Nat /\ DOMAIN x.cq[a] = 1 .. Len(x.cq[a])
    BY <1>7
  <2> QED BY <1>2, <1>6, <2>1
<1>9. ASSUME NEW p \in Posts, Due(p, a) PROVE x.vote[p][a] = 0
  <2>1. post[p].pot > 0 /\ vote[p][a] > 0
    BY <1>9 DEF Due, Pot, Registered
  <2>2. ~ (x.vote[p][a] > 0 /\ (x.post[p].paid => x.post[p].pot > 0))
    BY <1>7, <1>8 DEF Queued
  <2> QED BY <1>6, <2>1, <2>2
<1>10. Drains(a, max) <=> \A p \in Posts : Due(p, a) => x.vote[p][a] = 0
  BY DEF Drains, x, f, n, s
<1> QED BY <1>9, <1>10

(* The books of Proof of Brain, with all that keeps them so: the rows hold *)
(* values of their kinds, a post and the votes on it agree, each vote that *)
(* can be paid is queued, a window's rshares are those of its open posts,  *)
(* and every unit is accounted for, after any call of ProofOfBrain's.      *)
THEOREM PobInvariant == Spec => []PobInv
<1>1. Init => PobInv
  BY InitSound
<1>2. PobInv /\ [Next]_vars => PobInv'
  BY NextSound
<1> QED BY <1>1, <1>2, PTL DEF Spec

\* The total over the open posts of a window, of which others are no part.
LEMMA OpenTotal ==
  ASSUME NEW w
  PROVE  Total([p \in Posts |-> IF Registered(p) THEN post[p].rshares ELSE 0],
               {p \in OpenPosts : post[p].win = w})
           = Total(OpenShares(post, w), Posts)
<1> DEFINE f == [p \in Posts |-> IF Registered(p) THEN post[p].rshares ELSE 0]
           U == {p \in OpenPosts : post[p].win = w}
           g == OpenShares(post, w)
<1>1. \A p \in U : p \in Posts /\ g[p] = f[p]
  BY DEF OpenShares, OpenPosts, Registered
<1>2. \A p \in Posts \ U : g[p] = 0
  BY DEF OpenShares, OpenPosts, Registered
<1> HIDE DEF f, g, U
<1>3. Pairs(f, U) = Pairs(g, Posts)
  <2>1. \A p \in Posts \ U : {p} \X (1 .. g[p]) = {}
    BY <1>2
  <2>2. \A p \in U : {p} \X (1 .. f[p]) = {p} \X (1 .. g[p])
    BY <1>1
  <2>3. U \subseteq Posts
    BY <1>1
  <2> QED BY <2>1, <2>2, <2>3 DEF Pairs
<1>4. Total(f, U) = Total(g, Posts)
  BY <1>3 DEF Total
<1> QED BY <1>4 DEF f, g, U

\* The parts of BooksAreSound follow from the invariant.
LEMMA BooksFollow ==
  ASSUME PobInv
  PROVE  BooksAreSound
<1>1. BooksOK(Books) /\ post \in Rows
  BY BooksTyped
<1>2. \A p \in Posts : PostOK(post[p], vote[p])
  BY <1>1 DEF BooksOK, Books
<1>3. RsharesTrackVotes
  <2>1. \A w \in Windows :
          rshares[w] = stale[w] + Total([p \in Posts |-> IF Registered(p) THEN post[p].rshares ELSE 0],
                                        {p \in OpenPosts : post[p].win = w})
    BY OpenTotal DEF PobInv
  <2>2. \A p \in OpenPosts : post[p].rshares = Total(vote[p], Accounts)
    BY <1>2 DEF OpenPosts, Registered, PostOK
  <2> QED BY <2>1, <2>2 DEF RsharesTrackVotes
<1>4. PotCoversClaims
  BY <1>2 DEF PotCoversClaims, Pot, Registered, PostOK
<1>5. ValueConserved
  <2>1. [p \in Posts |-> Pot(p)] = PotsOf(post)
    BY DEF Pot, Registered, PotsOf
  <2>2. [a \in Accounts |-> pend[a].balance + bal[a] + minted[a]] = HoldsOf(pend, bal, minted)
    BY DEF HoldsOf
  <2>3. Worth(Books, minted)
          = Total(PotsOf(post), Posts) + Total(HoldsOf(pend, bal, minted), Accounts) + burned
    BY DEF Worth, Books
  <2>4. /\ Total(PotsOf(post), Posts) \in Nat /\ burned \in Nat
        /\ Total(HoldsOf(pend, bal, minted), Accounts) \in Nat
    <3>1. Books \in BookType /\ minted \in [Accounts -> Nat]
      BY BooksTyped DEF RestType
    <3>2. /\ Total(PotsOf(Books.post), Posts) \in Nat /\ Books.burned \in Nat
          /\ Total(HoldsOf(Books.pend, Books.bal, minted), Accounts) \in Nat
      BY <3>1, WorthNat
    <3> QED BY <3>2 DEF Books
  <2> DEFINE t0 == Total(PotsOf(post), Posts)
             h0 == Total(HoldsOf(pend, bal, minted), Accounts)
             p0 == Total(pool, Windows)
             k0 == acc_day * Total(DayEmission, Windows) + Funds * Cardinality(Accounts)
  <2>5. p0 \in Nat /\ recycled \in Nat
    BY ValueNat
  <2>6. p0 + (t0 + h0 + burned) + recycled = k0
    BY <2>3, ValueNat
  <2>7. t0 \in Nat /\ h0 \in Nat /\ burned \in Nat
    BY <2>4
  <2> HIDE DEF t0, h0, p0, k0
  <2>8. p0 + t0 + h0 + burned + recycled = k0
    BY <2>5, <2>6, <2>7
  <2> USE DEF t0, h0, p0, k0
  <2>9. Total(pool, Windows)
          + Total([p \in Posts |-> Pot(p)], Posts)
          + Total([a \in Accounts |-> pend[a].balance + bal[a] + minted[a]], Accounts)
          + burned + recycled
        = acc_day * Total(DayEmission, Windows) + Funds * Cardinality(Accounts)
    <3>1. Total([p \in Posts |-> Pot(p)], Posts) = t0
      BY <2>1
    <3>2. Total([a \in Accounts |-> pend[a].balance + bal[a] + minted[a]], Accounts) = h0
      BY <2>2
    <3> QED BY ONLY <2>8, <3>1, <3>2
  <2> QED BY ONLY <2>9 DEF ValueConserved
<1> QED BY <1>3, <1>4, <1>5 DEF BooksAreSound, PobInv

(* A window's rshares count the votes of its open posts, no pot owes more  *)
(* votes than it is divided by, and what is emitted for content is never   *)
(* lost or paid twice, through votes, re-votes, withdrawn votes, payouts,  *)
(* claims, drains, sweeps and monthly mints (Vote, Payout, SettlePending). *)
THEOREM BooksStaySound == Spec => []BooksAreSound
<1>1. PobInv => BooksAreSound
  BY BooksFollow
<1> QED BY <1>1, PobInvariant, PTL

(* The queue forgets no curator: a vote that can still be paid has a slot  *)
(* in its voter's queue (Vote queues only a first vote, DrainCuration      *)
(* leaves the slots of open posts).                                        *)
THEOREM CurationIsRemembered == Spec => []NoCurationForgotten
<1>1. PobInv => NoCurationForgotten
  <2>1. BooksOK(Books) => Queued(Books)
    BY DEF BooksOK
  <2> QED BY <2>1 DEF PobInv, Queued, NoCurationForgotten, Books
<1> QED BY <1>1, PobInvariant, PTL

(* The slots of a queue are those of posts there are (Vote).                *)
LEMMA SlotsStayKnown == Spec => [](PobInv /\ Known(Books))
<1>1. Init => PobInv /\ Known(Books)
  <2>1. Init => \A b \in Accounts : DOMAIN cq[b] = {}
    BY DEF Init
  <2> QED BY <2>1, InitSound DEF Known, Books
<1>2. PobInv /\ Known(Books) /\ [Next]_vars => PobInv' /\ Known(Books)'
  BY NextSound, KnownStep
<1> QED BY <1>1, <1>2, PTL DEF Spec

(* Every curation is paid in the end however small the drains are: a vote  *)
(* that can still be paid has a slot in its voter's queue, and as many     *)
(* drains as the queue has slots pay all of a queue whose posts are all    *)
(* paid, of any account, in any state (DrainCuration).                     *)
THEOREM QueuesPayAll == Spec => []QueuePaysAll
<1>1. PobInv /\ Known(Books) => QueueDrains
  <2>1. PiggybackDrain \in Nat \ {0}
    BY ProofOfBrainAssumption
  <2> QED BY <2>1, DrainsReach DEF QueueDrains
<1>2. (PobInv /\ Known(Books)) /\ NoCurationForgotten => QueuePaysAll
  BY <1>1 DEF QueuePaysAll
<1> QED BY <1>2, CurationIsRemembered, SlotsStayKnown, PTL

(* Claims in any order are fair to those who come later: by no step does   *)
(* the pot of a paid post lose more than its part (ClaimCuration).         *)
THEOREM LateCuratorsAreSafe == Spec => LateCuratorsLoseNothing
<1> DEFINE A == \A p \in Posts : (Pot(p) > 0 /\ post[p]'.potRshares > 0) =>
                  post[p]'.pot * post[p].potRshares >= post[p].pot * post[p]'.potRshares
<1>1. PobInv /\ [Next]_vars => A
  <2> SUFFICES ASSUME PobInv, [Next]_vars, NEW p \in Posts, Pot(p) > 0,
                      post[p]'.potRshares > 0
               PROVE  post[p]'.pot * post[p].potRshares >= post[p].pot * post[p]'.potRshares
    OBVIOUS
  <2>1. post[p] # NoPost /\ post[p].pot > 0
    BY DEF Pot, Registered
  <2>2. PostOK(post[p], vote[p]) /\ post[p] \in PostRec
    <3>1. BooksOK(Books) /\ post \in Rows
      BY BooksTyped
    <3> QED BY <2>1, <3>1 DEF BooksOK, Books, Rows
  <2>3. post[p].paid
    <3>1. ~ post[p].paid => post[p].pot = 0
      BY <2>1, <2>2 DEF PostOK
    <3> QED BY <2>1, <3>1
  <2>4. Moved(post[p], post'[p])
    <3>1. Fair
      BY NextSound
    <3> QED BY <2>1, <2>3, <3>1 DEF Fair
  <2> QED BY <2>1, <2>3, <2>4 DEF Moved
<1>2. PobInv /\ [Next]_vars => [A]_vars
  BY <1>1
<1> QED BY <1>2, PobInvariant, PTL DEF Spec, LateCuratorsLoseNothing

-----------------------------------------------------------------------------
(* What the pages show and offer (Feed).                                   *)

\* A share of a balance, by the engine's division (RewardShare).
LEMMA ShareBounds ==
  ASSUME NEW b \in Nat, NEW m \in Nat, NEW t \in Nat
  PROVE  /\ RewardShare(b, m, t) \in Nat
         /\ t * RewardShare(b, m, t) <= b * m
         /\ m > 0 /\ b > 0 /\ m <= t => RewardShare(b, m, t) = MulDiv(b, m, t)
<1>1. CASE t <= 0 \/ m <= 0 \/ b <= 0 \/ m > t
  <2>1. RewardShare(b, m, t) = 0
    BY <1>1 DEF RewardShare
  <2>2. b * m \in Nat
    BY ProductNat
  <2> QED BY <1>1, <2>1, <2>2
<1>2. CASE ~ (t <= 0 \/ m <= 0 \/ b <= 0 \/ m > t)
  <2>1. t \in Nat \ {0} /\ RewardShare(b, m, t) = MulDiv(b, m, t)
    BY <1>2 DEF RewardShare
  <2> QED BY <2>1, MulDivBounds
<1> QED BY <1>1, <1>2

\* Shares of a balance, by members that do not exceed the total, fit in it.
LEMMA SharesFit ==
  ASSUME NEW S, IsFiniteSet(S), NEW b \in Nat, NEW t \in Nat,
         NEW m, \A x \in S : m[x] \in Nat, Total(m, S) <= t,
         NEW f, \A x \in S : f[x] \in Nat /\ t * f[x] <= b * m[x]
                              /\ (m[x] = 0 \/ t = 0 => f[x] = 0)
  PROVE  Total(f, S) <= b
<1>1. Total(m, S) \in Nat /\ Total(f, S) \in Nat
  BY TotalIsNat
<1>2. CASE t = 0
  <2>1. \A x \in S : f[x] = 0
    BY <1>2
  <2>2. Total(f, S) = Cardinality(S) * 0
    BY <2>1, TotalConstant
  <2>3. Cardinality(S) \in Nat
    BY FS_CardinalityType
  <2> QED BY <2>2, <2>3
<1>3. CASE t # 0
  <2> DEFINE z == [x \in S |-> 0]
             g == [x \in S |-> t * f[x]]
             h == [x \in S |-> b * m[x]]
  <2>1. /\ \A x \in S : z[x] \in Nat /\ g[x] = z[x] + t * f[x] /\ h[x] = z[x] + b * m[x]
        /\ \A x \in S : g[x] \in Nat /\ h[x] \in Nat /\ g[x] <= h[x]
    BY ProductNat
  <2>2. Total(z, S) = 0
    <3>1. Total(z, S) = Cardinality(S) * 0 /\ Cardinality(S) \in Nat
      BY TotalConstant, FS_CardinalityType
    <3> QED BY <3>1
  <2> HIDE DEF z, g, h
  <2>3. Total(g, S) = Total(z, S) + t * Total(f, S)
    BY <2>1, TotalScale
  <2>4. Total(h, S) = Total(z, S) + b * Total(m, S)
    BY <2>1, TotalScale
  <2>5. Total(g, S) <= Total(h, S)
    BY <2>1, TotalMono
  <2>6. t * Total(f, S) <= b * Total(m, S)
    <3>1. t * Total(f, S) \in Nat /\ b * Total(m, S) \in Nat
      BY <1>1, ProductNat
    <3> QED BY <2>2, <2>3, <2>4, <2>5, <3>1
  <2>7. b * Total(m, S) <= b * t
    BY <1>1, ProductMono
  <2> DEFINE u == Total(f, S)
             v == Total(m, S)
  <2>8. u \in Nat /\ v \in Nat /\ t * u <= b * v /\ b * v <= b * t
    BY <1>1, <2>6, <2>7
  <2> HIDE DEF u, v
  <2>9. u <= b
    <3> SUFFICES ASSUME u >= b + 1 PROVE FALSE
      BY <2>8
    <3>1. t * (b + 1) <= t * u
      BY <2>8, ProductMono
    <3>2. t * (b + 1) = t * b + t /\ b * t = t * b /\ t * b \in Nat /\ t * u \in Nat /\ b * v \in Nat
      BY <2>8, ProductNat
    <3> QED BY <1>3, <2>8, <3>1, <3>2
  <2> QED BY <2>9 DEF u
<1> QED BY <1>2, <1>3

\* The numbers a vote is made of.
LEMMA SharesNat ==
  ASSUME PobInv, NEW a \in Accounts
  PROVE  SharesOf(a) \in Nat
<1>1. minted[a] \in Nat
  BY BooksTyped DEF RestType
<1>2. Stake[a] \in Nat
  BY PobConstants
<1> QED BY <1>1, <1>2 DEF SharesOf

LEMMA CostNat ==
  ASSUME NEW weight \in Weights
  PROVE  VoteCost(weight) \in Nat
<1>1. weight \in Nat /\ MultScale \in Nat /\ FullVoteCostPct \in Nat
  <2>1. Weights \subseteq 1 .. 100
    BY ProofOfBrainAssumption
  <2> QED BY <2>1, PobConstants
<1> DEFINE x == MultScale * FullVoteCostPct * weight
<1>2. x \in Nat
  <2>1. MultScale * FullVoteCostPct \in Nat
    BY <1>1, ProductNat
  <2> QED BY <1>1, <2>1, ProductNat
<1>3. VoteCost(weight) = x \div (100 * 100)
  BY DEF VoteCost
<1> HIDE DEF x
<1>4. x \div 10000 \in Nat
  BY <1>2
<1> QED BY <1>3, <1>4

LEMMA LeftNat ==
  ASSUME PobInv, NEW a \in Accounts, NEW w \in Windows
  PROVE  Current(power[a][w], w) \in Nat
<1> DEFINE vp == power[a][w]
           more == MulDiv(day - vp.last, MultScale, PayoutDays[w])
<1>1. RestType /\ Recent /\ day \in Nat
  BY BooksTyped
<1>2. vp \in [power : 0 .. MultScale, last : 0 .. LastDay] /\ vp.last <= day
  BY <1>1 DEF RestType, Recent
<1>3. MultScale \in Nat \ {0} /\ PayoutDays[w] \in Nat \ {0} /\ LastDay \in Nat
  BY PobConstants
<1>4. vp.power \in Nat /\ vp.last \in Nat /\ day - vp.last \in Nat
  BY <1>1, <1>2, <1>3
<1>5. more \in Nat
  BY <1>3, <1>4, MulDivBounds
<1>6. Current(vp, w) = AtMost(vp.power + more, MultScale)
  BY DEF Current
<1> HIDE DEF more, vp
<1>7. Current(vp, w) \in Nat
  BY <1>3, <1>4, <1>5, <1>6 DEF AtMost
<1> QED BY <1>7 DEF vp

\* No vote, no weight to read back (VoteSlider).
LEMMA WeightlessIs ==
  ASSUME PobInv, NEW a \in Accounts, NEW p \in Posts, vote[p][a] = 0
  PROVE  MyWeight(a, p) = 0
<1> DEFINE s == SharesOf(a)
           d == s * FullVoteCostPct
           w == IF s = 0 THEN 0 ELSE Rounded(vote[p][a] * 100 * 100, d)
<1>1. s \in Nat /\ FullVoteCostPct \in Nat \ {0}
  BY SharesNat, ProofOfBrainAssumption
<1>2. MyWeight(a, p) = IF Registered(p) /\ w \in 1 .. 100 THEN w ELSE 0
  BY DEF MyWeight
<1>3. w = IF s = 0 THEN 0 ELSE (2 * (0 * 100 * 100) + d) \div (2 * d)
  BY DEF Rounded
<1> HIDE DEF w
<1>4. CASE s = 0
  BY <1>2, <1>3, <1>4
<1>5. CASE s # 0
  <2> HIDE DEF s
  <2>1. d \in Nat \ {0}
    BY <1>1, <1>5
  <2> HIDE DEF d
  <2>2. 2 * (0 * 100 * 100) + d = d /\ d \div (2 * d) = 0
    BY <2>1
  <2> QED BY <1>2, <1>3, <1>5, <2>2
<1> QED BY <1>4, <1>5

\* What may be pressed is taken by the calls.
LEMMA ButtonsWork ==
  ASSUME PobInv
  PROVE  ButtonsAreAccepted
<1> SUFFICES ASSUME NEW p \in Listed
             PROVE  LET c == CardOf(p)
                    IN  /\ Offered(c) = "settle" <=> PayoutAccepted(p)
                        /\ Offered(c) = "vote" => \A a \in Accounts :
                             /\ \A weight \in Weights :
                                  CanCast(a, p, weight) /\ VoteWeight(SharesOf(a), VoteCost(weight)) > 0
                                    <=> VoteAccepted(a, p, weight)
                             /\ MyWeight(a, p) # 0 => UnvoteAccepted(a, p)
                        /\ c.registered /\ OpenForPromotion(p) => \A a \in Accounts :
                             bal[a] >= PromoteMinBurn => PromoteAccepted(a, p)
  BY DEF ButtonsAreAccepted
<1> DEFINE c == CardOf(p)
           r == Target(p)
<1>1. p \in Posts /\ (Registered(p) \/ Tagged(p))
  BY DEF Listed
<1>2. r \in PostRec /\ day \in Nat /\ r.win \in Windows /\ r.created \in Nat /\ r.paid \in BOOLEAN
  <2>1. r \in PostRec
    BY <1>1, TargetIs
  <2> QED BY <2>1, BooksTyped, PostFields
<1>3. PayoutDays[r.win] \in Nat \ {0} /\ PromoteCutoffPct \in Nat /\ MultScale \in Nat \ {0}
  BY <1>2, PobConstants, ProofOfBrainAssumption
<1>4. Registered(p) => r = post[p]
  BY DEF Target
<1>5. ~ Registered(p) => CanPost(p) /\ VotingOpen(r) /\ ~ r.paid
  <2>1. ~ Registered(p) => r = NewPost(Viral, "default") /\ CanPost(p)
    BY <1>1 DEF Target, Tagged
  <2>2. NewPost(Viral, "default").paid = FALSE /\ NewPost(Viral, "default").created = day
    BY DEF NewPost
  <2> QED BY <1>2, <1>3, <2>1, <2>2 DEF VotingOpen
<1>6. /\ c.registered = Registered(p) /\ c.paid = r.paid /\ c.win = r.win
      /\ c.payable = (Registered(p) /\ ~ r.paid /\ day >= r.created + PayoutDays[r.win])
  BY DEF CardOf
<1> HIDE DEF c, r
<1>7. Offered(c) = "settle" <=> PayoutAccepted(p)
  <2>1. PayoutAccepted(p) <=> Registered(p) /\ ~ r.paid /\ day >= r.created + PayoutDays[r.win]
    BY <1>4 DEF PayoutAccepted, Closes
  <2>2. Registered(p) \in BOOLEAN
    BY DEF Registered
  <2> QED BY <1>2, <1>6, <2>1, <2>2 DEF Offered
<1>8. Offered(c) = "vote" => VotingOpen(r)
  <2>1. CASE ~ Registered(p)
    BY <1>5, <2>1
  <2>2. CASE Registered(p)
    <3>1. Offered(c) = "vote" => ~ r.paid /\ ~ (day >= r.created + PayoutDays[r.win])
      BY <1>2, <1>6, <2>2 DEF Offered
    <3> QED BY <1>2, <1>3, <3>1 DEF VotingOpen
  <2> QED BY <2>1, <2>2
<1>9. ASSUME Offered(c) = "vote", NEW a \in Accounts, NEW weight \in Weights
      PROVE  CanCast(a, p, weight) /\ VoteWeight(SharesOf(a), VoteCost(weight)) > 0
               <=> VoteAccepted(a, p, weight)
  <2> DEFINE cost == VoteCost(weight)
             shares == SharesOf(a)
             left == Current(power[a][r.win], r.win)
  <2>1. shares \in Nat
    BY SharesNat
  <2>2. cost \in Nat
    BY CostNat
  <2>3. VoteWeight(shares, cost) > 0 => shares > 0 /\ cost >= 1
    <3>1. VoteWeight(shares, cost) = (shares * cost) \div MultScale
      BY DEF VoteWeight, MulDiv
    <3> HIDE DEF shares, cost
    <3>2. shares = 0 \/ cost = 0 => shares * cost = 0
      BY <2>1, <2>2
    <3>3. 0 \div MultScale = 0
      BY <1>3
    <3> QED BY <2>1, <2>2, <3>1, <3>2, <3>3
  <2>4. left \in Nat
    BY <1>1, <1>2, LeftNat
  <2>5. VoteAccepted(a, p, weight) <=> cost \in 1 .. left /\ VoteWeight(shares, cost) > 0
    BY <1>5, <1>8, <1>9 DEF VoteAccepted, r
  <2>6. CanCast(a, p, weight) <=> shares > 0 /\ cost <= left
    BY <1>6 DEF CanCast, c
  <2> HIDE DEF cost, shares, left
  <2> QED BY <2>1, <2>2, <2>3, <2>4, <2>5, <2>6 DEF cost, shares
<1>10. ASSUME Offered(c) = "vote", NEW a \in Accounts, MyWeight(a, p) # 0
       PROVE  UnvoteAccepted(a, p)
  <2>1. Registered(p) /\ MyWeight(a, p) \in 1 .. 100
    BY <1>10 DEF MyWeight
  <2>2. vote[p][a] \in Nat
    BY <1>1, BooksTyped DEF Ballots
  <2>3. vote[p][a] # 0
    BY <1>1, <1>10, WeightlessIs
  <2> QED BY <1>4, <1>8, <1>10, <2>1, <2>2, <2>3 DEF UnvoteAccepted
<1>11. ASSUME c.registered /\ OpenForPromotion(p), NEW a \in Accounts, bal[a] >= PromoteMinBurn
       PROVE  PromoteAccepted(a, p)
  <2>1. Registered(p) /\ ~ r.paid /\ day < CutoffDay(p) /\ r = post[p]
    BY <1>4, <1>6, <1>11 DEF OpenForPromotion, r
  <2>2. CutoffDay(p) = r.created + MulDiv(PayoutDays[r.win], PromoteCutoffPct, 100)
    BY DEF CutoffDay, MulDiv, r
  <2> QED BY <1>11, <2>1, <2>2 DEF PromoteAccepted
<1> QED BY <1>7, <1>9, <1>10, <1>11 DEF c

\* What a call may do to a post, and to the votes on it: only a payout pays
\* it, what is paid keeps its rshares and votes are only settled, and a vote is
\* written by its voter alone.
SteadyPost(q) ==
  /\ post[q] # NoPost => post'[q] # NoPost
  /\ post'[q] # NoPost /\ post'[q].paid =>
       /\ post[q] # NoPost /\ post'[q].rshares = post[q].rshares
       /\ ~ post[q].paid => \E to \in Walks : Payout(q, to)
       /\ \A b \in Accounts : vote'[q][b] \in {0, vote[q][b]}
  /\ \A b \in Accounts :
       vote'[q][b] \in {0, vote[q][b]} \/ \E weight \in Weights : Vote(b, q, weight)

\* No post has no such field.
LEMMA PostWide ==
  ASSUME NEW r, "paid" \in DOMAIN r
  PROVE  r # NoPost
BY DEF NoPost

LEMMA SteadyKept ==
  ASSUME NEW s, Books.post = s.post, Books.vote = s.vote,
         NEW x, Kept(s, x), post' = x.post, vote' = x.vote, NEW q \in Posts
  PROVE  SteadyPost(q)
<1>1. s.post = post /\ s.vote = vote
  BY DEF Books
<1>2. \A b \in Accounts : vote'[q][b] \in {0, vote[q][b]}
  BY <1>1 DEF Kept
<1>3. post[q] = NoPost => post'[q] = NoPost
  BY <1>1 DEF Kept
<1>4. post[q] # NoPost =>
        post'[q] # NoPost /\ post'[q].rshares = post[q].rshares /\ post'[q].paid = post[q].paid
  BY <1>1 DEF Kept
<1> QED BY <1>2, <1>3, <1>4 DEF SteadyPost

\* A step that leaves this post alone.
LEMMA SteadyRow ==
  ASSUME NEW q \in Posts, \A b \in Accounts : vote'[q][b] \in {0, vote[q][b]},
         \/ post'[q] = post[q]
         \/ /\ post[q] # NoPost => post'[q] # NoPost
            /\ post'[q] # NoPost /\ post'[q].paid =>
                 post[q] # NoPost /\ post[q].paid /\ post'[q].rshares = post[q].rshares
  PROVE  SteadyPost(q)
BY DEF SteadyPost

LEMMA VoteSteady ==
  ASSUME PobInv, NEW p \in Posts, NEW a \in Accounts, NEW weight \in Weights, Vote(a, p, weight)
  PROVE  LET r   == Target(p)
             new == VoteWeight(SharesOf(a), VoteCost(weight))
         IN  /\ \A q \in Posts : SteadyPost(q)
             /\ new \in Nat /\ vote'[p][a] \in {0, new}
             /\ post'[p] # NoPost /\ post'[p].win = r.win /\ ~ post'[p].paid
             /\ post'[p].rshares = r.rshares - vote[p][a] + new
<1> DEFINE r    == Target(p)
           w    == r.win
           new  == VoteWeight(SharesOf(a), VoteCost(weight))
           left == Current(power[a][w], w)
           mine == vote[p][a]
           e    == Cast(p, a, new)
           o    == Requeue(e, a, Slots(p, a))
           s    == DrainCuration(o, a, PiggybackDrain)
<1>1. SetBooks(s) /\ ~ r.paid /\ VoteCost(weight) \in 1 .. left
  BY VoteIs
<1>2. RestType /\ post \in Rows /\ vote \in Ballots /\ day \in Nat /\ minted \in [Accounts -> Nat]
  BY BooksTyped DEF RestType
<1>3. w \in Windows
  BY TargetIs
<1>4. new \in Nat
  BY <1>1, <1>3, VoteTyped
<1> HIDE DEF new
<1>5. /\ \A x \in Posts \ {p} : e.post[x] = post[x] /\ e.vote[x] = vote[x]
      /\ e.vote[p][a] = new /\ \A b \in Accounts \ {a} : e.vote[p][b] = vote[p][b]
      /\ e.post[p] # NoPost /\ ~ e.post[p].paid /\ e.post[p].win = w
      /\ e.post[p].rshares = r.rshares - mine + new
  BY <1>1, <1>4, BallotSound
<1>6. BooksOK(o) /\ o.post = e.post /\ o.vote = e.vote
  BY <1>1, <1>4, CastSound
<1> HIDE DEF o, e, mine, r, left
<1>7. Kept(o, s)
  <2>1. PiggybackDrain \in Nat
    BY PobConstants
  <2> QED BY <1>2, <1>6, <2>1, DrainSound
<1> HIDE DEF s
<1>8. post' = s.post /\ vote' = s.vote
  BY <1>1 DEF SetBooks
<1>9. /\ post'[p] # NoPost /\ post'[p].win = w /\ post'[p].paid = e.post[p].paid
      /\ post'[p].rshares = r.rshares - mine + new
  BY <1>5, <1>6, <1>7, <1>8 DEF Kept
<1>10. vote'[p][a] \in {0, new}
  BY <1>5, <1>6, <1>7, <1>8 DEF Kept
<1>11. ASSUME NEW q \in Posts, q # p PROVE SteadyPost(q)
  <2>1. e.post[q] = post[q] /\ e.vote[q] = vote[q]
    BY <1>5, <1>11
  <2>2. \A b \in Accounts : vote'[q][b] \in {0, vote[q][b]}
    BY <1>6, <1>7, <1>8, <2>1 DEF Kept
  <2>3. post[q] = NoPost => post'[q] = post[q]
    BY <1>6, <1>7, <1>8, <2>1 DEF Kept
  <2>4. post[q] # NoPost =>
          post'[q] # NoPost /\ post'[q].rshares = post[q].rshares /\ post'[q].paid = post[q].paid
    BY <1>6, <1>7, <1>8, <2>1 DEF Kept
  <2> QED BY <2>2, <2>3, <2>4, SteadyRow
<1>12. SteadyPost(p)
  <2>1. ~ post'[p].paid
    BY <1>5, <1>9
  <2>2. ASSUME NEW b \in Accounts
        PROVE  vote'[p][b] \in {0, vote[p][b]} \/ \E y \in Weights : Vote(b, p, y)
    <3>1. CASE b = a
      BY <3>1
    <3>2. CASE b # a
      BY <1>5, <1>6, <1>7, <1>8, <3>2 DEF Kept
    <3> QED BY <3>1, <3>2
  <2> QED BY <1>9, <2>1, <2>2 DEF SteadyPost
<1>13. \A q \in Posts : SteadyPost(q)
  BY <1>11, <1>12
<1>14. ~ post'[p].paid
  BY <1>5, <1>9
<1> QED BY <1>4, <1>9, <1>10, <1>13, <1>14 DEF new, mine, r

LEMMA UnvoteSteady ==
  ASSUME PobInv, NEW p \in Posts, NEW a \in Accounts, Unvote(a, p), NEW q \in Posts
  PROVE  SteadyPost(q)
<1>1. post \in Rows /\ vote \in Ballots
  BY BooksTyped
<1>2. /\ post[p] # NoPost /\ ~ post[p].paid
      /\ post' = [post EXCEPT ![p].rshares = @ - vote[p][a]]
      /\ vote' = [vote EXCEPT ![p][a] = 0]
  BY DEF Unvote, UnvoteAccepted, VotingOpen, Registered
<1>3. \A b \in Accounts : vote'[q][b] \in {0, vote[q][b]}
  BY <1>1, <1>2 DEF Ballots
<1>4. CASE q = p
  <2> DEFINE r == post[p]
             y == r.rshares - vote[p][a]
  <2>1. r \in PostRec
    BY <1>1, <1>2 DEF Rows
  <2>2. post'[p] = [r EXCEPT !.rshares = y]
    BY <1>1, <1>2 DEF Rows
  <2> HIDE DEF y
  <2>3. ~ r.paid
    BY <1>2
  <2> HIDE DEF r
  <2>4. [r EXCEPT !.rshares = y].paid = r.paid /\ [r EXCEPT !.rshares = y].win = r.win
        /\ DOMAIN [r EXCEPT !.rshares = y] = DOMAIN r /\ "paid" \in DOMAIN r
    BY <2>1 DEF PostRec
  <2>5. post'[p] # NoPost
    BY <2>2, <2>4, PostWide
  <2> QED BY <1>3, <1>4, <2>2, <2>3, <2>4, <2>5, SteadyRow
<1>5. CASE q # p
  BY <1>1, <1>2, <1>3, <1>5, SteadyRow DEF Rows
<1> QED BY <1>4, <1>5

LEMMA PromoteSteady ==
  ASSUME PobInv, NEW p \in Posts, NEW a \in Accounts, PromotePost(a, p), NEW q \in Posts
  PROVE  SteadyPost(q)
<1>1. post \in Rows /\ vote \in Ballots
  BY BooksTyped
<1>2. /\ post[p] # NoPost /\ ~ post[p].paid /\ vote' = vote
      /\ post' = [post EXCEPT ![p].promoted = @ + PromoteMinBurn]
  BY DEF PromotePost, PromoteAccepted, Registered
<1>3. \A b \in Accounts : vote'[q][b] \in {0, vote[q][b]}
  BY <1>2
<1>4. CASE q = p
  <2> DEFINE r == post[p]
             y == r.promoted + PromoteMinBurn
  <2>1. r \in PostRec
    BY <1>1, <1>2 DEF Rows
  <2>2. post'[p] = [r EXCEPT !.promoted = y]
    BY <1>1, <1>2 DEF Rows
  <2> HIDE DEF y
  <2>3. ~ r.paid
    BY <1>2
  <2> HIDE DEF r
  <2>4. [r EXCEPT !.promoted = y].paid = r.paid /\ [r EXCEPT !.promoted = y].win = r.win
        /\ DOMAIN [r EXCEPT !.promoted = y] = DOMAIN r /\ "paid" \in DOMAIN r
    BY <2>1 DEF PostRec
  <2>5. post'[p] # NoPost
    BY <2>2, <2>4, PostWide
  <2> QED BY <1>3, <1>4, <2>2, <2>3, <2>4, <2>5, SteadyRow
<1>5. CASE q # p
  BY <1>1, <1>2, <1>3, <1>5, SteadyRow DEF Rows
<1> QED BY <1>4, <1>5

LEMMA SweepSteady ==
  ASSUME PobInv, NEW p \in Posts, SweepCuration(p), NEW q \in Posts
  PROVE  SteadyPost(q)
<1>1. post \in Rows /\ vote \in Ballots
  BY BooksTyped
<1>2. /\ post[p] # NoPost /\ post[p].paid /\ vote' = vote
      /\ post' = [post EXCEPT ![p].pot = 0, ![p].potRshares = 0]
  BY DEF SweepCuration, Registered
<1>3. \A b \in Accounts : vote'[q][b] \in {0, vote[q][b]}
  BY <1>2
<1>4. CASE q = p
  <2> DEFINE r == post[p]
             z == [r EXCEPT !.pot = 0, !.potRshares = 0]
  <2>1. r \in PostRec
    BY <1>1, <1>2 DEF Rows
  <2>2. post'[p] = z
    BY <1>1, <1>2 DEF Rows
  <2>3. r.paid /\ r # NoPost
    BY <1>2
  <2> HIDE DEF r
  <2>4. z.paid = r.paid /\ z.win = r.win /\ z.rshares = r.rshares
        /\ DOMAIN z = DOMAIN r /\ "paid" \in DOMAIN r
    BY <2>1 DEF PostRec
  <2>5. post'[p] # NoPost
    BY <2>2, <2>4, PostWide
  <2> HIDE DEF z
  <2> QED BY <1>2, <1>3, <1>4, <2>2, <2>3, <2>4, <2>5, SteadyRow DEF r
<1>5. CASE q # p
  BY <1>1, <1>2, <1>3, <1>5, SteadyRow DEF Rows
<1> QED BY <1>4, <1>5

LEMMA CreateSteady ==
  ASSUME PobInv, NEW p \in Posts, CreatePost(p), NEW q \in Posts
  PROVE  SteadyPost(q)
<1>1. post \in Rows
  BY BooksTyped
<1>2. /\ post[p] = NoPost /\ vote' = vote
      /\ post' = [post EXCEPT ![p] = NewPost(WindowOf[p], ModeOf[p])]
  BY DEF CreatePost, Registered
<1>3. \A b \in Accounts : vote'[q][b] \in {0, vote[q][b]}
  BY <1>2
<1>4. CASE q = p
  <2>1. post'[p] = NewPost(WindowOf[p], ModeOf[p])
    BY <1>1, <1>2 DEF Rows
  <2>2. post'[p].paid = FALSE
    BY <2>1 DEF NewPost
  <2> QED BY <1>2, <1>3, <1>4, <2>2, SteadyRow
<1>5. CASE q # p
  BY <1>1, <1>2, <1>3, <1>5, SteadyRow DEF Rows
<1> QED BY <1>4, <1>5

LEMMA PayoutSteady ==
  ASSUME PobInv, NEW p \in Posts, NEW to \in Walks, Payout(p, to), NEW q \in Posts
  PROVE  SteadyPost(q)
<1>1. /\ vote' = vote /\ \A x \in Posts \ {p} : post'[x] = post[x]
      /\ post'[p] # NoPost /\ post'[p].rshares = post[p].rshares
  BY PayoutSound
<1>2. post[p] # NoPost
  BY DEF Payout, PayoutAccepted, Registered
<1>3. \A b \in Accounts : vote'[q][b] \in {0, vote[q][b]}
  BY <1>1
<1>4. CASE q = p
  BY <1>1, <1>2, <1>3, <1>4 DEF SteadyPost
<1>5. CASE q # p
  BY <1>1, <1>3, <1>5, SteadyRow
<1> QED BY <1>4, <1>5

LEMMA ClaimSteady ==
  ASSUME PobInv, NEW p \in Posts, NEW a \in Accounts, ClaimCuration(p, a), NEW q \in Posts
  PROVE  SteadyPost(q)
<1> DEFINE b == Books
           s == Claimed(b, p, a)
<1>1. BooksOK(b) /\ b \in BookType /\ post \in Rows /\ minted \in [Accounts -> Nat]
  BY BooksTyped DEF RestType
<1>2. b.post = post /\ b.vote = vote
  BY DEF Books
<1>3. post[p] # NoPost /\ Claimable(post[p], vote[p][a]) /\ SetBooks(s)
  BY DEF ClaimCuration, Registered
<1> HIDE DEF b
<1>4. post[p] \in PostRec /\ PostOK(b.post[p], b.vote[p])
  BY <1>1, <1>3 DEF Rows, BooksOK
<1>6. Kept(b, s)
  BY <1>1, <1>2, <1>3, <1>4, BooksTyped, ClaimedSound
<1> HIDE DEF s
<1>7. post' = s.post /\ vote' = s.vote
  BY <1>3 DEF SetBooks
<1>8. Books.post = b.post /\ Books.vote = b.vote
  BY DEF b
<1> QED BY <1>6, <1>7, <1>8, SteadyKept

LEMMA PendingSteady ==
  ASSUME PobInv, NEW a \in Accounts, SettlePending(a), NEW q \in Posts
  PROVE  SteadyPost(q)
<1> DEFINE s == DrainCuration(Books, a, MaxCurationDrain)
<1>1. /\ BooksOK(Books) /\ day \in Nat /\ minted \in [Accounts -> Nat] /\ MaxCurationDrain \in Nat
  BY BooksTyped, PobConstants DEF RestType
<1>2. Kept(Books, s) /\ BooksOK(s)
  BY <1>1, DrainSound
<1>3. \/ SetBooks([s EXCEPT !.pend[a].lastEpoch = IF @ = 0 THEN Epoch ELSE @])
      \/ SetBooks([s EXCEPT !.pend[a] = [balance |-> 0, lastEpoch |-> Epoch]])
  BY DEF SettlePending
<1> HIDE DEF s
<1>4. s \in BookType
  BY <1>2 DEF BooksOK
<1>5. post' = s.post /\ vote' = s.vote
  <2>1. \A d : [s EXCEPT !.pend = d].post = s.post /\ [s EXCEPT !.pend = d].vote = s.vote
    BY <1>4 DEF BookType
  <2>2. CASE SetBooks([s EXCEPT !.pend[a] = [balance |-> 0, lastEpoch |-> Epoch]])
    BY <2>1, <2>2 DEF SetBooks
  <2>3. CASE SetBooks([s EXCEPT !.pend[a].lastEpoch = IF @ = 0 THEN Epoch ELSE @])
    BY <2>1, <2>3 DEF SetBooks
  <2> QED BY <1>3, <2>2, <2>3
<1> QED BY <1>2, <1>5, SteadyKept

LEMMA StepSteady ==
  ASSUME PobInv, [Next]_vars, NEW q \in Posts
  PROVE  SteadyPost(q)
<1>1. CASE UNCHANGED vars \/ Tick \/ \E to \in Walks : Settle(to)
  <2>1. post' = post /\ vote' = vote
    BY <1>1 DEF vars, Tick, Settle
  <2> QED BY <2>1, SteadyRow
<1>2. ASSUME NEW p \in Posts, NEW a \in Accounts, NEW weight \in Casts[a], Vote(a, p, weight)
      PROVE  SteadyPost(q)
  <2>1. weight \in Weights
    <3>1. Casts \in [Accounts -> SUBSET Weights]
      BY ProofOfBrainAssumption
    <3> QED BY <3>1
  <2> QED BY <1>2, <2>1, VoteSteady
<1>3. CASE Next
  BY <1>1, <1>2, <1>3, CreateSteady, PayoutSteady, SweepSteady, UnvoteSteady, PromoteSteady,
     ClaimSteady, PendingSteady DEF Next
<1> QED BY <1>1, <1>3

\* The votes that are left on a post are no more than its rshares, paid or not.
VotesFit == \A p \in Posts : post[p] # NoPost => Total(vote[p], Accounts) <= post[p].rshares

LEMMA FitKept ==
  ASSUME PobInv, VotesFit, [Next]_vars
  PROVE  PobInv' /\ VotesFit'
<1>1. PobInv'
  BY NextSound
<1>2. vote \in Ballots /\ post \in Rows
  BY BooksTyped
<1>3. vote' \in Ballots /\ post' \in Rows /\ \A p \in Posts : PostOK(post'[p], vote'[p])
  <2>1. vote' \in Ballots /\ post' \in Rows
    BY <1>1 DEF PobInv, TypeOK, Ballots, Rows
  <2>2. \A p \in Posts : PostOK(post'[p], vote'[p])
    BY <1>1 DEF PobInv, BooksOK, Books, PostOK
  <2> QED BY <2>1, <2>2
<1>4. ASSUME NEW p \in Posts, post'[p] # NoPost
      PROVE  Total(vote'[p], Accounts) <= post'[p].rshares
  <2>1. post'[p] \in PostRec /\ post'[p].rshares \in Nat /\ post'[p].paid \in BOOLEAN
    <3>1. post'[p] \in PostRec
      BY <1>3, <1>4 DEF Rows
    <3> QED BY <3>1, PostFields
  <2>2. CASE ~ post'[p].paid
    BY <1>3, <1>4, <2>1, <2>2 DEF PostOK
  <2>3. CASE post'[p].paid
    <3>1. SteadyPost(p)
      BY StepSteady
    <3>2. /\ post[p] # NoPost /\ post'[p].rshares = post[p].rshares
          /\ \A b \in Accounts : vote'[p][b] \in {0, vote[p][b]}
      BY <1>4, <2>3, <3>1 DEF SteadyPost
    <3>3. \A b \in Accounts : vote'[p][b] \in Nat /\ vote[p][b] \in Nat /\ vote'[p][b] <= vote[p][b]
      BY <1>2, <1>3, <3>2 DEF Ballots
    <3> DEFINE f == vote'[p]
               g == vote[p]
    <3>4. Total(f, Accounts) <= Total(g, Accounts) /\ Total(f, Accounts) \in Nat
          /\ Total(g, Accounts) \in Nat
      <4>1. \A b \in Accounts : f[b] \in Nat /\ g[b] \in Nat /\ f[b] <= g[b]
        BY <3>3
      <4>2. IsFiniteSet(Accounts)
        BY PobConstants
      <4> HIDE DEF f, g
      <4> QED BY <4>1, <4>2, TotalMono, TotalIsNat
    <3>5. Total(g, Accounts) <= post[p].rshares
      BY <3>2 DEF VotesFit
    <3> QED BY <2>1, <3>2, <3>4, <3>5
  <2> QED BY <2>1, <2>2, <2>3
<1> QED BY <1>1, <1>4 DEF VotesFit

LEMMA VotesStayFit == Spec => [](PobInv /\ VotesFit)
<1>1. Init => PobInv /\ VotesFit
  <2>1. Init => \A p \in Posts : post[p] = NoPost
    BY DEF Init
  <2> QED BY <2>1, InitSound DEF VotesFit
<1>2. PobInv /\ VotesFit /\ [Next]_vars => PobInv' /\ VotesFit'
  BY FitKept
<1> QED BY <1>1, <1>2, PTL DEF Spec

\* The rshares of an open post are part of its window's.
LEMMA OpenFits ==
  ASSUME PobInv, NEW p \in Posts, post[p] # NoPost, ~ post[p].paid
  PROVE  /\ post[p] \in PostRec /\ post[p].win \in Windows /\ post[p].rshares \in Nat
         /\ rshares[post[p].win] \in Nat /\ post[p].rshares <= rshares[post[p].win]
<1> DEFINE w == post[p].win
           t == Total(OpenShares(post, w), Posts)
<1>1. RestType /\ post \in Rows
  BY BooksTyped
<1>2. post[p] \in PostRec /\ w \in Windows /\ post[p].rshares \in Nat
  <2>1. post[p] \in PostRec
    BY <1>1 DEF Rows
  <2> QED BY <2>1, PostFields
<1>3. rshares[w] = stale[w] + t /\ rshares[w] \in Nat /\ stale[w] \in Nat
  BY <1>1, <1>2 DEF PobInv, RestType
<1>4. t \in Nat /\ OpenShares(post, w)[p] <= t
  BY <1>1, <1>2, SharesChange
<1>5. OpenShares(post, w)[p] = post[p].rshares
  BY DEF OpenShares
<1> HIDE DEF w, t
<1>6. post[p].rshares <= rshares[w]
  BY <1>2, <1>3, <1>4, <1>5
<1> QED BY <1>2, <1>3, <1>6 DEF w

\* What is pending for the open posts is in the pool.
LEMMA OwedFits ==
  ASSUME PobInv, NEW w \in Windows
  PROVE  Owed(w) <= pool[w]
<1> DEFINE b == pool[w]
           t == rshares[w]
           m == OpenShares(post, w)
           f == [p \in Posts |-> IF Registered(p) /\ post[p].win = w THEN CardOf(p).pending ELSE 0]
<1>1. RestType /\ post \in Rows /\ IsFiniteSet(Posts)
  BY BooksTyped, PobConstants
<1>2. b \in Nat /\ t \in Nat /\ stale[w] \in Nat
  BY <1>1 DEF RestType
<1>3. Total(m, Posts) <= t
  <2> DEFINE u == Total(m, Posts)
  <2>1. t = stale[w] + u
    BY DEF PobInv
  <2>2. u \in Nat
    <3>1. ASSUME NEW p \in Posts PROVE m[p] \in Nat
      <4>1. post[p] # NoPost => post[p].rshares \in Nat
        BY <1>1, PostFields DEF Rows
      <4> QED BY <4>1 DEF OpenShares
    <3> QED BY <1>1, <3>1, TotalIsNat
  <2> HIDE DEF u, t
  <2>3. u <= t
    BY <1>2, <2>1, <2>2
  <2> QED BY <2>3 DEF u
<1>4. ASSUME NEW p \in Posts
      PROVE  /\ m[p] \in Nat /\ f[p] \in Nat /\ t * f[p] <= b * m[p]
             /\ m[p] = 0 \/ t = 0 => f[p] = 0
  <2>1. CASE Registered(p) /\ post[p].win = w /\ ~ post[p].paid
    <3>1. f[p] = RewardShare(b, m[p], t) /\ m[p] = post[p].rshares
      BY <2>1 DEF CardOf, Target, OpenShares, Registered
    <3>2. m[p] \in Nat
      BY <1>1, <2>1, <3>1, PostFields DEF Rows, Registered
    <3> DEFINE k == m[p]
               g == RewardShare(b, k, t)
    <3>3. k \in Nat
      BY <3>2
    <3> HIDE DEF k, b, t
    <3>4. g \in Nat /\ t * g <= b * k
      BY <1>2, <3>3, ShareBounds
    <3>5. k = 0 \/ t = 0 => g = 0
      BY DEF RewardShare
    <3> QED BY <3>1, <3>2, <3>4, <3>5 DEF k
  <2>2. CASE ~ (Registered(p) /\ post[p].win = w /\ ~ post[p].paid)
    <3>1. m[p] = 0
      BY <2>2 DEF OpenShares, Registered
    <3>2. f[p] = 0
      BY <2>2 DEF CardOf, Target
    <3>3. t * 0 = 0 /\ b * 0 = 0
      BY <1>2
    <3> QED BY <3>1, <3>2, <3>3
  <2> QED BY <2>1, <2>2
<1>5. Owed(w) = Total(f, Posts)
  BY DEF Owed
<1> HIDE DEF f, m, b, t
<1>6. Total(f, Posts) <= b
  BY <1>1, <1>2, <1>3, <1>4, SharesFit
<1> QED BY <1>5, <1>6 DEF b

\* The list of voters shares out no more than the post.
LEMMA VotersFit ==
  ASSUME PobInv, VotesFit, NEW p \in Posts, Registered(p)
  PROVE  /\ Total([a \in Accounts |-> ShareOfPost(p, a)], Accounts) <= 100
         /\ \A a \in Accounts : 100 * vote[p][a] >= post[p].rshares /\ vote[p][a] > 0
              => ShareOfPost(p, a) > 0
<1> DEFINE m == vote[p]
           t == post[p].rshares
           f == [a \in Accounts |-> ShareOfPost(p, a)]
<1>1. post[p] \in PostRec /\ vote \in Ballots /\ IsFiniteSet(Accounts)
  BY BooksTyped, PobConstants DEF Rows, Registered
<1>2. t \in Nat /\ \A a \in Accounts : m[a] \in Nat
  BY <1>1, PostFields DEF Ballots
<1>3. Total(m, Accounts) <= t
  BY DEF VotesFit, Registered
<1>4. \A a \in Accounts : f[a] = RewardShare(100, m[a], t)
  BY DEF ShareOfPost
<1> HIDE DEF f, m, t
<1>5. ASSUME NEW a \in Accounts
      PROVE  f[a] \in Nat /\ t * f[a] <= 100 * m[a] /\ (m[a] = 0 \/ t = 0 => f[a] = 0)
  <2> DEFINE k == m[a]
             g == RewardShare(100, k, t)
  <2>1. k \in Nat
    BY <1>2
  <2> HIDE DEF k
  <2>2. g \in Nat /\ t * g <= 100 * k
    BY <1>2, <2>1, ShareBounds
  <2>3. k = 0 \/ t = 0 => g = 0
    BY DEF RewardShare
  <2> QED BY <1>4, <2>2, <2>3 DEF k
<1>6. Total(f, Accounts) <= 100
  BY <1>1, <1>2, <1>3, <1>5, SharesFit
<1>7. ASSUME NEW a \in Accounts, 100 * m[a] >= t, m[a] > 0
      PROVE  f[a] > 0
  <2> DEFINE k == m[a]
             u == Total(m, Accounts)
  <2>1. u \in Nat /\ u >= k
    BY <1>1, <1>2, TotalIsNat, TotalRemove
  <2>2. k \in Nat /\ k > 0 /\ k <= t /\ t <= 100 * k
    <3> HIDE DEF u
    <3>1. k \in Nat
      BY <1>2
    <3>2. u <= t
      BY <1>3 DEF u
    <3> HIDE DEF k
    <3>3. k <= t
      BY <1>2, <2>1, <3>1, <3>2
    <3> QED BY <1>2, <1>7, <3>1, <3>3 DEF k
  <2> HIDE DEF k, u
  <2>3. RewardShare(100, k, t) = MulDiv(100, k, t) /\ t \in Nat \ {0}
    BY <1>2, <2>2 DEF RewardShare
  <2> DEFINE q == MulDiv(100, k, t)
  <2>4. q \in Nat /\ 100 * k < t * q + t
    BY <2>2, <2>3, MulDivBounds
  <2>5. q # 0
    <3> HIDE DEF q
    <3> SUFFICES ASSUME q = 0 PROVE FALSE
      OBVIOUS
    <3>1. t * q = 0
      BY <2>3
    <3> QED BY <2>2, <2>3, <2>4, <3>1
  <2> QED BY <1>4, <2>3, <2>4, <2>5 DEF k
<1> QED BY <1>6, <1>7 DEF f, m, t

\* Who is offered to settle is due after the drain (SettlePending).
LEMMA SettleIsDone ==
  ASSUME PobInv, NEW a \in Accounts, SettleIsDue(a)
  PROVE  LET s == DrainCuration(Books, a, MaxCurationDrain)
         IN  s.pend[a].balance >= MinMintAmount /\ Epoch > s.pend[a].lastEpoch
<1> DEFINE s == DrainCuration(Books, a, MaxCurationDrain)
<1>1. /\ BooksOK(Books) /\ day \in Nat /\ minted \in [Accounts -> Nat] /\ pend \in Pends
      /\ MaxCurationDrain \in Nat /\ MinMintAmount \in Nat
  BY BooksTyped, PobConstants, ProofOfBrainAssumption DEF RestType
<1>2. Kept(Books, s) /\ BooksOK(s)
  BY <1>1, DrainSound
<1>3. Books.pend = pend
  BY DEF Books
<1> HIDE DEF s
<1>4. s.pend \in Pends
  BY <1>2 DEF BooksOK, BookType
<1>5. s.pend[a].balance >= pend[a].balance /\ s.pend[a].lastEpoch = pend[a].lastEpoch
  BY <1>2, <1>3 DEF Kept, Grown, SettleIsDue
<1>6. s.pend[a].balance \in Nat /\ pend[a].balance \in Nat
  BY <1>1, <1>4 DEF Pends
<1>7. pend[a].balance >= MinMintAmount /\ Epoch > pend[a].lastEpoch
  BY DEF SettleIsDue
<1>8. s.pend[a].balance >= MinMintAmount
  BY <1>1, <1>5, <1>6, <1>7
<1> QED BY <1>5, <1>7, <1>8 DEF s

(* What the pages of the site offer is accepted by the contract, and what  *)
(* they show adds up: pending payouts fit in their pool, the voters' parts *)
(* in their post, and who is offered to settle is minted (feed, post page, *)
(* VoterList.svelte, rewards page).                                        *)
THEOREM FeedTells == Spec => []FeedTellsTheTruth
<1>1. PobInv /\ VotesFit => FeedTellsTheTruth
  <2>1. PobInv => ButtonsAreAccepted
    BY ButtonsWork
  <2>2. PobInv /\ VotesFit => FiguresAddUp
    BY OwedFits, VotersFit, SettleIsDone DEF FiguresAddUp
  <2> QED BY <2>1, <2>2 DEF FeedTellsTheTruth
<1> QED BY <1>1, VotesStayFit, PTL

\* More of the same total, by the same amount, is no smaller a part.
LEMMA ShareRises ==
  ASSUME NEW b \in Nat, NEW m \in Nat, NEW t \in Nat \ {0}, m <= t, NEW k \in Nat
  PROVE  MulDiv(b, m, t) <= MulDiv(b, m + k, t + k)
<1> DEFINE q == MulDiv(b, m, t)
           m2 == m + k
           t2 == t + k
           r == MulDiv(b, m2, t2)
<1>1. q \in Nat /\ t * q <= b * m /\ q <= b
  BY MulDivBounds, MulDivShrinks
<1>2. m2 \in Nat /\ t2 \in Nat \ {0}
  OBVIOUS
<1>a. m2 = m + k /\ t2 = t + k
  OBVIOUS
<1> HIDE DEF m2, t2
<1>3. r \in Nat /\ b * m2 < t2 * r + t2
  BY <1>2, MulDivBounds
<1> HIDE DEF q, r
<1>4. SUFFICES ASSUME r + 1 <= q PROVE FALSE
  BY <1>1, <1>3 DEF q, r, m2, t2
<1>5. t2 * (r + 1) <= t2 * q
  BY <1>1, <1>2, <1>3, <1>4, ProductMono
<1>6. t2 * (r + 1) = t2 * r + t2 /\ t2 * r \in Nat
  BY <1>2, <1>3, ProductNat
<1>7. t2 * q = t * q + k * q /\ t * q \in Nat /\ k * q \in Nat
  BY <1>1, <1>a, ProductNat
<1>8. k * q <= k * b
  BY <1>1, ProductMono
<1>9. b * m2 = b * m + k * b /\ b * m \in Nat /\ k * b \in Nat
  BY <1>a, ProductNat
<1> DEFINE x == t2 * q
           y == b * m2
           z == t2 * r
           u == t * q
           v == k * q
           c == k * b
           d == b * m
           e == t2 * (r + 1)
<1>10. /\ u \in Nat /\ v \in Nat /\ c \in Nat /\ d \in Nat /\ z \in Nat
       /\ x = u + v /\ y = d + c /\ u <= d /\ v <= c /\ e = z + t2 /\ e <= x /\ y < z + t2
  BY <1>1, <1>3, <1>5, <1>6, <1>7, <1>8, <1>9
<1> HIDE DEF x, y, z, u, v, c, d, e
<1> QED BY <1>2, <1>10

\* What a post's share of a pool becomes when its rshares, and the window's,
\* move alike.
LEMMA PendingMoves ==
  ASSUME NEW b \in Nat, NEW r \in Nat, NEW t \in Nat, r <= t,
         NEW s \in Nat \ {0}, NEW u \in Nat, s - r = u - t
  PROVE  /\ s >= r => RewardShare(b, r, t) <= RewardShare(b, s, u)
         /\ s <= r => RewardShare(b, s, u) <= RewardShare(b, r, t)
         /\ RewardShare(b, s, u) = IF b = 0 THEN 0 ELSE MulDiv(b, s, u)
<1>1. s <= u /\ u \in Nat \ {0}
  OBVIOUS
<1>2. RewardShare(b, s, u) = IF b = 0 THEN 0 ELSE MulDiv(b, s, u)
  BY <1>1 DEF RewardShare
<1>3. CASE b = 0
  <2>1. RewardShare(b, r, t) = 0
    BY <1>3 DEF RewardShare
  <2> QED BY <1>2, <1>3, <2>1
<1>4. CASE b # 0 /\ r = 0
  <2>1. RewardShare(b, r, t) = 0
    BY <1>4 DEF RewardShare
  <2>2. MulDiv(b, s, u) \in Nat
    BY <1>1, MulDivBounds
  <2>3. ~ (s <= r)
    BY <1>4
  <2> QED BY <1>2, <1>4, <2>1, <2>2, <2>3
<1>5. CASE b # 0 /\ r # 0
  <2>1. t \in Nat \ {0} /\ RewardShare(b, r, t) = MulDiv(b, r, t)
    BY <1>5 DEF RewardShare
  <2>2. ASSUME s >= r PROVE MulDiv(b, r, t) <= MulDiv(b, s, u)
    <3> DEFINE k == s - r
    <3>1. k \in Nat /\ s = r + k /\ u = t + k
      BY <2>2
    <3> HIDE DEF k
    <3> QED BY <2>1, <3>1, ShareRises
  <2>3. ASSUME s <= r PROVE MulDiv(b, s, u) <= MulDiv(b, r, t)
    <3> DEFINE k == r - s
    <3>1. k \in Nat /\ r = s + k /\ t = u + k
      BY <2>3
    <3> HIDE DEF k
    <3> QED BY <1>1, <3>1, ShareRises
  <2> QED BY <1>2, <1>5, <2>1, <2>2, <2>3
<1> QED BY <1>3, <1>4, <1>5

\* A payout pays at least the figure on the card (Payout, poolClaim).
LEMMA PayoutPays ==
  ASSUME PobInv, [Next]_vars, NEW p \in Posts, Registered(p), ~ post[p].paid, post[p]'.paid
  PROVE  LET w == post[p].win
             taken == pool[w] + (acc_day' - acc_day) * DayEmission[w] - pool'[w]
         IN  taken >= CardOf(p).pending /\ (acc_day' = acc_day => taken = CardOf(p).pending)
<1> DEFINE r == post[p].rshares
           w == post[p].win
           t == rshares[w]
           b == pool[w]
<1>1. SteadyPost(p) /\ post[p] # NoPost
  BY StepSteady DEF Registered
<1>2. PICK to \in Walks : Payout(p, to)
  BY <1>1 DEF SteadyPost
<1>3. w \in Windows /\ r \in Nat /\ t \in Nat /\ r <= t
  BY <1>1, OpenFits
<1>4. pool \in [Windows -> Nat] /\ b \in Nat
  BY <1>3, BooksTyped DEF RestType
<1>5. to \in Nat /\ acc_day \in Nat /\ acc_day <= to
  BY WalkBounds
<1> DEFINE more == (to - acc_day) * DayEmission[w]
           full == b + more
           total == PoolClaim(full, t, r)
<1>6. more \in Nat
  <2>1. to - acc_day \in Nat /\ DayEmission[w] \in Nat
    BY <1>3, <1>5, PobConstants
  <2> QED BY <2>1, ProductNat
<1>7. acc_day' = to /\ pool'[w] = full - total
  <2>1. Accrued(to) \in [Windows -> Int] /\ Accrued(to)[w] = full
    <3>1. Accrued(to) \in [Windows -> Nat]
      BY <1>5, AccruedSound
    <3> QED BY <1>3, <3>1 DEF Accrued
  <2>2. pool' = [Accrued(to) EXCEPT ![w] = @ - PoolClaim(Accrued(to)[w], t, r)] /\ acc_day' = to
    BY <1>2 DEF Payout
  <2> HIDE DEF full, total
  <2>3. pool'[w] = Accrued(to)[w] - PoolClaim(Accrued(to)[w], t, r)
    BY <1>3, <2>1, <2>2
  <2> QED BY <2>1, <2>2, <2>3 DEF total
<1>8. CardOf(p).pending = RewardShare(b, r, t)
  BY DEF CardOf, Target
<1>9. acc_day' = acc_day => more = 0
  <2>1. DayEmission[w] \in Nat
    BY <1>3, PobConstants
  <2> QED BY <1>5, <1>7, <2>1
<1>10. full \in Nat /\ total \in Nat /\ b <= full
  <2>1. full \in Nat /\ b <= full
    BY <1>4, <1>6
  <2> HIDE DEF full
  <2>2. total \in 0 .. full
    BY <1>3, <2>1, PoolClaimBounds
  <2> QED BY <2>1, <2>2
<1>11. b + (acc_day' - acc_day) * DayEmission[w] - pool'[w] = total
  <2>1. (acc_day' - acc_day) * DayEmission[w] = more
    BY <1>7
  <2>2. full = b + more
    OBVIOUS
  <2> HIDE DEF more, total, full, b
  <2> QED BY <1>4, <1>6, <1>7, <1>10, <2>1, <2>2
<1>12. full = b + more
  OBVIOUS
<1> HIDE DEF r, w, t, b, more, full
<1>13. RewardShare(b, r, t) <= total /\ (full = b => RewardShare(b, r, t) = total)
  <2>1. CASE b = 0 \/ r = 0
    <3>1. RewardShare(b, r, t) = 0
      BY <2>1 DEF RewardShare
    <3>2. full = b => total = 0
      BY <2>1 DEF PoolClaim
    <3> QED BY <1>10, <3>1, <3>2
  <2>2. CASE b # 0 /\ r # 0
    <3>1. t \in Nat \ {0} /\ full # 0
      BY <1>3, <1>4, <1>10, <2>2
    <3>2. total = MulDiv(full, r, t)
      BY <1>3, <2>2, <3>1 DEF PoolClaim, AtMost
    <3>3. RewardShare(b, r, t) = MulDiv(b, r, t)
      BY <1>3, <1>4, <2>2, <3>1 DEF RewardShare
    <3> HIDE DEF total
    <3>4. MulDiv(b, r, t) <= MulDiv(full, r, t)
      BY <1>3, <1>4, <1>10, <3>1, MulDivMono
    <3> QED BY <3>2, <3>3, <3>4
  <2> QED BY <2>1, <2>2
<1>14. RewardShare(b, r, t) \in Nat
  BY <1>3, <1>4, ShareBounds
<1>15. acc_day' = acc_day => full = b
  BY <1>4, <1>6, <1>9, <1>12
<1> DEFINE taken == b + (acc_day' - acc_day) * DayEmission[w] - pool'[w]
<1>16. taken >= RewardShare(b, r, t) /\ (acc_day' = acc_day => taken = RewardShare(b, r, t))
  BY <1>10, <1>11, <1>13, <1>14, <1>15
<1> QED BY <1>8, <1>16 DEF r, w, t, b

\* A vote moves the figure on the card as the slider said (VoteSlider).
LEMMA VoteAdds ==
  ASSUME PobInv, [Next]_vars, NEW p \in Posts, NEW a \in Accounts, NEW weight \in Weights,
         VotesAs(a, p, weight), vote[p][a] # 0 => MyWeight(a, p) \notin {0, weight}
  PROVE  LET pending == CardOf(p)'.pending
             said == VoteHint(a, p, weight)
         IN  /\ said \in {"opens", "adds"} => pending = CardOf(p).pending + Added(a, p, weight)
             /\ said \in {"lowers", "nothing"} => pending <= CardOf(p).pending
<1> DEFINE x == Target(p)
           w == x.win
           r == x.rshares
           t == rshares[w]
           b == pool[w]
           prev == vote[p][a]
           new == VoteWeight(SharesOf(a), VoteCost(weight))
           s == r - prev + new
           u == t - prev + new
<1>1. prev \in Nat /\ vote'[p][a] \notin {0, prev}
  <2>1. vote \in Ballots
    BY BooksTyped
  <2> QED BY <2>1 DEF VotesAs, Ballots
<1>2. PICK y \in Weights : Vote(a, p, y)
  <2>1. SteadyPost(p)
    BY StepSteady
  <2> QED BY <1>1, <2>1 DEF SteadyPost
<1>3. /\ ~ x.paid /\ UNCHANGED <<day, acc_day, pool>> /\ rshares' = [rshares EXCEPT ![w] = @ - prev
           + VoteWeight(SharesOf(a), VoteCost(y))]
      /\ power' = [power EXCEPT ![a][w] = [power |-> Current(power[a][w], w) - VoteCost(y), last |-> day]]
      /\ VoteCost(y) \in 1 .. Current(power[a][w], w)
  BY <1>2, VoteIs
<1>4. /\ x \in PostRec /\ w \in Windows /\ r \in Nat /\ r = Total(vote[p], Accounts)
      /\ OpenShares(post, w)[p] = r
  BY <1>3, TargetIs
<1>5. VoteCost(weight) = VoteCost(y)
  <2>1. power \in [Accounts -> [Windows -> [power : 0 .. MultScale, last : 0 .. LastDay]]]
    BY BooksTyped DEF RestType
  <2>2. power'[a][w].power = Current(power[a][w], w) - VoteCost(y)
    BY <1>3, <1>4, <2>1
  <2>3. VoteCost(weight) = Current(power[a][w], w) - power'[a][w].power
    BY DEF VotesAs
  <2> DEFINE left == Current(power[a][w], w)
             c == VoteCost(weight)
             d == VoteCost(y)
  <2>4. left \in Nat /\ c \in Nat /\ d \in Nat
    BY <1>4, LeftNat, CostNat
  <2>5. c = left - (left - d)
    BY <2>2, <2>3
  <2> HIDE DEF left, c, d
  <2>6. c = d
    BY <2>4, <2>5
  <2> QED BY <2>6 DEF c, d
<1>6. /\ new \in Nat /\ vote'[p][a] \in {0, new}
      /\ post'[p] # NoPost /\ post'[p].win = w /\ ~ post'[p].paid
      /\ post'[p].rshares = s
  BY <1>2, <1>5, VoteSteady
<1>7. new # 0 /\ new # prev
  BY <1>1, <1>6
<1>8. prev <= r /\ r <= t /\ t \in Nat /\ b \in Nat /\ rshares \in [Windows -> Nat]
  <2>1. RestType /\ vote \in Ballots /\ post \in Rows /\ IsFiniteSet(Accounts)
    BY BooksTyped, PobConstants
  <2>2. t \in Nat /\ b \in Nat /\ rshares \in [Windows -> Nat] /\ stale[w] \in Nat
    BY <1>4, <2>1 DEF RestType
  <2>3. prev <= r
    <3> DEFINE v == vote[p]
    <3>1. \A z \in Accounts : v[z] \in Nat
      BY <2>1 DEF Ballots
    <3>2. r = Total(v, Accounts)
      BY <1>4
    <3>3. Total(v, Accounts) >= v[a]
      <4> HIDE DEF v
      <4> QED BY <2>1, <3>1, TotalRemove
    <3> HIDE DEF r
    <3>4. prev <= r
      BY <1>1, <1>4, <3>2, <3>3
    <3> QED BY <3>4 DEF r
  <2>4. r <= t
    <3> DEFINE o == Total(OpenShares(post, w), Posts)
    <3>1. t = stale[w] + o
      BY <1>4 DEF PobInv
    <3>2. o \in Nat /\ OpenShares(post, w)[p] <= o
      BY <1>4, <2>1, SharesChange
    <3> HIDE DEF o, r, t, w
    <3>3. r <= t
      BY <1>4, <2>2, <3>1, <3>2
    <3> QED BY <3>3 DEF r, t, w
  <2> QED BY <2>2, <2>3, <2>4
<1>9. CardOf(p).pending = RewardShare(b, r, t) /\ CardOf(p).win = w
  BY <1>3 DEF CardOf
<1>10. CardOf(p)'.pending = RewardShare(b, s, u)
  <2>1. Target(p)' = post'[p]
    BY <1>6 DEF Target, Registered
  <2>2. rshares'[w] = u
    BY <1>3, <1>4, <1>5, <1>8
  <2>3. pool' = pool
    BY <1>3
  <2>4. CardOf(p)'.pending = RewardShare(pool'[w], s, rshares'[w])
    BY <1>6, <2>1 DEF CardOf, RewardShare, MulDiv
  <2> QED BY <2>2, <2>3, <2>4
<1>11. Delta(a, p, weight) = new - prev
  <2>1. Existing(a, p) = prev
    <3>1. CASE prev = 0
      BY <3>1, WeightlessIs DEF Existing
    <3>2. CASE prev # 0
      BY <3>2 DEF Existing
    <3> QED BY <3>1, <3>2
  <2>2. MyWeight(a, p) # weight
    <3>1. CASE prev = 0
      <4>1. MyWeight(a, p) = 0 /\ weight # 0
        BY <3>1, WeightlessIs, ProofOfBrainAssumption
      <4> QED BY <4>1
    <3>2. CASE prev # 0
      BY <3>2
    <3> QED BY <3>1, <3>2
  <2> QED BY <2>1, <2>2 DEF Delta
<1> DEFINE k == new - prev
           now == RewardShare(b, r, t)
           then == RewardShare(b, s, u)
           share == MulDiv(b, r + k, t + k)
<1>12. /\ s \in Nat \ {0} /\ u \in Nat /\ s - r = u - t /\ k \in Int /\ k # 0
       /\ s = r + k /\ u = t + k
  <2>1. /\ prev \in Nat /\ r \in Nat /\ t \in Nat /\ new \in Nat
        /\ prev <= r /\ r <= t /\ new # 0 /\ new # prev
    BY <1>1, <1>4, <1>6, <1>7, <1>8
  <2> HIDE DEF r, t, prev, new
  <2> QED BY <2>1
<1>13. VoteHint(a, p, weight) = (IF ~ Registered(p) THEN "opens"
                                 ELSE IF k < 0 THEN "lowers" ELSE "adds")
  <2>1. VoteHint(a, p, weight) =
          (IF r + k <= 0 THEN "nothing" ELSE IF ~ Registered(p) THEN "opens"
           ELSE IF k = 0 THEN "unchanged" ELSE IF k < 0 THEN "lowers" ELSE "adds")
    BY <1>11 DEF VoteHint
  <2> HIDE DEF r, t, k, s, u
  <2>2. ~ (r + k <= 0)
    BY <1>12
  <2> QED BY <1>12, <2>1, <2>2
<1>14. ~ Registered(p) => k > 0
  <2>1. ~ Registered(p) => prev = 0
    <3>1. PostOK(post[p], vote[p])
      BY BooksTyped DEF BooksOK, Books
    <3> QED BY <3>1 DEF PostOK, Registered
  <2> HIDE DEF prev, new
  <2> QED BY <1>1, <1>6, <1>7, <2>1
<1>15. /\ k >= 0 => now <= then
       /\ k <= 0 => then <= now
       /\ then = IF b = 0 THEN 0 ELSE share
  <2>a. /\ b \in Nat /\ r \in Nat /\ t \in Nat /\ r <= t
        /\ s \in Nat \ {0} /\ u \in Nat /\ s - r = u - t
    BY <1>4, <1>8, <1>12
  <2> HIDE DEF r, t, k, s, u, b
  <2>1. /\ s >= r => now <= then
        /\ s <= r => then <= now
        /\ then = IF b = 0 THEN 0 ELSE MulDiv(b, s, u)
    BY <2>a, PendingMoves
  <2>2. k >= 0 <=> s >= r
    BY <1>4, <1>12
  <2>3. k <= 0 <=> s <= r
    BY <1>4, <1>12
  <2> QED BY <1>12, <2>1, <2>2, <2>3
<1>16. now \in Nat /\ then \in Nat
  <2> HIDE DEF r, t, s, u, b
  <2> QED BY <1>4, <1>8, <1>12, ShareBounds
<1>17. ASSUME k > 0 PROVE then = now + Added(a, p, weight)
  <2>1. Added(a, p, weight) =
          (IF k <= 0 \/ b <= 0 \/ t + k <= 0 THEN 0
           ELSE IF share > now THEN share - now ELSE 0)
    BY <1>9, <1>11 DEF Added
  <2> HIDE DEF r, t, k, s, u, b, now, then, share
  <2>2. ~ (t + k <= 0)
    BY <1>8, <1>17, <1>12
  <2>3. CASE b = 0
    <3>1. now <= then /\ then = 0
      BY <1>12, <1>15, <1>17, <2>3
    <3>2. Added(a, p, weight) = 0
      BY <2>1, <2>3
    <3> QED BY <1>16, <3>1, <3>2
  <2>4. CASE b # 0
    <3>1. now <= then /\ then = share
      BY <1>12, <1>15, <1>17, <2>4
    <3>2. Added(a, p, weight) = IF share > now THEN share - now ELSE 0
      BY <1>8, <1>12, <1>17, <2>1, <2>2, <2>4
    <3> QED BY <1>16, <3>1, <3>2
  <2> QED BY <2>3, <2>4
<1>18. CardOf(p).pending = now /\ CardOf(p)'.pending = then
  BY <1>9, <1>10
<1> HIDE DEF k, now, then
<1>19. /\ VoteHint(a, p, weight) \in {"opens", "adds"} => k > 0
       /\ VoteHint(a, p, weight) \in {"lowers", "nothing"} => k <= 0
  BY <1>12, <1>13, <1>14
<1> QED BY <1>15, <1>17, <1>18, <1>19

(* The card of a post keeps its word: a payout takes from the pool at least *)
(* the figure that was pending, exactly it when no day is walked, and a     *)
(* vote that raises the post adds what the slider said, one that lowers it  *)
(* adds nothing (PendingPayout, VoteSlider.svelte, Payout, Vote).           *)
THEOREM CardsKeep == Spec => CardsKeepTheirWord
<1>1. PobInv /\ [Next]_vars => PayoutPaysPending
  BY PayoutPays DEF PayoutPaysPending
<1>2. PobInv /\ [Next]_vars => VoteAddsWhatWasSaid
  BY VoteAdds DEF VoteAddsWhatWasSaid
<1>3. PobInv /\ [Next]_vars => [PayoutPaysPending /\ VoteAddsWhatWasSaid]_vars
  BY <1>1, <1>2
<1> QED BY <1>3, PobInvariant, PTL DEF Spec, CardsKeepTheirWord
=============================================================================
