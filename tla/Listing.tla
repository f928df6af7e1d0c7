------------------------------ MODULE Listing ------------------------------
(***************************************************************************)
(* The lists of the site: which posts the history of calls discovers, the  *)
(* order of the feed with its hot strip, its promoted slots and its older  *)
(* posts (routes/+page.svelte, feed-order.ts), and the conversation under  *)
(* a post with the replies of Hive folded in (magi-backend.ts,             *)
(* Comments.svelte).                                                       *)
(*                                                                         *)
(* Pure functions of what was read: there are no variables, and the        *)
(* properties are about every bounded input.  A card is a record of what a *)
(* post shows; posts, replies and calls are numbers.                       *)
(***************************************************************************)
EXTENDS Integers, Sequences, FiniteSets
LOCAL INSTANCE SequencesExt

CONSTANTS
  HotSlots, PromotedSlotEvery,
  OlderAfterDays,
  MaxFetches,          \* replies fetched from Hive for one conversation
  Replies,             \* BOUND: 1 .. n, a reply is younger than its parent
  Logs,                \* BOUND: histories of transactions, newest first
  Cards                \* BOUND: cards the order is checked on

Nobody == 0            \* the post the conversation is under
Elsewhere == -1        \* a reply to something that is not in the conversation

ASSUME ListingAssumption ==
  /\ HotSlots \in Nat /\ PromotedSlotEvery \in Nat \ {0} /\ OlderAfterDays \in Nat
  /\ MaxFetches \in Nat
  /\ Replies = 1 .. Cardinality(Replies)

Take(q, n) == SubSeq(q, 1, IF n < Len(q) THEN n ELSE Len(q))

-----------------------------------------------------------------------------
(* Discovery: the calls of the history name posts; failed transactions are *)
(* skipped, a key is taken at its first sighting, and the limit is looked  *)
(* at between transactions.                                                *)

Names(action, c) == c.action = action \/ (action = "post" /\ c.action = "vote")

Sighted(found, calls, action) ==
  FoldLeft(LAMBDA f, c : IF Names(action, c) /\ c.key \notin ToSet(f) THEN Append(f, c.key) ELSE f,
           found, calls)

Discovered(txs, limit, action) ==
  FoldLeft(LAMBDA found, tx :
             IF Len(found) >= limit \/ ~ tx.ok THEN found ELSE Sighted(found, tx.calls, action),
           <<>>, txs)

-----------------------------------------------------------------------------
(* The feed.  `list' is a sequence of cards in the order they were read;   *)
(* the rows are positions in it.  Sorting is stable.                       *)

Arranged(S, Before(_, _)) ==
  SetToSortSeq(S, LAMBDA i, j : Before(i, j) \/ (~ Before(j, i) /\ i < j))

\* Inside its window and registered: votes and bids still count.
CanEarn(c) == c.registered /\ ~ c.paid /\ ~ c.payable

TrendingTier(c) == IF c.paid THEN 2 ELSE IF c.registered THEN 0 ELSE 1

IsOlderPaidOut(c) == c.paid /\ c.closedFor >= OlderAfterDays

RankedHot(list) ==
  Take(Arranged({i \in DOMAIN list :
                   list[i].win = "viral" /\ CanEarn(list[i]) /\ list[i].pending > 0},
                LAMBDA i, j : list[i].pending > list[j].pending),
       HotSlots)

Older(list) ==
  Arranged({i \in DOMAIN list : IsOlderPaidOut(list[i])},
           LAMBDA i, j : list[i].created > list[j].created)

TrendingBefore(c, d) ==
  \/ TrendingTier(c) < TrendingTier(d)
  \/ /\ TrendingTier(c) = TrendingTier(d)
     /\ \/ c.pending > d.pending
        \/ c.pending = d.pending /\ c.created > d.created

\* What votes alone make of the list: without the hot strip and the older ones.
Ranked(list) ==
  Arranged(DOMAIN list \ (ToSet(RankedHot(list)) \cup ToSet(Older(list))),
           LAMBDA i, j : TrendingBefore(list[i], list[j]))

\* The bidders, highest burn first.
Candidates(list, ranked) ==
  LET at == Arranged({n \in DOMAIN ranked : CanEarn(list[ranked[n]]) /\ list[ranked[n]].promoted > 0},
                     LAMBDA m, n : list[ranked[m]].promoted > list[ranked[n]].promoted)
  IN  [k \in DOMAIN at |-> ranked[at[k]]]

Winners(list, ranked) == Take(Candidates(list, ranked), Len(ranked) \div PromotedSlotEvery)

\* Every Nth row to a winner while there is one; the others keep their order.
WithPromotedSlots(list, ranked) ==
  LET won  == Winners(list, ranked)
      rest == SelectSeq(ranked, LAMBDA i : i \notin ToSet(won))
      row(i, slot) == [post |-> i, slot |-> slot]
      after[n \in 0 .. Len(ranked)] ==
        IF n = 0 THEN [rows |-> <<>>, w |-> 0, r |-> 0]
        ELSE LET s == after[n - 1]
                 winner == [rows |-> Append(s.rows, row(won[s.w + 1], TRUE)), w |-> s.w + 1, r |-> s.r]
                 next   == [rows |-> Append(s.rows, row(rest[s.r + 1], FALSE)), w |-> s.w, r |-> s.r + 1]
             IN  IF n % PromotedSlotEvery = 0 /\ s.w < Len(won) THEN winner
                 ELSE IF s.r < Len(rest) THEN next
                 ELSE IF s.w < Len(won) THEN winner
                 ELSE s
  IN  after[Len(ranked)].rows

\* Trending, with `open' of the older posts shown.
RankedShown(list, open) ==
  WithPromotedSlots(list, Ranked(list))
    \o [k \in 1 .. Len(Take(Older(list), open)) |-> [post |-> Older(list)[k], slot |-> FALSE]]

-----------------------------------------------------------------------------
(* The conversation.  A thread says what every reply answers and what it   *)
(* is: registered by a comment call, or only on Hive and then from an      *)
(* author above the threshold, below it, or nothing but tip-bot commands.  *)

Is(t, kind) == {k \in Replies : t.kind[k] = kind}

\* The comment calls whose chain of parents reaches the post.
InTree(t) ==
  LET grown[n \in 0 .. Cardinality(Replies)] ==
        IF n = 0 THEN {}
        ELSE grown[n - 1] \cup {k \in Is(t, "registered") :
                                  t.parent[k] = Nobody \/ t.parent[k] \in grown[n - 1]}
  IN  grown[Cardinality(Replies)]

\* Breadth first over Hive: the post, the registered replies, and what is found.
HiveReplies(t) ==
  LET known == InTree(t)
      start == <<Nobody>> \o SetToSortSeq(known, <)
      after[n \in 0 .. MaxFetches] ==
        IF n = 0 THEN [queue |-> start, queued |-> ToSet(start), fresh |-> {}]
        ELSE LET s == after[n - 1]
                 new == {k \in Replies : t.parent[k] = Head(s.queue)} \ s.queued
             IN  IF s.queue = <<>> THEN s
                 ELSE [queue  |-> Tail(s.queue) \o SetToSortSeq(new, <),
                       queued |-> s.queued \cup new,
                       fresh  |-> s.fresh \cup (new \ known)]
  IN  after[MaxFetches].fresh

\* A reply imports its parent, one step per pass; commands import nothing.
Visible(t, found) ==
  LET hive == found \ Is(t, "bot")
      grown[n \in 0 .. Cardinality(Replies)] ==
        IF n = 0 THEN InTree(t) \cup (hive \cap Is(t, "qualified"))
        ELSE grown[n - 1] \cup {k \in hive : \E c \in grown[n - 1] : t.parent[c] = k}
  IN  grown[Cardinality(Replies)]

\* Bot commands are counted, and shown when asked for, below what is visible.
VisibleHiveReplies(t, found, showBots) ==
  (Visible(t, found) \ InTree(t))
    \cup {k \in found \cap Is(t, "bot") : showBots /\ t.parent[k] \in Visible(t, found)}

\* The replies the page is given.
Comments(t, showBots) == InTree(t) \cup VisibleHiveReplies(t, HiveReplies(t), showBots)

\* Roots: registered ones first, then by reward, then by age.
RootBefore(t, i, j) ==
  LET off(k) == IF k \in InTree(t) THEN 0 ELSE 1
  IN  \/ off(i) < off(j)
      \/ off(i) = off(j) /\ t.pending[i] > t.pending[j]
      \/ off(i) = off(j) /\ t.pending[i] = t.pending[j] /\ i < j

\* The rows of the page: a reply, then what answers it by age, one level deeper.
RankedReplies(t, showBots) ==
  LET list  == Comments(t, showBots)
      below(k) == {c \in list : t.parent[c] = k}
      roots == {k \in list : t.parent[k] \notin list}
      \* A reply is younger than its parent, so the walks are built youngest first.
      walk[n \in 0 .. Cardinality(Replies)] ==
        IF n = 0 THEN [k \in Replies |-> <<>>]
        ELSE LET k == Cardinality(Replies) + 1 - n
                 kids == SetToSortSeq(below(k), <)
                 deeper == [i \in DOMAIN kids |->
                              [j \in DOMAIN walk[n - 1][kids[i]] |->
                                 [walk[n - 1][kids[i]][j] EXCEPT !.depth = @ + 1]]]
             IN  [walk[n - 1] EXCEPT ![k] = <<[reply |-> k, depth |-> 0]>> \o FlattenSeq(deeper)]
      order == SetToSortSeq(roots, LAMBDA i, j : RootBefore(t, i, j))
  IN  FlattenSeq([i \in DOMAIN order |-> walk[Cardinality(Replies)][order[i]]])

-----------------------------------------------------------------------------
(* Every key of the calls that went through is found, newest first and     *)
(* once, unless the limit was reached; nothing else is.                    *)
DiscoveryIsComplete ==
  \A log \in Logs, limit \in 1 .. 2 :
    LET found == Discovered(log, limit, "post")
        named(n) == {c.key : c \in {d \in ToSet(log[n].calls) : Names("post", d)}}
        oks == {n \in DOMAIN log : log[n].ok}
    IN  /\ Cardinality(ToSet(found)) = Len(found)
        /\ ToSet(found) \subseteq UNION {named(n) : n \in oks}
        /\ \A n \in oks :
             \/ named(n) \subseteq ToSet(found)
             \/ Cardinality(UNION {named(m) : m \in {m \in oks : m < n}}) >= limit

(* One screen shows every post once, the hidden older ones apart; a bidder *)
(* that wins no slot keeps its ranked place, slots stand at every Nth row  *)
(* in the order of the burns, and outside of them no post that cannot earn *)
(* any more is above one that can (+page.svelte:145-225, 290-325).         *)
FeedIsFair ==
  \A list \in UNION {[1 .. n -> Cards] : n \in 2 .. 3}, open \in 0 .. 1 :
  \A hot \in {RankedHot(list)}, rows \in {RankedShown(list, open)} :
    LET slots == {n \in DOMAIN rows : rows[n].slot}
        posts == hot \o [n \in DOMAIN rows |-> rows[n].post]
        card(n) == list[rows[n].post]
        plain(n) == n \in DOMAIN rows \ slots
    IN  /\ Cardinality(ToSet(posts)) = Len(posts)
        /\ DOMAIN list \ ToSet(posts) = ToSet(Older(list)) \ ToSet(Take(Older(list), open))
        /\ slots = {PromotedSlotEvery * k : k \in 1 .. Cardinality(slots)}
        /\ \A m, n \in slots : m < n => card(m).promoted >= card(n).promoted
        /\ \A n \in DOMAIN rows : plain(n) =>
             /\ \A m \in slots : CanEarn(card(n)) => card(n).promoted <= card(m).promoted
             /\ \A m \in DOMAIN rows : m < n /\ plain(m) =>
                  \/ IsOlderPaidOut(card(n))
                  \/ ~ TrendingBefore(card(n), card(m))

\* A registered reply answers a registered record; the others answer anything.
Threads ==
  LET kinds == {"registered", "qualified", "below", "bot"}
      parents == {p \in [Replies -> Replies \cup {Nobody, Elsewhere}] :
                    \A k \in Replies : p[k] < k}
      grounded(p, kind) == \A k \in Replies :
        kind[k] = "registered" /\ p[k] \in Replies => kind[p[k]] = "registered"
      thread(p, kind) ==
        [parent |-> p, kind |-> kind,
         pending |-> [k \in Replies |-> IF kind[k] = "registered" THEN k ELSE 0]]
  IN  {thread(pk[1], pk[2]) :
         pk \in {pk \in parents \X [Replies -> kinds] : grounded(pk[1], pk[2])}}

\* What a reply answers, directly or not.
Above(t, k) ==
  LET up[n \in 0 .. Cardinality(Replies)] ==
        IF n = 0 THEN {t.parent[k]}
        ELSE up[n - 1] \cup {t.parent[j] : j \in up[n - 1] \cap Replies}
  IN  up[Cardinality(Replies)]

(* A conversation is complete and in order.  Every registered reply of the *)
(* post is shown, and so is every qualified one that was fetched; one      *)
(* below the threshold is shown exactly when a shown reply of a qualified  *)
(* author, or a registered one, hangs below it with no bot command in      *)
(* between; a row stands once, below what it answers and one level deeper  *)
(* ("A REPLY IMPORTS ITS PARENT", magi-backend.ts:2527).                   *)
ThreadIsReadable ==
  \A t \in Threads, showBots \in BOOLEAN :
  \A found \in {HiveReplies(t)}, rows \in {RankedReplies(t, showBots)} :
    LET shown == {rows[n].reply : n \in DOMAIN rows}
        heard == InTree(t) \cup (found \cap Is(t, "qualified"))
        at(k) == CHOOSE n \in DOMAIN rows : rows[n].reply = k
    IN  /\ Cardinality(shown) = Len(rows)
        /\ InTree(t) = {k \in Is(t, "registered") : Nobody \in Above(t, k)}
        /\ heard \subseteq shown
        /\ \A k \in found \cap Is(t, "below") :
             k \in shown <=> \E d \in heard : k \in Above(t, d)
                                /\ \A j \in Above(t, d) : j > k => j \notin Is(t, "bot")
        /\ \A k \in shown : t.parent[k] \in shown =>
             at(t.parent[k]) < at(k) /\ rows[at(k)].depth = rows[at(t.parent[k])].depth + 1
        /\ (showBots => \A k \in Is(t, "bot") \cap found : t.parent[k] \in heard => k \in shown)
=============================================================================
