----------------------------- MODULE FeedScreen -----------------------------
(***************************************************************************)
(* The feed as one reader has it on the screen: the strip "What's hot" and *)
(* the rows below it.  A vote cast from a row, or taken back there, holds  *)
(* the order on the screen still until it is sorted anew (+page.svelte,    *)
(* voted, resort, hot, shown).                                             *)
(*                                                                         *)
(* What is held is not part of the state: the properties ask about every   *)
(* order a vote may have frozen, at whatever time.  The page has always    *)
(* read what the chain has last; the figures of a card are those of Feed.  *)
(* Sorted by Trending, unfiltered, and none of the older posts opened.     *)
(***************************************************************************)
EXTENDS Feed
LOCAL INSTANCE SequencesExt

\* The live ranking: the strip, the rows, the older posts, which nobody has
\* asked for, and all there are.
Ranking(list) ==
  LET rows == RankedShown(list, 0)
      hot  == RankedHot(list)
  IN  [hot   |-> [n \in DOMAIN hot |-> list[hot[n]].key],
       shown |-> [n \in DOMAIN rows |-> list[rows[n].post].key],
       older |-> {list[i].key : i \in ToSet(Older(list))},
       all   |-> AllKeys(list)]

\* The rows it is made of.
Read == <<day, acc_day, pool, rshares, post>>

\* What a vote holds still is the live ranking, whatever is on the screen.
Voted(live) == [hot |-> live.hot, shown |-> live.shown]

\* Orders a vote may have frozen: no post stood twice on that screen.
FrozenOrders ==
  {held \in [hot : SetToAllKPermutations(Posts), shown : SetToAllKPermutations(Posts)] :
     Len(held.hot) <= HotSlots /\ ToSet(held.hot) \cap ToSet(held.shown) = {}}

\* Mutant: the rows are ranked anew.
RankedAnew(before, live) == live.shown

\* The rows that were there, and what the ranking has besides at the end, also
\* what stands in the strip.
FrozenShown(before, live) ==
  SelectSeq(before, LAMBDA k : k \in live.all)
    \o SelectSeq(live.shown, LAMBDA k : k \notin ToSet(before))

FrozenHot(before, live) == SelectSeq(before, LAMBDA k : k \in live.all)

\* The screen of who has voted.
Screen(held, live) ==
  [strip |-> FrozenHot(held.hot, live), rows |-> FrozenShown(held.shown, live)]

\* The slider of a row: somebody votes, or takes the vote back.  The strip has none.
Pressed(live) ==
  \E p \in Posts : p \in ToSet(live.shown) /\ vote'[p] # vote[p] /\ ~ post'[p].paid

-----------------------------------------------------------------------------
\* Of K, what stands on both stands in the same order.
SameOrder(old, new, K) ==
  \A both \in {ToSet(K) \cap ToSet(old) \cap ToSet(new)} :
    SelectSeq(old, LAMBDA k : k \in both) = SelectSeq(new, LAMBDA k : k \in both)

\* Nothing stands twice in the strip or in the rows; in both stands exactly
\* what the ranking has moved out of the frozen strip into the rows; and what
\* stands nowhere is older, or new since the freeze and first of all in the strip.
ScreenIsComplete(screen, held, live) ==
  \A strip \in {ToSet(screen.strip)}, rows \in {ToSet(screen.rows)} :
    /\ Cardinality(strip) = Len(screen.strip) /\ Cardinality(rows) = Len(screen.rows)
    /\ strip \cap rows = strip \cap ToSet(live.shown)
    /\ live.all \ (strip \cup rows) \subseteq
         live.older \cup (ToSet(live.hot) \ ToSet(held.hot \o held.shown))

ScreensAreComplete ==
  \A live \in {Ranking(PostViews)} :
    /\ ToSet(live.hot) \cap ToSet(live.shown) = {}
    /\ \A held \in FrozenOrders : ScreenIsComplete(Screen(held, live), held, live)

\* A first vote takes the live order over as it is, and no step moves what
\* a vote has frozen.
HeldStill(live, next) ==
  /\ Pressed(live) =>
       \A new \in {Screen(Voted(live), next)} :
         IsPrefix(live.hot, new.strip) /\ IsPrefix(live.shown, new.rows)
  /\ \A held \in FrozenOrders : \A old \in {Screen(held, live)}, new \in {Screen(held, next)} :
       SameOrder(old.strip, new.strip, held.hot) /\ SameOrder(old.rows, new.rows, held.shown)

ScreensHoldStill ==
  Read' # Read =>
    \A list \in {PostViews}, reread \in {PostViews'} :
      reread # list =>
        \A live \in {Ranking(list)}, next \in {Ranking(reread)} :
          live # next => HeldStill(live, next)

(* Lists keep their order: they are complete and in order whatever was     *)
(* read (Listing), the feed reads every post of its own once, and nothing  *)
(* stands twice on a screen that is not frozen.  Once a vote has frozen it *)
(* no card moves until it is sorted or voted on again, whatever is voted,  *)
(* paid or opened meanwhile, with nothing lost from the screen ("only the  *)
(* ORDER holds still", +page.svelte:229-238).  What may stand twice on a   *)
(* frozen screen is said exactly, and is what NothingTwiceOnScreen denies. *)
ListsKeepTheirOrder ==
  /\ [](ListsAreInOrder /\ ScreensAreComplete)
  /\ [][ScreensHoldStill]_vars

(* "The same post twice on one screen reads as a bug, and the strip is a   *)
(* promotion out of the list, not a copy of it" (+page.svelte:193-195):    *)
(* after a vote the strip shows nothing the rows show.  It does: a vote    *)
(* that lifts another post into the strip leaves the displaced one in the  *)
(* frozen strip and appends it to the rows, which are compared with the    *)
(* frozen rows alone (+page.svelte:259-265).                               *)
NothingTwiceOnScreen ==
  [][\A list \in {PostViews}, reread \in {PostViews'} :
     \A live \in {Ranking(list)}, next \in {Ranking(reread)} :
     \A screen \in {Screen(Voted(live), next)} :
       Pressed(live) => ToSet(screen.strip) \cap ToSet(screen.rows) = {}]_vars
=============================================================================
