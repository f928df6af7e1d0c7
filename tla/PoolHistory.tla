----------------------------- MODULE PoolHistory -----------------------------
(***************************************************************************)
(* The pool's past as the site and the market endpoints tell it.  Neither  *)
(* the contract nor a node keeps reserves of the past: the chart replays   *)
(* the calls through the engine (client.ts, poolTrades), the endpoints add *)
(* up what the calls returned (market.ts), and the list of positions asks  *)
(* the log who ever deposited (client.ts, allTranches).                    *)
(*                                                                         *)
(* Every action of LiquidityPool is followed by what a walk of the log     *)
(* that ends with it comes to.  The log has deposits, withdrawals and      *)
(* swaps; an eviction is a call too, and in none of the walks.             *)
(***************************************************************************)
EXTENDS PoolPage

VARIABLES
  market,              \* what the returns add up to: [lc, hbd]
  chart                \* what the replay arrives at: [lc, hbd, shares, minted]

replays == <<market, chart>>

-----------------------------------------------------------------------------
(* The endpoints: every return names what the call moved.                  *)

Return == [lc |-> amm'.lc - amm.lc, hbd |-> amm'.hbd - amm.hbd]

MarketAfter == [lc |-> market.lc + Return.lc, hbd |-> market.hbd + Return.hbd]

Reconciles == market.lc = amm.lc /\ market.hbd = amm.hbd

-----------------------------------------------------------------------------
(* The chart: a call names what went in; the engine says what came out.    *)

\* Mutant: the limit of a deposit is taken for what it drew.
ReplayAddAtCeiling(a, lcIn, maxHbd) ==
  LET q == LiquidityQuote(lcIn, chart)
  IN  [chart EXCEPT !.lc = @ + lcIn, !.hbd = @ + maxHbd, !.shares = @ + q.shares,
                    !.minted[a] = Append(@, q.shares)]

\* Only the first deposit sets the price; the ids of an account count up.
ReplayAdd(a, lcIn, maxHbd) ==
  LET q == LiquidityQuote(lcIn, chart)
  IN  [chart EXCEPT !.lc = @ + lcIn, !.hbd = @ + IF q.first THEN maxHbd ELSE q.hbd,
                    !.shares = @ + q.shares, !.minted[a] = Append(@, q.shares)]

ReplayRemove(a, id) ==
  LET held == chart.minted[a][id]
      w    == WithdrawQuote(held, chart)
  IN  IF held = 0 THEN chart
      ELSE [chart EXCEPT !.lc = @ - w.lc, !.hbd = @ - w.hbd, !.shares = @ - held,
                         !.minted[a][id] = 0]

ReplaySwap(selling, n) ==
  LET q == IF selling THEN SwapQuote(chart.lc, chart.hbd, n) ELSE SwapQuote(chart.hbd, chart.lc, n)
  IN  IF chart.lc <= 0 \/ chart.hbd <= 0 \/ ~ q.ok THEN chart
      ELSE IF selling THEN [chart EXCEPT !.lc = @ + n, !.hbd = @ - q.out]
      ELSE [chart EXCEPT !.hbd = @ + n, !.lc = @ - q.out]

Reconciled == chart.lc = amm.lc /\ chart.hbd = amm.hbd

\* Everyone who ever deposited, and what the chain says of them.
AllTranches ==
  UNION {{<<a, id>> : id \in {i \in DOMAIN lp[a] : lp[a][i].weight > 0 /\ lp[a][i].shares > 0}} :
         a \in {b \in Accounts : chart.minted[b] # <<>>}}

\* The last line of a position's own page, taken from the closing call.
StoryOfClosing == [lc |-> - Return.lc, hbd |-> - Return.hbd]

-----------------------------------------------------------------------------
HistoryInit ==
  /\ Init
  /\ market = [lc |-> 0, hbd |-> 0]
  /\ chart = [lc |-> 0, hbd |-> 0, shares |-> 0, minted |-> [a \in Accounts |-> <<>>]]

Recorded(next) == market' = MarketAfter /\ chart' = next

Unrecorded == UNCHANGED replays

HistoryNext ==
  \/ Tick /\ Unrecorded
  \/ \E day \in Walks :
       \/ Settle(day) /\ Unrecorded
       \/ \E a \in Accounts :
            \/ \E n \in LcAmounts, h \in HbdAmounts :
                 AddLiquidity(a, n, h, day) /\ Recorded(ReplayAdd(a, n, h))
            \/ \E id \in DOMAIN lp[a] :
                 \/ ClaimPoolRewards(a, id, day) /\ Unrecorded
                 \/ RemoveLiquidity(a, id, day) /\ Recorded(ReplayRemove(a, id))
                 \/ \E c \in Accounts : SweepTranche(c, a, id, day) /\ Unrecorded
  \/ \E a \in Accounts :
       \/ \E n \in Gifts : FundLiquidity(a, n) /\ Unrecorded
       \/ \E n \in LcAmounts : SwapLCForHBD(a, n) /\ Recorded(ReplaySwap(TRUE, n))
       \/ \E n \in HbdAmounts : SwapHBDForLC(a, n) /\ Recorded(ReplaySwap(FALSE, n))

HistorySpec == HistoryInit /\ [][HistoryNext]_<<vars, replays>>

-----------------------------------------------------------------------------
\* The replay knows every open position and nothing else.
InStep ==
  /\ Reconciled /\ chart.shares = amm.shares
  /\ \A a \in Accounts :
       /\ Len(chart.minted[a]) = Len(lp[a])
       /\ \A id \in DOMAIN lp[a] :
            chart.minted[a][id] = IF lp[a][id].closed THEN 0 ELSE lp[a][id].shares

\* A position is closed by a call that is in none of the walks.
Evicts == \E k \in Open : k \notin Open' /\ UNCHANGED replays

LeavesDustBehind ==
  \E k \in Open : k \notin Open' /\ LeavesDust(TrancheView(T(k)).value_hbd) # TrancheView(T(k)).value_hbd

\* What a call does to the two histories.
Followed ==
  /\ ~ Evicts => /\ amm'.lc - market'.lc = amm.lc - market.lc
                 /\ amm'.hbd - market'.hbd = amm.hbd - market.hbd
  /\ InStep /\ ~ Evicts /\ ~ LeavesDustBehind => InStep'

(* The two histories follow the pool call by call: the endpoints drift     *)
(* from the reserves with an eviction only, the chart with an eviction or  *)
(* a withdrawal whose HBD is too small to move; and the list of positions  *)
(* names all of them (market.ts, client.ts).  Reserves that agree again    *)
(* are no sign that the chart is back in step: after an eviction one swap  *)
(* may round them together while shares and positions stay apart.          *)
HistoryFollowsPool == [][Followed /\ AllTranches = Open]_<<vars, replays>>

(* Page, chart and endpoints say of every call what it does to the pool and *)
(* to the account that made it (pool/+page.svelte, market.ts, client.ts).   *)
PoolKeepsItsWord == PoolPaysWhatIsShown /\ HistoryFollowsPool

(* "The replay cannot drift from what the chain actually did"              *)
(* (client.ts:313): it does, with the first eviction, and the endpoints    *)
(* with it.                                                                *)
ReplayCannotDrift == amm.shares > 0 => Reconciled /\ Reconciles

(* "Value out = what came back, plus every reward claim"                   *)
(* ([id]/+page.svelte:77): the rewards that closing a position pays are in *)
(* no return and in no claim, so its page leaves them out.                 *)
ClosingIsToldInFull ==
  [][\A k \in Open : k \notin Open' => bal'[k[1]] - bal[k[1]] = StoryOfClosing.lc]_vars
=============================================================================
