------------------------------- MODULE Signer -------------------------------
(***************************************************************************)
(* What one press of a button does on the site (client.ts,                 *)
(* aioha-signer.ts): plan the accrual catch-up that goes ahead of the      *)
(* user's call, dry-run and size every call against the account's resource *)
(* meter, have the wallet sign them as one Hive transaction, and let MAGI  *)
(* execute each call as a transaction of its own.                          *)
(*                                                                         *)
(* One account in one tab: the page is busy until the chain's verdict is   *)
(* in, so presses do not overlap.  The chain moves between any two awaits: *)
(* days turn, other users walk the accrual and settle posts, credits thaw. *)
(* Of the contract the module keeps what the signer can tell apart: how    *)
(* far the walk is behind and which calls it refuses for that.  Limits are *)
(* counted in thousands of credits.                                        *)
(***************************************************************************)
EXTENDS Integers, Sequences, FiniteSets, Loops

CONSTANTS
  Todo,               \* what the user wants done: "claim", "mint", "swap", "vote"
  Posts,              \* closed posts nobody has settled, in the order the client lists them
  Days,               \* days the instance lasts
  Due,                \* [0..Days -> Nat], mints that mature on each day
  ClaimDay,           \* the day the user's own mint matures
  Capacity,           \* the credits the account holds when nothing is frozen
  Gas,                \* [Kinds -> Nat], credits a dry run reports
  Cost,               \* credits a call of each kind really takes
  Draw,               \* credits' worth of HBD the swap draws
  Margin,             \* PROBE_MARGIN_MILLI
  RC_LIMITS,          \* [Kinds -> Nat], the table
  RC_CEILING,
  MaxRetirePerWalk, UserRetireBudget,
  MaxSlices,          \* catchUp's default argument
  MaxFaults           \* bound: outages, cancelled presses and lost transactions

\* What a call that is sized may be: the user's, or what goes with it.
Kinds == {"claim", "mint", "swap", "vote", "advance", "payout"}

ASSUME SignerAssumption ==
  /\ Todo \subseteq {"claim", "mint", "swap", "vote"}
  /\ Days \in Nat /\ ClaimDay \in 0..Days
  /\ Due \in [0..Days -> Nat]
  /\ Gas \in [Kinds -> Nat] /\ RC_LIMITS \in [Kinds -> Nat]
  /\ Capacity \in Nat /\ Draw \in Nat /\ Margin \in Nat /\ RC_CEILING \in Nat
  /\ MaxRetirePerWalk \in Nat \ {0} /\ UserRetireBudget \in Nat
  /\ MaxSlices \in Nat

HiveCustomJsonPerBlock == 5
MaxSideCalls == 2
RC_HEADROOM == 3
ALLOWANCE_RC == 1

HBD_DRAW_OPS == {"swap"}
TOKEN_DEBIT_OPS == {"mint"}
PreCallOps == {"claim", "mint"}
SideCallOps == {"vote"}

Least(a, b) == IF a <= b THEN a ELSE b
Most(a, b) == IF a >= b THEN a ELSE b
Ceil(a, b) == (a + b - 1) \div b

\* A cached meter reading: none, unreadable (the node answered with nothing
\* usable), or a number of credits.
NotRead == [state |-> "none", amount |-> 0]
Unreadable == [state |-> "unreadable", amount |-> 0]
Reading(n) == [state |-> "read", amount |-> n]

NoPlan == [planned |-> FALSE, slices |-> 0]
NoPress == [op |-> "none", slices |-> 0, calls |-> <<>>, metered |-> FALSE]

VARIABLES
  chain,    \* today, the walk (accDay, retired), unpaid posts, what has landed
  meter,    \* credits the account has now
  rc,       \* the wallet's cached meter reading
  ahead,    \* the client's cached catch-up plan
  press,    \* the press in flight: operation, planned slices, calls to sign
  phase,    \* "idle", "sizing" or "wallet"
  faults

walletVars == <<chain, meter, rc, ahead, press, phase, faults>>

-----------------------------------------------------------------------------
(* The accrual walk and the contract's refusals, as far as the signer can  *)
(* tell them apart.                                                        *)

\* Mints that mature before day d.
DueBefore == [d \in 0..(Days + 1) |-> Total(Due, 0..(d - 1))]

\* The walk retires at most `budget` matured mints; a day is passed once all
\* of its mints are retired.
Walk(c, budget) ==
  LET retired == Least(DueBefore[c.today], c.retired + budget)
      Passed(d) == DueBefore[d] <= retired
  IN [c EXCEPT !.retired = retired,
               !.accDay = CHOOSE d \in c.accDay..c.today :
                            Passed(d) /\ \A e \in (d + 1)..c.today : ~Passed(e)]

\* What the contract answers to a call on chain c: "ok" or why not.
Answer(c, call) ==
  CASE call.kind = "mint" /\ Walk(c, UserRetireBudget).accDay < c.today -> "accrual is behind"
    [] call.kind = "claim" /\ Walk(c, UserRetireBudget).accDay <= ClaimDay -> "call advance"
    [] call.kind = "payout" /\ call.post \notin c.unpaid -> "refused"
    [] OTHER -> "ok"

\* What a call the contract accepts leaves behind.
Effect(c, call) ==
  CASE call.kind = "advance" -> Walk(c, MaxRetirePerWalk)
    [] call.kind = "payout"  -> [c EXCEPT !.unpaid = @ \ {call.post}]
    [] call.kind \in PreCallOps ->
         [Walk(c, UserRetireBudget) EXCEPT !.landed = @ \cup {call.kind}]
    [] call.kind \in Todo \ PreCallOps -> [c EXCEPT !.landed = @ \cup {call.kind}]
    [] OTHER -> c

-----------------------------------------------------------------------------
(* The client's plan.                                                      *)

\* catchUp: as many advance slices as the mints due up to and including today
\* need, and one more; none when the walk has reached today.
Slices(c) ==
  IF c.accDay >= c.today THEN 0
  ELSE Least(MaxSlices, Ceil(DueBefore[c.today + 1] - c.retired, MaxRetirePerWalk) + 1)

-----------------------------------------------------------------------------
(* The signer: sizing one call.                                            *)

Call(kind, limit) == [kind |-> kind, limit |-> limit, post |-> "none"]

HbdDrawn(kind) == IF kind \in HBD_DRAW_OPS THEN Draw ELSE 0

\* The credits a call may ask for: an HBD draw shares them with its own limit.
Room(kind, avail) ==
  IF kind \in HBD_DRAW_OPS THEN avail - Draw - Margin ELSE avail

\* The limit a draw is probed at.
ProbeLimit(kind, reading) ==
  IF reading.state = "read"
  THEN Most(RC_LIMITS[kind], Least(RC_CEILING, Most(0, Room(kind, reading.amount))))
  ELSE RC_LIMITS[kind]

\* The dry run's answer: the node reserves the probe beside a draw.
DryRun(call, reading) ==
  IF call.kind \in HBD_DRAW_OPS /\ ProbeLimit(call.kind, reading) + Draw > meter
  THEN "not enough credits"
  ELSE Answer(chain, call)

\* sizeRc: a limit, or a refusal with the reason.  `run` is the dry run's
\* answer, "unanswered" when the node could not simulate.
SizeRc(kind, run, reading) ==
  LET Limit(n)   == [ok |-> TRUE, limit |-> n, msg |-> ""]
      Refusal(m) == [ok |-> FALSE, limit |-> 0, msg |-> m]
      table      == RC_LIMITS[kind]
      sized      == Least(RC_CEILING, Most(table, RC_HEADROOM * Gas[kind]))
      tableFloor == IF kind = "advance" THEN 0 ELSE Ceil(6 * table, 10)
      floor      == Most(Ceil(13 * Gas[kind], 10), tableFloor)
      metered    == reading.state = "read"
      room       == Room(kind, reading.amount)
  IN CASE run = "unanswered" /\ metered /\ reading.amount < table -> Refusal("not enough credits")
       [] run = "unanswered" /\ ~(metered /\ reading.amount < table) -> Limit(table)
       [] run \notin {"unanswered", "ok"} -> Refusal(run)
       [] run = "ok" /\ metered /\ room < sized ->
            IF room < floor THEN Refusal("not enough credits") ELSE Limit(room)
       [] run = "ok" /\ ~(metered /\ room < sized) -> Limit(sized)

-----------------------------------------------------------------------------
(* The signer: one bundle for one press.                                   *)

\* Mutant of AsksForAdvance: the phrase of a claim on its maturity is missed.
AsksOneWay(msg) == msg = "accrual is behind"

\* The refusals that a catch-up would cure.
AsksForAdvance(msg) == msg \in {"accrual is behind", "call advance"}

\* Mutant of Bundle: settlements go first.
SettlementsFirst(pre, call, side) == pre \o side \o <<call>>

\* The user's call between what must come before it and what rides along.
Bundle(pre, call, side) == pre \o <<call>> \o side

\* submit: what goes to the wallet.  All dry runs answer from one chain.
Submit(op, slices, reading, answered) ==
  LET Size(call) == SizeRc(call.kind, IF answered THEN DryRun(call, reading) ELSE "unanswered", reading)
      allowance == IF op \in TOKEN_DEBIT_OPS THEN <<Call("increaseAllowance", ALLOWANCE_RC)>> ELSE <<>>
      preSlots  == HiveCustomJsonPerBlock - 1 - Len(allowance)
      preWanted == Least(slices, preSlots)
      advance   == Size(Call("advance", 0))
      user      == Size(Call(op, 0))
      pre       == allowance \o
                   [i \in 1..(IF advance.ok THEN preWanted ELSE 0) |-> Call("advance", advance.limit)]
      Payout(p) == [Call("payout", 0) EXCEPT !.post = p]
      wanted    == IF op \in SideCallOps
                   THEN SubSeq(Posts, 1, Least(Len(Posts), Least(MaxSideCalls, preSlots - preWanted)))
                   ELSE <<>>
      \* One that would be refused is dropped; there are MaxSideCalls at most.
      Ride(i)   == IF i <= Len(wanted) /\ Size(Payout(wanted[i])).ok
                   THEN <<[Payout(wanted[i]) EXCEPT !.limit = Size(Payout(wanted[i])).limit]>>
                   ELSE <<>>
  IN IF user.ok THEN Bundle(pre, Call(op, user.limit), Ride(1) \o Ride(2))
     ELSE IF AsksForAdvance(user.msg) THEN pre
     ELSE <<>>

-----------------------------------------------------------------------------
(* MAGI: each call of the bundle is a transaction of its own.  It is       *)
(* admitted if the account holds its limit, and a draw beside it; the full *)
(* limit is frozen, also when the call fails or is not admitted.           *)

Execute(s, call) ==
  LET drawn == HbdDrawn(call.kind)
      runs  == /\ call.limit + drawn <= s.meter
               /\ call.limit >= Cost[call.kind]
               /\ call.kind \in TOKEN_DEBIT_OPS => s.granted
               /\ Answer(s.chain, call) = "ok"
  IN [chain   |-> IF runs THEN Effect(s.chain, call) ELSE s.chain,
      meter   |-> Most(0, s.meter - call.limit - IF runs THEN drawn ELSE 0),
      granted |-> s.granted \/ (runs /\ call.kind = "increaseAllowance")]

Executed(calls) ==
  LET after[i \in 0..Len(calls)] ==
        IF i = 0 THEN [chain |-> chain, meter |-> meter, granted |-> FALSE]
        ELSE Execute(after[i - 1], calls[i])
  IN  after[Len(calls)]

-----------------------------------------------------------------------------
WalletInit ==
  /\ chain = [today |-> 0, accDay |-> 0, retired |-> 0,
              unpaid |-> {Posts[i] : i \in DOMAIN Posts}, landed |-> {}]
  /\ meter = Capacity
  /\ rc = NotRead
  /\ ahead = NoPlan
  /\ press = NoPress
  /\ phase = "idle"
  /\ faults = 0

Fault == faults < MaxFaults /\ faults' = faults + 1

\* warmCatchUp: the plan is read before the press.
WarmCatchUp ==
  /\ ~ahead.planned
  /\ ahead' = [planned |-> TRUE, slices |-> Slices(chain)]
  /\ UNCHANGED <<chain, meter, rc, press, phase, faults>>

\* A button is pressed: await catchUp (the warm plan, a fresh read, or
\* nothing when the read fails), then #send drops the plan.  Only a matured
\* mint is claimed.
Press(op) ==
  /\ phase = "idle"
  /\ op \in Todo \ chain.landed
  /\ op = "claim" => chain.today >= ClaimDay
  /\ \/ /\ op \in PreCallOps
        /\ press' = [NoPress EXCEPT !.op = op,
                       !.slices = IF ahead.planned THEN ahead.slices ELSE Slices(chain)]
        /\ UNCHANGED faults
     \/ /\ op \in PreCallOps /\ ~ahead.planned
        /\ press' = [NoPress EXCEPT !.op = op]
        /\ Fault
     \/ /\ op \notin PreCallOps
        /\ press' = [NoPress EXCEPT !.op = op]
        /\ UNCHANGED faults
  /\ ahead' = NoPlan
  /\ phase' = "sizing"
  /\ UNCHANGED <<chain, meter, rc>>

\* availableRc: one read serves every call of the press.
ReadMeter ==
  /\ phase = "sizing" /\ rc = NotRead
  /\ \/ rc' = Reading(meter) /\ UNCHANGED faults
     \/ rc' = Unreadable /\ Fault
  /\ UNCHANGED <<chain, meter, ahead, press, phase>>

\* Every dry run answers; the calls go to the wallet, or the press ends in a
\* refusal.
Size ==
  /\ phase = "sizing" /\ rc # NotRead
  /\ \E answered \in BOOLEAN :
       /\ IF answered THEN UNCHANGED faults ELSE Fault
       /\ LET calls == Submit(press.op, press.slices, rc, answered)
          IN IF calls = <<>>
             THEN phase' = "idle" /\ press' = NoPress
             ELSE /\ phase' = "wallet"
                  /\ press' = [press EXCEPT !.calls = calls,
                                 !.metered = answered /\ rc.state = "read"]
  /\ UNCHANGED <<chain, meter, rc, ahead>>

\* Mutant of ForgetRc: only #broadcast forgets, and a lone call bypasses it.
ForgetRcInBroadcast(calls) == IF Len(calls) = 1 THEN rc ELSE NotRead

\* What is left of the meter reading once `calls` are handed to the wallet.
ForgetRc(calls) == NotRead

\* The user confirms, Hive includes the transaction, MAGI executes it, and
\* the verdict ends the press.
Include ==
  /\ phase = "wallet"
  /\ LET end == Executed(press.calls) IN chain' = end.chain /\ meter' = end.meter
  /\ rc' = ForgetRc(press.calls)
  /\ phase' = "idle" /\ press' = NoPress
  /\ UNCHANGED <<ahead, faults>>

\* The user declines (the unreadable meter's question, or the wallet), or the
\* transaction never reaches a block.
Drop ==
  /\ phase = "wallet"
  /\ Fault
  /\ rc' = ForgetRc(press.calls)
  /\ phase' = "idle" /\ press' = NoPress
  /\ UNCHANGED <<chain, meter, ahead>>

-----------------------------------------------------------------------------
(* Meanwhile.                                                              *)

NewDay ==
  /\ chain.today < Days
  /\ chain' = [chain EXCEPT !.today = @ + 1]
  /\ UNCHANGED <<meter, rc, ahead, press, phase, faults>>

OthersWalk ==
  /\ \E budget \in {UserRetireBudget, MaxRetirePerWalk} : chain' = Walk(chain, budget)
  /\ UNCHANGED <<meter, rc, ahead, press, phase, faults>>

OthersSettle ==
  /\ \E p \in chain.unpaid : chain' = [chain EXCEPT !.unpaid = @ \ {p}]
  /\ UNCHANGED <<meter, rc, ahead, press, phase, faults>>

\* Five days without a call: the frozen credits are back.
Thaw ==
  /\ meter' = Capacity - IF \E op \in chain.landed : op \in HBD_DRAW_OPS THEN Draw ELSE 0
  /\ UNCHANGED <<chain, rc, ahead, press, phase, faults>>

\* RC_CACHE_MS and CATCHUP_TTL_MS run out; a press waiting for its dry runs
\* keeps the reading it has asked for.
RcExpires ==
  /\ phase # "sizing"
  /\ rc' = NotRead
  /\ UNCHANGED <<chain, meter, ahead, press, phase, faults>>

PlanExpires ==
  /\ ahead' = NoPlan
  /\ UNCHANGED <<chain, meter, rc, press, phase, faults>>

WalletNext ==
  \/ WarmCatchUp
  \/ \E op \in Todo : Press(op)
  \/ ReadMeter \/ Size \/ Include \/ Drop
  \/ NewDay \/ OthersWalk \/ OthersSettle \/ Thaw \/ RcExpires \/ PlanExpires

\* Every await of a press comes back: Size leaves the sizing phase, and
\* Include or one of the few Drops leaves the wallet.
SizingEnds == phase = "sizing" /\ rc # NotRead /\ phase' \in {"idle", "wallet"}
VerdictComes == phase = "wallet" /\ phase' = "idle"

\* The user keeps pressing until it is done, the node, the wallet and the
\* chain answer, time passes and the cached reading runs out, pressed or not.
\* Nobody else is obliged to walk the accrual.
WalletFairness ==
  /\ \A op \in Todo : SF_walletVars(Press(op))
  /\ WF_walletVars(ReadMeter) /\ WF_phase(SizingEnds) /\ WF_phase(VerdictComes)
  /\ WF_walletVars(NewDay) /\ WF_walletVars(Thaw) /\ SF_walletVars(RcExpires)

WalletSpec == WalletInit /\ [][WalletNext]_walletVars /\ WalletFairness

-----------------------------------------------------------------------------
(* What a press owes the user.                                             *)

\* A bundle fits in one Hive block, and no call that was sized asks for more
\* than the account holds, the HBD it draws included, however long ago the
\* meter was read and whatever the account signed before (sizeRc,
\* availableRc, forgetRc): the chain would refuse it and freeze its limit.
EachCallIsPayable ==
  phase = "wallet" /\ press.metered =>
    /\ Len(press.calls) <= HiveCustomJsonPerBlock
    /\ \A i \in DOMAIN press.calls :
         press.calls[i].kind \in DOMAIN RC_LIMITS =>
           press.calls[i].limit + HbdDrawn(press.calls[i].kind) <= meter

\* Settlements ride along with a vote and are never the user's call: whatever
\* becomes of them while the transaction is under way, the vote lands
\* (submit: "it must never block theirs").
SettlementsNeverBlock ==
  [][Include /\ press.metered /\ press.op \in SideCallOps => press.op \in chain'.landed]_walletVars

\* Whatever matures, expires or fails, and with nobody else walking the
\* accrual, a user who keeps pressing gets it done (submit's slices-only
\* bundle, catchUp): a press the contract refuses for lag pushes the walk.
PressesLand == \A op \in Todo : <>(op \in chain.landed)

\* "If that is because accrual is behind and we have slices to send, send
\* ONLY the slices" (submit): without the user's call nothing but advance goes out.
OnlySlicesGoAlone ==
  phase = "wallet" /\ (\A i \in DOMAIN press.calls : press.calls[i].kind # press.op) =>
    \A i \in DOMAIN press.calls : press.calls[i].kind = "advance"
=============================================================================
