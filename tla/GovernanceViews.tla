--------------------------- MODULE GovernanceViews ---------------------------
(***************************************************************************)
(* The page of the ten seats and the values in force (thresholds/+page.    *)
(* svelte, governance.ts), from what the backend reads of the chain: the   *)
(* board, and the shares and preferences of every account on it.           *)
(***************************************************************************)
EXTENDS Governance

\* Mutant: a preference that was never stated reads as a number.
PreferenceAsNumber(p, a) == IF p[a] = NoPreference THEN {Min} ELSE {p[a]}

\* A missing row reads as the empty string, which is no preference: {}.
Preference(p, a) == {p[a]} \ {NoPreference}

\* The rows of the two reads: every seat of the board, not a chosen group.
Rows(b, s, p) ==
  [i \in DOMAIN b |-> [account |-> b[i], shares |-> s[b[i]], preference |-> Preference(p, b[i])]]

Row(rows, a) == CHOOSE r \in {rows[i] : i \in DOMAIN rows} : r.account = a

\* The engine in the browser: the same ranking, fed with rows.
SeatsOf(rows) ==
  LET shares == [a \in {rows[i].account : i \in DOMAIN rows} |-> Row(rows, a).shares]
  IN  Best(shares, DOMAIN shares)

RankIn(rows, a) ==
  LET shares == [c \in SeatsOf(rows) |-> Row(rows, c).shares]
  IN  1 + Cardinality({c \in SeatsOf(rows) \ {a} : BetterSeat(shares, c, a)})

\* The value in force: members that never voted are skipped, the rest clamped.
Clamp(v) == IF v < Min THEN Min ELSE IF v > Max THEN Max ELSE v

ValueInForce(rows) ==
  LET voting == {a \in SeatsOf(rows) : Row(rows, a).preference # {}}
  IN  EffectiveValue([a \in voting |-> Clamp(CHOOSE v \in Row(rows, a).preference : TRUE)], voting)

-----------------------------------------------------------------------------
(* The page.                                                               *)

MySeat(rows, a) == IF a \in SeatsOf(rows) THEN RankIn(rows, a) ELSE 0

\* What the page tells the signed-in account about its standing; `mine' are
\* its shares as its own account view has them.
Standing(rows, a, mine) ==
  LET seats == SeatsOf(rows)
      last  == {c \in seats : RankIn(rows, c) = ConsensusSize}
      gap   == Row(rows, CHOOSE c \in last : TRUE).shares - mine
  IN  CASE MySeat(rows, a) # 0 -> [says |-> "seated", more |-> 0]
        [] MySeat(rows, a) = 0 /\ last = {} -> [says |-> "unfilled", more |-> 0]
        [] OTHER -> [says |-> "not in", more |-> IF gap > 0 THEN gap ELSE 0]

InBounds(v) == v >= Min /\ v <= Max

\* The editor takes a preference of a seated account within the bounds.
MaySet(rows, a, v) == MySeat(rows, a) # 0 /\ InBounds(v)

(* Read at one moment, the page is the chain: it seats whom the chain      *)
(* seats, shows the value in force, ABSENT IS NOT ZERO, and takes a        *)
(* preference exactly when set_param would.  An account told how many      *)
(* shares it lacks gets its seat with one more than that and one offer,    *)
(* whatever dead seats the board still holds, and an unfilled seat is had  *)
(* for one share (magi-backend.ts, governance; thresholds/+page.svelte).   *)
BoardPageTellsTheTruth ==
  \A rows \in {Rows(board, shr, pref)} :
    /\ SeatsOf(rows) = ConsensusMembers(shr, board)
    /\ ValueInForce(rows) = EffectiveValue(pref, Votes(shr, board, pref))
    /\ \A a \in Accounts :
         LET says   == Standing(rows, a, shr[a])
             gained == [shr EXCEPT ![a] = @ + says.more + 1]
         IN  /\ \A v \in Values :
                  MaySet(rows, a, v) <=> v \in Min .. Max /\ a \in ConsensusMembers(shr, board)
             /\ says.says # "seated" => a \in ConsensusMembers(gained, Offer(gained, board, a))
=============================================================================
