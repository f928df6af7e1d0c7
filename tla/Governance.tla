------------------------------ MODULE Governance ------------------------------
(***************************************************************************)
(* The leaderboard that stands in for a scan of all holders, the consensus *)
(* group read from it, and one governed parameter.                         *)
(*                                                                         *)
(* The board is maintained by offers: whoever gains or loses shares in a   *)
(* call is offered, and anyone may offer anyone.  The accrual walk takes   *)
(* shares away without an offer, so seats go stale.                        *)
(***************************************************************************)
EXTENDS Integers, FiniteSets, Sequences

CONSTANTS
  Accounts,            \* numbers, so that names have an order
  BoardSize, ConsensusSize,
  Min, Max, Default,   \* the bounds and the default of the parameter
  MaxShares,           \* BOUND: shares of one account
  Voters,              \* BOUND: the accounts that ever state a preference
  Values               \* BOUND: the preferences tried

ASSUME GovernanceAssumption ==
  /\ Accounts \subseteq Nat /\ IsFiniteSet(Accounts)
  /\ ConsensusSize \in Nat \ {0}
  /\ BoardSize \in Nat /\ BoardSize > ConsensusSize
  /\ Min \in Int /\ Max \in Int /\ Default \in Min .. Max
  /\ MaxShares \in Nat
  /\ Voters \subseteq Accounts
  /\ Values \subseteq Int

VARIABLES
  shr,                 \* shr_<account>: live L-Shares
  board,               \* gov_board: the stored leaderboard
  pref                 \* the standing preferences for the parameter

vars == <<shr, board, pref>>

NoPreference == Max + 1

Seats(b) == {b[i] : i \in DOMAIN b}

-----------------------------------------------------------------------------
(* Ranking.                                                                *)

\* a outranks b: more shares, or the smaller name among equals.
BetterSeat(s, a, b) == s[a] > s[b] \/ (s[a] = s[b] /\ a < b)

\* The worst seat by live shares, wherever on the board it is stored.
WeakestOnBoard(s, b) == CHOOSE a \in Seats(b) : \A c \in Seats(b) \ {a} : BetterSeat(s, c, a)

\* The best ConsensusSize accounts of a set that hold shares at all.
Best(s, A) ==
  {a \in A : s[a] > 0 /\ Cardinality({c \in A : s[c] > 0 /\ BetterSeat(s, c, a)}) < ConsensusSize}

\* The consensus group: shares are read live, dead seats do not count.
ConsensusMembers(s, b) == Best(s, Seats(b))

-----------------------------------------------------------------------------
(* Offering an account a seat.                                             *)

Cut(b) == SubSeq(b, 1, IF Len(b) > BoardSize THEN BoardSize ELSE Len(b))

\* The board without the seat of a: offer drops the old entry first.
Without(b, a) ==
  LET at == CHOOSE i \in DOMAIN b : b[i] = a
  IN  IF a \notin Seats(b) THEN b
      ELSE SubSeq(b, 1, at - 1) \o SubSeq(b, at + 1, Len(b))

\* Mutant: an account that is offered joins at the end.
InsertLast(s, b, a) == Append(b, a)

\* Before the first seat the account outranks, or at the end.
Insert(s, b, a) ==
  LET outranked == {i \in DOMAIN b : BetterSeat(s, a, b[i])}
      at        == CHOOSE i \in outranked : \A j \in outranked : i <= j
  IN  IF outranked = {} THEN Append(b, a)
      ELSE SubSeq(b, 1, at - 1) \o <<a>> \o SubSeq(b, at, Len(b))

Offer(s, b, a) ==
  LET others == Without(b, a)
      beaten == Len(b) >= BoardSize /\ ~ BetterSeat(s, a, WeakestOnBoard(s, b))
  IN  IF s[a] = 0 THEN others
      ELSE IF a \notin Seats(b) /\ beaten THEN b
      ELSE Cut(Insert(s, others, a))

-----------------------------------------------------------------------------
(* The parameter in force.                                                 *)

Votes(s, b, p) == {a \in ConsensusMembers(s, b) : p[a] # NoPreference}

\* Mutant: the highest preference wins.
HighestPreference(p, voting) ==
  IF voting = {} THEN Default
  ELSE LET a == CHOOSE a \in voting : \A c \in voting : p[c] <= p[a] IN p[a]

\* The lower median of the members' preferences.
EffectiveValue(p, voting) ==
  IF voting = {} THEN Default
  ELSE LET below(v) == Cardinality({c \in voting : p[c] < v})
           upTo(v)  == Cardinality({c \in voting : p[c] <= v})
           middle   == (Cardinality(voting) - 1) \div 2
       IN  CHOOSE v \in {p[a] : a \in voting} : below(v) <= middle /\ middle < upTo(v)

-----------------------------------------------------------------------------
Init ==
  /\ shr = [a \in Accounts |-> 0]
  /\ board = <<>>
  /\ pref = [a \in Accounts |-> NoPreference]

\* A mint is created or registered: its owner gains shares and is offered.
RegisterMint(a) ==
  /\ \E n \in 1 .. MaxShares - shr[a] :
       /\ shr' = [shr EXCEPT ![a] = @ + n]
       /\ board' = Offer(shr', board, a)
  /\ UNCHANGED pref

\* A mint is closed: its owner loses its shares, none if the walk took them
\* already, and is offered.
EndMint(a) ==
  /\ \E n \in 0 .. shr[a] :
       /\ shr' = [shr EXCEPT ![a] = @ - n]
       /\ board' = Offer(shr', board, a)
  /\ UNCHANGED pref

\* The accrual walk retires matured shares and leaves the board alone.
DrainExpiryList(a) ==
  /\ \E n \in 1 .. shr[a] : shr' = [shr EXCEPT ![a] = @ - n]
  /\ UNCHANGED <<board, pref>>

\* Anyone offers an account that holds shares.
Promote(a) ==
  /\ shr[a] > 0
  /\ board' = Offer(shr, board, a)
  /\ UNCHANGED <<shr, pref>>

SetPreference(a, v) ==
  /\ v \in Min .. Max
  /\ a \in ConsensusMembers(shr, board)
  /\ pref' = [pref EXCEPT ![a] = v]
  /\ UNCHANGED <<shr, board>>

Next ==
  \/ \E a \in Accounts :
       \/ RegisterMint(a)
       \/ EndMint(a)
       \/ DrainExpiryList(a)
       \/ Promote(a)
  \/ \E a \in Voters, v \in Values : SetPreference(a, v)

(***************************************************************************)
(* An account that deserves a seat has an interest in being offered one,   *)
(* and anybody may do it; holders are not made to do anything else.        *)
(***************************************************************************)
Fairness == \A a \in Accounts : WF_vars(Promote(a))

Spec == Init /\ [][Next]_vars /\ Fairness

-----------------------------------------------------------------------------
\* The group a scan of every holder would find.
DeservingGroup == Best(shr, Accounts)

(* Shares, seats and preferences have their types; nobody holds two seats  *)
(* (offer drops the old entry first) and the board never outgrows its size *)
(* (putBoard).                                                             *)
TypeOK ==
  /\ shr \in [Accounts -> 0 .. MaxShares]
  /\ board \in Seq(Accounts)
  /\ Len(board) <= BoardSize
  /\ Cardinality(Seats(board)) = Len(board)
  /\ pref \in [Accounts -> (Min .. Max) \union {NoPreference}]

(* An account the group wrongly leaves out is in it after one offer,       *)
(* however many dead seats the walk has left behind and wherever they are  *)
(* stored (weakestOnBoard).                                                *)
ExclusionIsFixable ==
  \A a \in DeservingGroup : a \in ConsensusMembers(shr, Offer(shr, board, a))

(* The board keeps its shape and never shuts out an account for good       *)
(* (offer).                                                                *)
BoardIsSound == TypeOK /\ ExclusionIsFixable

(* No single member moves the parameter beyond what the other members ask  *)
(* for, as long as three of them vote: an extreme vote neutralises itself  *)
(* (EffectiveParam).                                                       *)
OneVoteIsBounded ==
  LET voting == Votes(shr, board, pref)
      value  == EffectiveValue(pref, voting)
  IN  Cardinality(voting) >= 3 =>
        \A a \in voting :
          \E lo, hi \in voting \ {a} : pref[lo] <= value /\ value <= pref[hi]

(* Nobody is shut out of the group, and nobody rules it alone (offer,       *)
(* EffectiveParam).                                                         *)
NoOneRulesAlone == BoardIsSound /\ OneVoteIsBounded

(* Once holdings rest, offers alone bring the group to the one a scan of   *)
(* all holders would find, dead seats or not: this is what replaces the    *)
(* scan the contract cannot afford (governance.go, THE LEADERBOARD         *)
(* PROBLEM).                                                               *)
OffersConverge ==
  <>[][UNCHANGED shr]_shr => <>[](ConsensusMembers(shr, board) = DeservingGroup)

(* "any observer with an interest can fix an exclusion in one transaction" *)
(* (governance.go:28-29): offering an excluded account costs no other      *)
(* deserving member its seat.                                              *)
FixExcludesNobody ==
  \A a \in DeservingGroup :
    (ConsensusMembers(shr, board) \intersect DeservingGroup)
       \subseteq ConsensusMembers(shr, Offer(shr, board, a))
=============================================================================
