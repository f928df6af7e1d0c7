--------------------------- MODULE MCProofOfBrain ---------------------------
(***************************************************************************)
(* Two posts that alice publishes as deep, unless a first vote opens them  *)
(* as viral.  The capital of alice retires after a day, that of bob a day  *)
(* later, so votes meet a filled pool too; a full vote takes all the power *)
(* of a window.                                                            *)
(***************************************************************************)
EXTENDS FeedScreen

MCCasts == [a \in Accounts |-> IF a = "alice" THEN {50} ELSE Weights]
MCAuthorOf == [p \in Posts |-> "alice"]
MCWindowOf == [p \in Posts |-> "deep"]
MCModeOf == [p \in Posts |-> IF p = "q" THEN "burn" ELSE "default"]
MCPayoutDays == [w \in Windows |-> IF w = "viral" THEN 1 ELSE 2]
MCDayEmission == [w \in Windows |-> IF w = "viral" THEN 4 ELSE 6]
MCStake == [a \in Accounts |-> IF a = "alice" THEN 4 ELSE 8]
MCStakeEnds == [a \in Accounts |-> IF a = "alice" THEN 1 ELSE 2]

\* Two transactions of up to two calls about two posts.
MCLogs ==
  LET calls == [action : {"post", "vote", "comment"}, key : 1 .. 2]
      txs   == [ok : BOOLEAN,
                calls : {<<c>> : c \in calls} \cup {<<c, [action |-> "vote", key |-> 2]>> : c \in calls}]
  IN  UNION {[1 .. n -> txs] : n \in 1 .. 2}

MCCard(win, earns, pending, promoted, created) ==
  [win |-> win, registered |-> earns # "tagged", paid |-> earns = "paid" \/ earns = "older",
   payable |-> earns = "closed", pending |-> pending, promoted |-> promoted,
   closedFor |-> IF earns = "older" THEN OlderAfterDays ELSE 0, created |-> created]

MCCards == {
  MCCard("viral", "tagged", 0, 0, 3), MCCard("viral", "open", 2, 0, 2), MCCard("viral", "open", 1, 1, 1),
  MCCard("deep", "open", 3, 0, 1), MCCard("deep", "open", 0, 2, 2), MCCard("deep", "closed", 3, 2, 1),
  MCCard("viral", "paid", 0, 1, 2), MCCard("viral", "older", 0, 0, 1)}
=============================================================================
