----------------------------- MODULE MagiNodes ------------------------------
(***************************************************************************)
(* Which MAGI node answers (magi-nodes.ts): every read of the site goes    *)
(* through magiFetch, which tries the public nodes in turn, starting with  *)
(* one preferred node that all requests in flight share and any of them    *)
(* moves; a probe (pickFastestNode) moves it too.  Between any two         *)
(* attempts of a request, nodes fail and recover and other requests end.   *)
(*                                                                         *)
(* A node is up, refuses (answers with a gateway error, a rate limit or    *)
(* state it has not fetched yet) or is silent (no connection, or no answer *)
(* in time).  This module has the parts; what is asked, and what is done   *)
(* with the answer, is the caller's (ChainStore).  A configured private    *)
(* node is tried alone and remembered by nobody: it is left out.           *)
(***************************************************************************)
EXTENDS Naturals, FiniteSets

CONSTANTS
  NodeCount,      \* MAGI_NODES.length
  Remembered,     \* the node this browser remembers
  Askers,         \* who may have a request in flight
  MaxOutages,     \* BOUND on failures of nodes
  MaxProbes       \* BOUND on probes

ASSUME MagiNodesAssumption ==
  NodeCount \in Nat \ {0} /\ Remembered \in 0 .. (NodeCount - 1)

Nodes == 0 .. (NodeCount - 1)

VARIABLES
  preferred,      \* the node tried first, an index into MAGI_NODES
  health,         \* the nodes: "up", "refusing" or "silent"
  asked,          \* the request each asker has in flight
  probe,          \* the probe in flight
  outages, probes

nodeVars == <<preferred, health, asked, probe, outages, probes>>

NoRequest == [first |-> NodeCount, k |-> 0, failed |-> {}]
NoProbe == [running |-> FALSE, answers |-> {}, failed |-> {}]

NothingAsked == [a \in Askers |-> NoRequest]

Failing == {n \in Nodes : health[n] # "up"}

-----------------------------------------------------------------------------
(* magiFetch *)

\* A request as it begins.  The order of nodes is fixed by the node preferred
\* then.  `failed` is what the request does not know: the nodes that were
\* failing at some time since it began.
Ask(start) == [first |-> start, k |-> 0, failed |-> Failing]

InFlight(a) == asked[a] # NoRequest

\* Mutant of NodeAt: the order is that of the preferred node of the moment.
NodeAtLive(q) == (preferred + q.k) % NodeCount

\* The node a request is waiting for.
NodeAt(q) == (q.first + q.k) % NodeCount

IsLast(q) == q.k = NodeCount - 1

\* What the attempt comes to.  The last node's refusal is handed to the caller.
Outcome(q) ==
  CASE health[NodeAt(q)] = "up" -> "answered"
    [] ~IsLast(q) /\ health[NodeAt(q)] # "up" -> "next"
    [] IsLast(q) /\ health[NodeAt(q)] = "refusing" -> "refused"
    [] IsLast(q) /\ health[NodeAt(q)] = "silent" -> "unreachable"

\* Mutant of PreferredAfter: only a probe or a failure of all moves the preferred node.
PreferredKept(q) == IF Outcome(q) = "unreachable" THEN (preferred + 1) % NodeCount ELSE preferred

\* The node that answered is remembered; after none did, the next one is.
PreferredAfter(q) ==
  CASE Outcome(q) \in {"answered", "refused"} -> NodeAt(q)
    [] Outcome(q) = "unreachable" -> (preferred + 1) % NodeCount
    [] Outcome(q) = "next" -> preferred

\* The attempt fails and the request turns to the next node.
NextNode(a) ==
  /\ InFlight(a)
  /\ Outcome(asked[a]) = "next"
  /\ asked' = [asked EXCEPT ![a].k = @ + 1]
  /\ UNCHANGED <<preferred, health, probe, outages, probes>>

-----------------------------------------------------------------------------
(* pickFastestNode *)

\* Every node is asked three times and has to answer each time; a node that has not
\* fetched its state yet answers the probe.  `answers` is which nodes may have answered
\* since the probe began, `failed` which were failing at some time.
StartProbe ==
  /\ ~probe.running
  /\ probes < MaxProbes
  /\ probe' = [running |-> TRUE,
                  answers |-> {n \in Nodes : health[n] # "silent"},
                  failed |-> Failing]
  /\ probes' = probes + 1
  /\ UNCHANGED <<preferred, health, asked, outages>>

\* One of the nodes that answered was the fastest, or none answered.
FinishProbe ==
  /\ probe.running
  /\ \/ preferred' \in probe.answers
     \/ probe.failed = Nodes /\ UNCHANGED preferred
  /\ probe' = NoProbe
  /\ UNCHANGED <<health, asked, outages, probes>>

-----------------------------------------------------------------------------
(* The nodes *)

Outage(n, how) ==
  /\ health[n] = "up"
  /\ outages < MaxOutages
  /\ health' = [health EXCEPT ![n] = how]
  /\ asked' = [a \in Askers |-> IF InFlight(a)
                                 THEN [asked[a] EXCEPT !.failed = @ \cup {n}]
                                 ELSE NoRequest]
  /\ probe' = IF probe.running THEN [probe EXCEPT !.failed = @ \cup {n}] ELSE NoProbe
  /\ outages' = outages + 1
  /\ UNCHANGED <<preferred, probes>>

Recover(n) ==
  /\ health[n] # "up"
  /\ health' = [health EXCEPT ![n] = "up"]
  /\ probe' = IF probe.running THEN [probe EXCEPT !.answers = @ \cup {n}] ELSE NoProbe
  /\ UNCHANGED <<preferred, asked, outages, probes>>

NodesInit ==
  /\ preferred = Remembered
  /\ health = [n \in Nodes |-> "up"]
  /\ probe = NoProbe
  /\ outages = 0
  /\ probes = 0

\* What happens to requests, probes and nodes before an answer arrives.
NodesStep ==
  \/ \E a \in Askers : NextNode(a)
  \/ StartProbe
  \/ FinishProbe
  \/ \E n \in Nodes : Recover(n)
  \/ \E n \in Nodes, how \in {"refusing", "silent"} : Outage(n, how)

-----------------------------------------------------------------------------
(* A request gives up only if every node was failing at some time while it *)
(* ran, wherever other requests and probes moved the preferred node        *)
(* meanwhile (magiFetch).                                                  *)
EveryNodeIsTried ==
  \A a \in Askers :
    InFlight(a) /\ Outcome(asked[a]) \in {"refused", "unreachable"}
      => asked[a].failed = Nodes
=============================================================================
