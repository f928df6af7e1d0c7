----------------------------- MODULE ChainStore -----------------------------
(***************************************************************************)
(* The store all pages of the site share (chain.svelte.ts): who is signed  *)
(* in, and the last view of that account.  It is refreshed by a poll, by   *)
(* signing in and again and again by every press, and refreshes overlap:   *)
(* each reads the chain and then the account, through the nodes of         *)
(* MagiNodes, and writes what it gets when it gets it.                     *)
(*                                                                         *)
(* What the nodes show is a number of transactions; one query stands for   *)
(* the several of client.chain, and of accountOf.  How a press is signed   *)
(* and followed is in Signer: here it is one more caller of refresh.  The  *)
(* resource meter, read beside the account and advisory, is left out.      *)
(***************************************************************************)
EXTENDS MagiNodes

CONSTANTS
  Accounts,
  Restored,       \* whose session is restored when the page starts
  Callers,        \* BOUND on how many refreshes of the poll and of presses overlap
  MaxSignIns,     \* BOUND on signing in
  MaxLanded       \* BOUND on transactions

\* Signing in refreshes by itself.
ASSUME ChainStoreAssumption == "visit" \notin Callers /\ Askers = Callers \cup {"visit"}

Nobody == "nobody"
NoView == [of |-> Nobody, at |-> 0]

VARIABLES
  account,        \* who is signed in
  me,             \* the view of an account: whose, and of what state
  loaded,         \* info has been read once
  failures,       \* refreshes that failed in a row, 2 for more; error is set iff it is not 0
  refresh,        \* what each asker is reading
  shown,          \* how many transactions of the accounts the nodes show
  signIns

storeVars == <<account, me, loaded, failures, refresh, shown, signIns>>
siteVars == <<nodeVars, storeVars>>

envVars == <<health, probe, outages, probes>>

\* outage: "Chain unreachable" is shown.
OutageShown == failures > 0 /\ (~loaded \/ failures = 2)

-----------------------------------------------------------------------------
(* Reading *)

Off == [stage |-> "off", of |-> Nobody, since |-> 0]

\* Asker a sends a query for `reading`.
Send(a, reading, start) ==
  /\ asked' = [asked EXCEPT ![a] = Ask(start)]
  /\ refresh' = [refresh EXCEPT ![a] = reading]

\* refresh begins with the chain's position.
StartRefresh(a) ==
  /\ refresh[a] = Off
  /\ Send(a, [Off EXCEPT !.stage = "chain"], preferred)

\* The account is asked for by name, and answered with a state no older than
\* what the nodes show by then.
OfAccount == [stage |-> "account", of |-> account, since |-> shown]

\* The answer to asker a's query is in: `result` is what the query came to.
Answers(a, stage, result) ==
  /\ refresh[a].stage = stage
  /\ InFlight(a)
  /\ Outcome(asked[a]) \in result
  /\ preferred' = PreferredAfter(asked[a])

OK == {"answered"}
Failed == {"refused", "unreachable"}

\* The chain's position is in; with somebody signed in the account is read next.
ReadChain(a) ==
  /\ Answers(a, "chain", OK)
  /\ account # Nobody
  /\ Send(a, OfAccount, preferred')
  /\ loaded' = TRUE
  /\ UNCHANGED <<me, failures>>

\* The refresh of asker a is over: with nobody signed in, with the view of the
\* account that was signed in when it was asked for, or with an error.
RefreshEnds(a) ==
  /\ \/ /\ Answers(a, "chain", OK)
        /\ account = Nobody
        /\ loaded' = TRUE
        /\ failures' = 0
        /\ UNCHANGED me
     \/ /\ Answers(a, "account", OK)
        /\ \E n \in refresh[a].since .. shown : me' = [of |-> refresh[a].of, at |-> n]
        /\ failures' = 0
        /\ UNCHANGED loaded
     \/ /\ \E stage \in {"chain", "account"} : Answers(a, stage, Failed)
        /\ failures' = IF failures = 0 THEN 1 ELSE 2
        /\ UNCHANGED <<me, loaded>>
  /\ asked' = [asked EXCEPT ![a] = NoRequest]
  /\ refresh' = [refresh EXCEPT ![a] = Off]

-----------------------------------------------------------------------------
(* The callers *)

\* The page's poll while it is looked at, its start, or a press.
Refresh(a) ==
  /\ StartRefresh(a)
  /\ UNCHANGED <<preferred, envVars, account, me, loaded, failures, shown, signIns>>

Continue(a) ==
  /\ \/ ReadChain(a)
     \/ RefreshEnds(a)
  /\ UNCHANGED <<envVars, account, shown, signIns>>

\* The wallet has confirmed who signs, and the store is refreshed.
SignInWithWallet(who) ==
  /\ account = Nobody
  /\ signIns < MaxSignIns
  /\ account' = who
  /\ StartRefresh("visit")
  /\ signIns' = signIns + 1
  /\ UNCHANGED <<preferred, envVars, me, loaded, failures, shown>>

SignOut ==
  /\ account # Nobody
  /\ account' = Nobody
  /\ me' = NoView
  /\ UNCHANGED <<nodeVars, loaded, failures, refresh, shown, signIns>>

-----------------------------------------------------------------------------
(* The chain *)

Land ==
  /\ shown < MaxLanded
  /\ shown' = shown + 1
  /\ UNCHANGED <<nodeVars, account, me, loaded, failures, refresh, signIns>>

-----------------------------------------------------------------------------
\* The page has read the chain, or tried twice, and restored a session, which
\* refreshes.
SiteInit ==
  /\ NodesInit
  /\ asked = [NothingAsked EXCEPT !["visit"] = Ask(Remembered)]
  /\ account = Restored
  /\ me = NoView
  /\ \/ loaded = TRUE  /\ failures = 0
     \/ loaded = FALSE /\ failures = 2
  /\ refresh = [[a \in Askers |-> Off] EXCEPT !["visit"].stage = "chain"]
  /\ shown = 0
  /\ signIns = 0

SiteNext ==
  \/ NodesStep /\ UNCHANGED storeVars
  \/ \E a \in Callers : Refresh(a)
  \/ \E a \in Askers : Continue(a)
  \/ \E who \in Accounts : SignInWithWallet(who)
  \/ SignOut
  \/ Land

\* Requests and probes end, by an answer or a timeout; the page polls while it
\* is looked at, and what has landed gets indexed.  Nobody owes the page a node
\* that recovers or somebody who signs in.
SiteFairness ==
  /\ \A a \in Callers : WF_siteVars(Refresh(a))
  /\ \A a \in Askers : WF_siteVars(NextNode(a) /\ UNCHANGED storeVars) /\ WF_siteVars(Continue(a))
  /\ WF_siteVars(FinishProbe /\ UNCHANGED storeVars)

SiteSpec == SiteInit /\ [][SiteNext]_siteVars /\ SiteFairness

-----------------------------------------------------------------------------
NodeAnswers == \E n \in Nodes : health[n] = "up"

AtRest ==
  /\ health[preferred] = "up"
  /\ ~OutageShown
  /\ account # Nobody => me = [of |-> account, at |-> shown]

(* As long as one node keeps answering, the page comes to rest on a node   *)
(* that answers, with no outage shown and the signed-in account as it is,  *)
(* whatever failed, was measured or was answered late before               *)
(* (magi-nodes.ts, chain.svelte.ts).                                       *)
PageRecovers == <>[]NodeAnswers => <>[]AtRest

(* "The signed-in account's full view" (chain.svelte.ts): what is shown is *)
(* a view of who is signed in.                                             *)
ViewIsTheSignedIn == me # NoView => me.of = account
=============================================================================
