-------------------------- MODULE TransactionIndex --------------------------
(***************************************************************************)
(* The transaction index: requests that find it stale copy the contract's  *)
(* log from a node into a database, page by page and newest first, while   *)
(* transactions keep arriving.  One action is one await: what happens      *)
(* between two awaits of a request cannot be interrupted, everything else  *)
(* can, by other requests, by arrivals and by a failure.                   *)
(*                                                                         *)
(* Transactions are numbered by age; an offset counts from the newest.     *)
(***************************************************************************)
EXTENDS Integers, FiniteSets

CONSTANTS
  Requests,      \* requests that may run at the same time
  Page,          \* INDEX_PAGE
  MaxPages,      \* maxPages
  History,       \* transactions older than the index
  MaxTx,         \* BOUND: transactions in all
  Burst,         \* BOUND: transactions newer than the newest one stored
  MaxFailures    \* BOUND: requests that end in an error

ASSUME TransactionIndexAssumption ==
  /\ Page \in Nat \ {0} /\ MaxPages \in Nat \ {0}
  /\ MaxTx \in Nat /\ History \in 0 .. MaxTx
  /\ Burst \in Nat /\ MaxFailures \in Nat

VARIABLES
  log,         \* the chain: the status of each transaction
  rows,        \* table tx: the status stored with each transaction
  meta,        \* table meta; synced says that synced_at is recent
  request,     \* the progress of each request
  misses

vars == <<log, rows, meta, request, misses>>

Tx == 1 .. MaxTx

Status == {"pending", "settled"}

Pages == UNION {[S -> Status] : S \in SUBSET Tx}

Newest(S) == IF S = {} THEN 0 ELSE CHOOSE t \in S : \A u \in S : u <= t

Stored == DOMAIN rows

Idle == [pc |-> "idle", loop |-> "head", backfilled |-> FALSE, offset |-> 0,
         pages |-> 0, page |-> <<>>, fresh |-> {}, reachedEnd |-> FALSE]

Steps == {"idle", "claim", "begin", "fetch", "known", "upsert", "resume", "save", "finish"}

-----------------------------------------------------------------------------
(* The chain.                                                              *)

\* The transactions at an offset, newest first, at most a page of them.
FetchTxPage(offset) ==
  LET n == Cardinality(DOMAIN log)
  IN  [t \in {u \in DOMAIN log : n - offset - Page < u /\ u <= n - offset} |-> log[t]]

\* "pending ones are always among the newest": the first page holds them all.
Arrive ==
  LET n == Cardinality(DOMAIN log)
  IN  /\ n < MaxTx
      /\ n - Newest(Stored) < Burst \/ Stored = {}
      /\ n >= Page => log[n + 1 - Page] = "settled"
      /\ log' = [t \in 1 .. n + 1 |-> IF t <= n THEN log[t] ELSE "pending"]
      /\ UNCHANGED <<rows, meta, request, misses>>

SettleTx(t) ==
  /\ log[t] = "pending"
  /\ log' = [log EXCEPT ![t] = "settled"]
  /\ UNCHANGED <<rows, meta, request, misses>>

-----------------------------------------------------------------------------
(* A request.                                                              *)

Init ==
  /\ log = [t \in 1 .. History |-> "settled"]
  /\ rows = <<>>
  /\ meta = [synced |-> FALSE, backfill_offset |-> 0, backfill_done |-> FALSE]
  /\ request = [r \in Requests |-> Idle]
  /\ misses = 0

At(r, pc) == request[r].pc = pc

Goto(r, pc) == request' = [request EXCEPT ![r].pc = pc]

\* synced_at is more than SYNC_EVERY_MS ago.
SlotExpires ==
  /\ meta.synced
  /\ meta' = [meta EXCEPT !.synced = FALSE]
  /\ UNCHANGED <<log, rows, request, misses>>

\* A request that finds the index fresh only reads it.
SyncIfStale(r) ==
  /\ At(r, "idle")
  /\ ~ meta.synced
  /\ Goto(r, "claim")
  /\ UNCHANGED <<log, rows, meta, misses>>

\* Setting synced_at is a later await than reading it.
ClaimSlot(r) ==
  /\ At(r, "claim")
  /\ meta' = [meta EXCEPT !.synced = TRUE]
  /\ Goto(r, "begin")
  /\ UNCHANGED <<log, rows, misses>>

Begin(r) ==
  /\ At(r, "begin")
  /\ request' = [request EXCEPT ![r] = [Idle EXCEPT !.pc = "fetch",
                                                    !.backfilled = meta.backfill_done]]
  /\ UNCHANGED <<log, rows, meta, misses>>

FetchPage(r) ==
  /\ At(r, "fetch")
  /\ request' = [request EXCEPT ![r].pc = "known", ![r].pages = @ + 1,
                                ![r].page = FetchTxPage(request[r].offset)]
  /\ UNCHANGED <<log, rows, meta, misses>>

Known(r) ==
  /\ At(r, "known")
  /\ request' = [request EXCEPT ![r].pc = "upsert",
                                ![r].fresh = DOMAIN request[r].page \ Stored]
  /\ UNCHANGED <<log, rows, meta, misses>>

\* The rows a page writes: all of the first page, else those it found new.
Written(q) ==
  IF q.loop = "head" /\ q.offset = 0 THEN DOMAIN q.page ELSE q.fresh

MayFetchMore(q) == q.pages < MaxPages

(***************************************************************************)
(* What follows a stored page: the end of history, for the head also a     *)
(* known row, the page limit, or the next page.                            *)
(***************************************************************************)
AfterPage(q) ==
  LET short  == Cardinality(DOMAIN q.page) < Page
      stop   == short \/ (q.loop = "head" /\ q.fresh # DOMAIN q.page)
      next   == [q EXCEPT !.offset = IF stop THEN @ ELSE @ + Page,
                          !.reachedEnd = short, !.page = <<>>, !.fresh = {}]
      onward == IF ~ stop /\ MayFetchMore(q) THEN "fetch"
                ELSE IF q.loop = "back"       THEN "save"
                ELSE IF q.backfilled          THEN "idle"
                ELSE IF short                 THEN "finish"
                ELSE                               "resume"
  IN  IF onward = "idle" THEN Idle ELSE [next EXCEPT !.pc = onward]

Upsert(r) ==
  LET q       == request[r]
      written == Written(q)
  IN  /\ At(r, "upsert")
      /\ rows' = [t \in Stored \union written |-> IF t \in written THEN q.page[t] ELSE rows[t]]
      /\ request' = [request EXCEPT ![r] = AfterPage(q)]
      /\ UNCHANGED <<log, meta, misses>>

\* Mutant: the stored offset is forgotten.
ResumeAtForgotten(q) == q.offset

\* The offset the backfill goes on from.
ResumeAt(q) == IF meta.backfill_offset < q.offset THEN q.offset ELSE meta.backfill_offset

Resume(r) ==
  /\ At(r, "resume")
  /\ request' = [request EXCEPT
                   ![r].pc = IF MayFetchMore(request[r]) THEN "fetch" ELSE "save",
                   ![r].loop = "back",
                   ![r].offset = ResumeAt(request[r])]
  /\ UNCHANGED <<log, rows, meta, misses>>

\* Mutant: every backfill that ends is taken for a finished one.
AfterSaveAlways(q) == [q EXCEPT !.pc = "finish"]

AfterSave(q) == IF q.reachedEnd THEN [q EXCEPT !.pc = "finish"] ELSE Idle

SaveOffset(r) ==
  /\ At(r, "save")
  /\ meta' = [meta EXCEPT !.backfill_offset = request[r].offset]
  /\ request' = [request EXCEPT ![r] = AfterSave(request[r])]
  /\ UNCHANGED <<log, rows, misses>>

Finish(r) ==
  /\ At(r, "finish")
  /\ meta' = [meta EXCEPT !.backfill_done = TRUE]
  /\ request' = [request EXCEPT ![r] = Idle]
  /\ UNCHANGED <<log, rows, misses>>

\* No node answers, or the request is cut off, at any await.
Fail(r) ==
  /\ ~ At(r, "idle")
  /\ misses < MaxFailures
  /\ misses' = misses + 1
  /\ request' = [request EXCEPT ![r] = Idle]
  /\ UNCHANGED <<log, rows, meta>>

Sync(r) ==
  \/ ClaimSlot(r)
  \/ Begin(r)
  \/ FetchPage(r)
  \/ Known(r)
  \/ Upsert(r)
  \/ Resume(r)
  \/ SaveOffset(r)
  \/ Finish(r)

Next ==
  \/ Arrive
  \/ \E t \in DOMAIN log : SettleTx(t)
  \/ SlotExpires
  \/ \E r \in Requests : SyncIfStale(r) \/ Sync(r) \/ Fail(r)

(***************************************************************************)
(* Readers come back, time passes, and the runtime resumes every await.    *)
(***************************************************************************)
Fairness ==
  /\ WF_vars(SlotExpires)
  /\ WF_vars(\E r \in Requests : SyncIfStale(r))
  /\ \A r \in Requests : WF_vars(Sync(r))

Spec == Init /\ [][Next]_vars /\ Fairness

-----------------------------------------------------------------------------
(* The shape of the state; no sync reads more than maxPages pages.         *)
TypeOK ==
  /\ log \in UNION {[1 .. n -> Status] : n \in 0 .. MaxTx}
  /\ rows \in Pages
  /\ meta.backfill_offset \in Nat /\ meta.backfill_done \in BOOLEAN /\ meta.synced \in BOOLEAN
  /\ \A r \in Requests :
       /\ request[r].pc \in Steps /\ request[r].loop \in {"head", "back"}
       /\ request[r].offset \in Nat /\ request[r].pages \in 0 .. MaxPages
       /\ request[r].page \in Pages /\ request[r].fresh \subseteq DOMAIN request[r].page
  /\ misses \in 0 .. MaxFailures

(* When a burst of arrivals fits a page, an index that vouches for the     *)
(* whole history holds every transaction older than one it holds, at every *)
(* moment, also between two pages of overlapping or failed syncs.          *)
KnownRowMeansOlderKnown ==
  meta.backfill_done => \A t \in Stored : 1 .. t \subseteq Stored

(* No sync leaves its bounds or a gap behind it (syncIndex).               *)
IndexIsSound == TypeOK /\ KnownRowMeansOlderKnown

(* "A known row means everything older is known too: the head block is     *)
(* contiguous" (indexer.ts:85): when nobody syncs, an index that vouches   *)
(* for the whole history has no gap.                                       *)
HeadBlockIsContiguous ==
  (meta.backfill_done /\ \A r \in Requests : At(r, "idle")) =>
    \A t \in Stored : 1 .. t \subseteq Stored

(* The index comes to hold the whole log, whatever overlapped or failed,   *)
(* when a burst of arrivals fits a page (syncIndex, head and backfill).    *)
IndexCatchesUp == <>[](DOMAIN log = Stored)

(* The first page is rewritten though it is known, so the newest rows come *)
(* to show the status the chain has (syncIndex).                           *)
FirstPageSettles ==
  <>[](\A t \in DOMAIN FetchTxPage(0) : t \in Stored /\ rows[t] = log[t])

(* The index ends up holding the log, and showing what the chain shows      *)
(* (syncIndex).                                                             *)
IndexSettles == IndexCatchesUp /\ FirstPageSettles

(* "a pending status is corrected once it settles" (indexer.test.ts), as   *)
(* the header of indexer.ts promises for every stored transaction.         *)
PendingIsCorrected ==
  \A t \in Tx :
    (t \in Stored /\ log[t] = "settled") ~> (t \in Stored /\ rows[t] = "settled")
=============================================================================
