---------------------------- MODULE Client_proofs ----------------------------
(***************************************************************************)
(* Theorems about the client's side, for every value of the constants.     *)
(*                                                                         *)
(* In three parts: the transaction index never hides a row (IndexSound);   *)
(* no node is skipped when a request fails over (NodesTried); and a press  *)
(* is signed for what the account can pay (WalletInv).                     *)
(***************************************************************************)
EXTENDS TransactionIndex, ChainStore, Signer, Engine_proofs, SequenceTheorems

-----------------------------------------------------------------------------
(* The transaction index.                                                  *)

Length == Cardinality(DOMAIN log)

\* Every transaction above `low' and not above the newest row is stored.
HoldsAbove(low) == \A t \in Tx : low < t /\ t <= Newest(Stored) => t \in Stored

\* The first page reaches the newest row.
InSight == Stored # {} /\ Length <= Newest(Stored) + Page

Syncing(q) == q.pc \in {"fetch", "known", "upsert", "resume", "save"}

Loaded(q) == q.pc \in {"known", "upsert"}

\* The page at an offset of a log of m transactions.
PageOf(offset, m) == {t \in Tx : m - offset - Page < t /\ t <= m - offset}

(***************************************************************************)
(* A page in hand was cut from a log of m transactions.  From the second   *)
(* page on everything above it is stored.  The first page may be out of    *)
(* date; then what is above the first page of the present log is stored.   *)
(***************************************************************************)
PageHolds(q, m) ==
  /\ DOMAIN q.page = PageOf(q.offset, m)
  /\ IF q.offset = 0 THEN HoldsAbove(m) \/ HoldsAbove(Length - Page)
     ELSE HoldsAbove(m - q.offset)
  /\ q.offset # 0 /\ ~ InSight => m = Length

(***************************************************************************)
(* Before a request goes on at an offset, everything newer is stored; and  *)
(* while the first page does not reach the newest row, nobody is beyond    *)
(* the second page.                                                        *)
(***************************************************************************)
OffsetHolds(offset) ==
  /\ HoldsAbove(Length - offset)
  /\ ~ InSight => offset \in {0, Page}
  /\ Stored = {} => offset = 0

RequestInv(q) ==
  /\ q.pc = "fetch" => q.pages < MaxPages
  /\ ~ Loaded(q) => q.fresh = {}
  /\ q.reachedEnd => q.pc \in {"save", "finish"}
  /\ Syncing(q) => OffsetHolds(q.offset)
  /\ Loaded(q) => \E m \in Page .. Length : PageHolds(q, m)
  /\ q.pc = "upsert" => DOMAIN q.page \ q.fresh \subseteq Stored
  /\ q.pc = "finish" \/ q.reachedEnd => InSight /\ HoldsAbove(0)

MetaInv(m) ==
  /\ OffsetHolds(m.backfill_offset)
  /\ m.backfill_done => InSight /\ HoldsAbove(0)

RequestType ==
  [pc : Steps, loop : {"head", "back"}, backfilled : BOOLEAN, offset : Nat,
   pages : 0 .. MaxPages, page : Pages, fresh : SUBSET Tx, reachedEnd : BOOLEAN]

MetaType == [synced : BOOLEAN, backfill_offset : Nat, backfill_done : BOOLEAN]

IndexType ==
  /\ \E n \in 0 .. MaxTx : log \in [1 .. n -> Status]
  /\ rows \in Pages
  /\ meta \in MetaType
  /\ request \in [Requests -> RequestType]
  /\ \A r \in Requests : request[r].fresh \subseteq DOMAIN request[r].page
  /\ misses \in 0 .. MaxFailures

IndexInv ==
  /\ IndexType
  /\ Stored \subseteq DOMAIN log /\ Page <= Length
  /\ MetaInv(meta)
  /\ \A r \in Requests : RequestInv(request[r])

-----------------------------------------------------------------------------
LEMMA NewestIs ==
  ASSUME NEW S, S \subseteq Tx
  PROVE  /\ Newest(S) \in Nat
         /\ S = {} => Newest(S) = 0
         /\ S # {} => Newest(S) \in S
         /\ \A t \in S : t <= Newest(S)
<1>1. CASE S = {}
  BY <1>1 DEF Newest
<1>2. CASE S # {}
  <2> DEFINE T == {MaxTx - t : t \in S}
  <2>1. MaxTx \in Nat /\ S \subseteq 1 .. MaxTx
    BY TransactionIndexAssumption DEF Tx
  <2>2. T \subseteq Nat /\ T # {}
    <3>1. ASSUME NEW t \in S PROVE MaxTx - t \in Nat
      BY <2>1
    <3>2. PICK t \in S : TRUE
      BY <1>2
    <3>3. MaxTx - t \in T
      BY <3>2
    <3> QED BY <3>1, <3>3
  <2>3. PICK j \in T : \A k \in T : j <= k
    BY <2>2, LeastExists
  <2>4. PICK t \in S : j = MaxTx - t
    BY <2>3
  <2>5. \A u \in S : u <= t
    <3> TAKE u \in S
    <3>1. j <= MaxTx - u
      BY <2>3
    <3> QED BY <3>1, <2>4, <2>1
  <2>6. Newest(S) \in S /\ \A u \in S : u <= Newest(S)
    BY <1>2, <2>5 DEF Newest
  <2>7. Newest(S) \in Nat
    <3>1. \A u \in S : u \in Nat
      BY <2>1
    <3> QED BY <2>6, <3>1, Zenon
  <2> QED BY <1>2, <2>6, <2>7
<1> QED BY <1>1, <1>2

LEMMA LengthIs ==
  ASSUME IndexType
  PROVE  Length \in 0 .. MaxTx /\ DOMAIN log = 1 .. Length /\ log \in [1 .. Length -> Status]
<1>1. PICK n \in 0 .. MaxTx : log \in [1 .. n -> Status]
  BY DEF IndexType
<1>2. n \in Nat /\ MaxTx \in Nat
  BY TransactionIndexAssumption
<1>3. Cardinality(1 .. n) = n
  BY <1>2, FS_Interval
<1> QED BY <1>1, <1>2, <1>3 DEF Length

LEMMA PagesAre ==
  ASSUME NEW p
  PROVE  p \in Pages <=> DOMAIN p \subseteq Tx /\ p \in [DOMAIN p -> Status]
<1>1. ASSUME p \in Pages PROVE DOMAIN p \subseteq Tx /\ p \in [DOMAIN p -> Status]
  <2>1. PICK S \in SUBSET Tx : p \in [S -> Status]
    BY <1>1 DEF Pages
  <2> QED BY <2>1
<1>2. ASSUME DOMAIN p \subseteq Tx, p \in [DOMAIN p -> Status] PROVE p \in Pages
  BY <1>2 DEF Pages
<1> QED BY <1>1, <1>2

LEMMA NoPage == <<>> \in Pages /\ DOMAIN <<>> = {}
<1>1. DOMAIN <<>> = {}
  OBVIOUS
<1>2. <<>> \in [{} -> Status]
  OBVIOUS
<1> QED BY <1>1, <1>2 DEF Pages

\* A page has fewer rows than a page holds exactly at the end of history.
LEMMA PageCounts ==
  ASSUME NEW x \in Int, x <= MaxTx, NEW D, D = {t \in Tx : x - Page < t /\ t <= x}
  PROVE  Cardinality(D) < Page <=> x < Page
<1>0. MaxTx \in Nat /\ Page \in Nat /\ Page # 0
  BY TransactionIndexAssumption
<1> DEFINE low == IF x < Page THEN 1 ELSE x - Page + 1
<1>1. D = low .. x
  BY <1>0 DEF Tx
<1>2. low \in Int
  BY <1>0
<1>3. Cardinality(low .. x) = IF low > x THEN 0 ELSE x - low + 1
  BY <1>2, FS_Interval
<1>4. Cardinality(D) = IF low > x THEN 0 ELSE x - low + 1
  <2> HIDE DEF low
  <2> QED BY <1>1, <1>3
<1> QED BY <1>0, <1>4

-----------------------------------------------------------------------------
\* What is stored, and how long the log is, decides all of it.
LEMMA SameRows ==
  ASSUME Stored' = Stored, DOMAIN log' = DOMAIN log
  PROVE  /\ \A q : RequestInv(q) => RequestInv(q)'
         /\ \A m : MetaInv(m) => MetaInv(m)'
<1>1. Length' = Length
  BY DEF Length
<1>2. InSight' = InSight
  BY <1>1, Zenon DEF InSight
<1>3. \A low : HoldsAbove(low)' = HoldsAbove(low)
  BY Zenon DEF HoldsAbove
<1>4. \A o : OffsetHolds(o)' = OffsetHolds(o)
  BY <1>1, <1>2, <1>3, Zenon DEF OffsetHolds
<1>5. \A q, m : PageHolds(q, m)' = PageHolds(q, m)
  BY <1>1, <1>2, <1>3, Zenon DEF PageHolds, PageOf
<1>6. ASSUME NEW q, RequestInv(q) PROVE RequestInv(q)'
  BY <1>1, <1>2, <1>3, <1>4, <1>5, <1>6, Zenon DEF RequestInv, Syncing, Loaded
<1>7. ASSUME NEW m, MetaInv(m) PROVE MetaInv(m)'
  BY <1>2, <1>3, <1>4, <1>7, Zenon DEF MetaInv
<1> QED BY <1>6, <1>7

\* One more transaction: a claim made from the newest on only gets weaker.
LEMMA LongerLog ==
  ASSUME IndexType, Stored' = Stored, Length' = Length + 1, InSight => InSight',
         Stored # {} => InSight'
  PROVE  /\ \A q \in RequestType : RequestInv(q) => RequestInv(q)'
         /\ \A m \in MetaType : MetaInv(m) => MetaInv(m)'
<1>0. Length \in Nat /\ Page \in Nat /\ Tx \subseteq Nat /\ Page # 0
  BY LengthIs, TransactionIndexAssumption DEF Tx
<1>1. \A low \in Int : HoldsAbove(low) => HoldsAbove(low + 1)'
  BY <1>0 DEF HoldsAbove
<1>2. \A low : HoldsAbove(low) => HoldsAbove(low)'
  BY Zenon DEF HoldsAbove
<1>3. ASSUME NEW o \in Nat, OffsetHolds(o) PROVE OffsetHolds(o)'
  <2>1. (Length - o) + 1 = Length' - o /\ Length - o \in Int
    BY <1>0
  <2>2. HoldsAbove(Length - o)'
    BY <1>1, <2>1, <1>3, Zenon DEF OffsetHolds
  <2>3. Stored' = {} => o = 0
    BY <1>3 DEF OffsetHolds
  <2>4. ~ InSight' => o \in {0, Page}
    BY <2>3
  <2> QED BY <2>2, <2>3, <2>4 DEF OffsetHolds
<1>4. ASSUME NEW q \in RequestType, NEW m \in Page .. Length, PageHolds(q, m), OffsetHolds(q.offset)
      PROVE  m \in (Page .. Length)' /\ PageHolds(q, m)'
  <2>1. m \in (Page .. Length)'
    BY <1>0
  <2>2. DOMAIN q.page = PageOf(q.offset, m)'
    BY <1>4 DEF PageHolds, PageOf
  <2>3. HoldsAbove(Length - Page) => HoldsAbove(Length - Page)'
    <3>1. (Length - Page) + 1 = Length' - Page /\ Length - Page \in Int
      BY <1>0
    <3> QED BY <3>1, <1>1, Zenon
  <2>4. IF q.offset = 0 THEN HoldsAbove(m)' \/ HoldsAbove(Length - Page)' ELSE HoldsAbove(m - q.offset)'
    BY <1>4, <1>2, <2>3, Zenon DEF PageHolds
  <2>5. q.offset # 0 => InSight'
    BY <1>4 DEF OffsetHolds
  <2> QED BY <2>1, <2>2, <2>4, <2>5, Zenon DEF PageHolds
<1>5. ASSUME NEW q \in RequestType, RequestInv(q) PROVE RequestInv(q)'
  <2>1. q.offset \in Nat
    BY DEF RequestType
  <2>2. Syncing(q) => OffsetHolds(q.offset)'
    BY <1>3, <1>5, <2>1 DEF RequestInv
  <2>3. Loaded(q) => \E m \in (Page .. Length)' : PageHolds(q, m)'
    <3>1. Loaded(q) => Syncing(q)
      BY DEF Loaded, Syncing
    <3> QED BY <3>1, <1>4, <1>5, Zenon DEF RequestInv
  <2>4. q.pc = "finish" \/ q.reachedEnd => InSight' /\ HoldsAbove(0)'
    BY <1>2, <1>5, Zenon DEF RequestInv
  <2> QED BY <2>2, <2>3, <2>4, <1>5, Zenon DEF RequestInv, Syncing, Loaded
<1>6. ASSUME NEW m \in MetaType, MetaInv(m) PROVE MetaInv(m)'
  <2>1. m.backfill_offset \in Nat
    BY DEF MetaType
  <2> QED BY <1>2, <1>3, <1>6, <2>1, Zenon DEF MetaInv
<1> QED BY <1>5, <1>6

(***************************************************************************)
(* A page is stored: whatever was said of the rows above a line stays true *)
(* unless a gap opens between the newest row and the page.                 *)
(***************************************************************************)
LEMMA RowsAbove ==
  ASSUME NEW x \in Int, NEW D, D = {t \in Tx : x - Page < t /\ t <= x}, Stored \subseteq Tx,
         Stored' = Stored \union D,
         NEW low \in Int, HoldsAbove(low), x - Page <= Newest(Stored) \/ x - Page <= low
  PROVE  HoldsAbove(low)'
<1>1. SUFFICES ASSUME NEW t \in Tx, low < t, t <= Newest(Stored') PROVE t \in Stored'
  BY Zenon DEF HoldsAbove
<1>2. Page \in Nat /\ t \in Nat
  BY TransactionIndexAssumption DEF Tx
<1>3. Newest(Stored) \in Nat
  BY NewestIs
<1>4. CASE t <= Newest(Stored)
  BY <1>1, <1>4 DEF HoldsAbove
<1>5. CASE ~ t <= Newest(Stored)
  <2>1. Stored' \subseteq Tx
    OBVIOUS
  <2>2. Newest(Stored') \in Nat /\ (Stored' # {} => Newest(Stored') \in Stored')
        /\ (Stored' = {} => Newest(Stored') = 0)
    BY <2>1, NewestIs
  <2>3. Newest(Stored') # 0
    BY <1>1, <1>2, <2>2, <1>3, <1>5
  <2>4. Newest(Stored') \in Stored'
    BY <2>2, <2>3
  <2>5. Newest(Stored') \notin Stored
    <3>1. Newest(Stored') > Newest(Stored)
      BY <1>1, <1>2, <1>3, <1>5, <2>2
    <3>2. \A u \in Stored : u <= Newest(Stored)
      BY NewestIs
    <3> QED BY <3>1, <3>2, <2>2, <1>3
  <2>6. Newest(Stored') <= x
    BY <2>4, <2>5
  <2>7. t <= x /\ x - Page < t
    BY <1>1, <1>2, <1>3, <1>5, <2>2, <2>6
  <2> QED BY <1>1, <2>7
<1> QED BY <1>4, <1>5

\* The line above which nothing can open: the first page, or anything once the
\* first page reaches the newest row.
Safe(low) == low \in Int /\ (InSight \/ Length - Page <= low)

LEMMA StoredPage ==
  ASSUME IndexType, Stored \subseteq DOMAIN log, Page <= Length,
         NEW o \in Nat, NEW m \in Page .. Length,
         o # 0 /\ ~ InSight => o = Page /\ m = Length,
         Stored = {} => o = 0,
         Stored' = Stored \union PageOf(o, m), Length' = Length
  PROVE  /\ \A low : Safe(low) /\ HoldsAbove(low) => HoldsAbove(low)'
         /\ Newest(Stored') \in Nat /\ Newest(Stored) \in Nat
         /\ Newest(Stored) <= Newest(Stored')
         /\ Stored' # {} /\ Stored' \subseteq Tx /\ Stored \subseteq Tx
         /\ InSight => InSight'
         /\ o # 0 => InSight'
<1> DEFINE x == m - o
           D == {t \in Tx : x - Page < t /\ t <= x}
<1>0. /\ Length \in 0 .. MaxTx /\ Page \in Nat /\ Page # 0 /\ Tx = 1 .. MaxTx
      /\ MaxTx \in Nat /\ DOMAIN log = 1 .. Length
  BY LengthIs, TransactionIndexAssumption DEF Tx
<1>1. Stored \subseteq Tx /\ Stored' \subseteq Tx
  BY <1>0 DEF PageOf
<1>2. D = PageOf(o, m)
  BY DEF PageOf
<1>3. /\ Newest(Stored) \in Nat /\ Newest(Stored') \in Nat
      /\ \A t \in Stored' : t <= Newest(Stored')
      /\ Stored # {} => Newest(Stored) \in Stored
      /\ Stored = {} => Newest(Stored) = 0
  BY <1>1, NewestIs
<1>4. Newest(Stored) <= Newest(Stored')
  BY <1>3
<1>5. Stored' # {}
  <2>1. CASE Stored # {}
    BY <2>1
  <2>2. CASE Stored = {}
    <3>1. m \in PageOf(o, m)
      BY <2>2, <1>0 DEF PageOf
    <3> QED BY <3>1
  <2> QED BY <2>1, <2>2
<1>6. InSight => InSight'
  BY <1>0, <1>3, <1>4, <1>5 DEF InSight
<1>7. ASSUME o # 0 PROVE InSight'
  <2>1. CASE InSight
    BY <1>6, <2>1
  <2>2. CASE ~ InSight
    <3>1. o = Page /\ m = Length /\ Stored # {}
      BY <1>7, <2>2
    <3>2. Length > Page
      BY <2>2, <3>1, <1>0, <1>3 DEF InSight
    <3>3. Length - Page \in PageOf(o, m)
      BY <3>1, <3>2, <1>0 DEF PageOf
    <3>4. Length - Page <= Newest(Stored')
      BY <1>3, <3>3
    <3> QED BY <3>4, <1>0, <1>3, <1>5 DEF InSight
  <2> QED BY <2>1, <2>2
<1>8. ASSUME NEW low, Safe(low), HoldsAbove(low) PROVE HoldsAbove(low)'
  <2>1. low \in Int /\ x \in Int
    BY <1>8, <1>0 DEF Safe
  <2>2. x - Page <= Newest(Stored) \/ x - Page <= low
    BY <1>0, <1>3, <1>8, <2>1 DEF Safe, InSight
  <2> HIDE DEF x
  <2>3. Stored' = Stored \union D
    BY <1>2
  <2> QED BY <1>1, <1>8, <2>1, <2>2, <2>3, RowsAbove
<1> QED BY <1>1, <1>3, <1>4, <1>5, <1>6, <1>7, <1>8

\* Other requests and the stored offset keep what they rely on.
LEMMA StoredPageOthers ==
  ASSUME IndexType, Page <= Length, Length' = Length,
         \A low : Safe(low) /\ HoldsAbove(low) => HoldsAbove(low)',
         InSight => InSight', Stored' # {}, Stored \subseteq Stored'
  PROVE  /\ \A q \in RequestType : RequestInv(q) => RequestInv(q)'
         /\ \A m \in MetaType : MetaInv(m) => MetaInv(m)'
<1>0. Length \in Nat /\ Page \in Nat /\ Page # 0
  BY LengthIs, TransactionIndexAssumption
<1>1. ASSUME NEW o \in Nat, OffsetHolds(o) PROVE OffsetHolds(o)'
  <2>1. Safe(Length - o)
    BY <1>0, <1>1 DEF Safe, OffsetHolds
  <2> QED BY <1>1, <2>1, Zenon DEF OffsetHolds
<1>2. InSight => Safe(0)
  BY DEF Safe
<1>3. ASSUME NEW q \in RequestType, NEW m \in Page .. Length, PageHolds(q, m), OffsetHolds(q.offset)
      PROVE  m \in (Page .. Length)' /\ PageHolds(q, m)'
  <2>0. q.offset \in Nat
    BY DEF RequestType
  <2>1. m \in (Page .. Length)'
    BY <1>0
  <2>2. DOMAIN q.page = PageOf(q.offset, m)'
    BY <1>3 DEF PageHolds, PageOf
  <2>3. Safe(Length - Page)
    BY <1>0 DEF Safe
  <2>4. CASE q.offset = 0
    <3>1. HoldsAbove(m) => HoldsAbove(m)' \/ HoldsAbove(Length - Page)'
      <4>1. CASE Safe(m)
        BY <4>1
      <4>2. CASE ~ Safe(m) /\ HoldsAbove(m)
        <5>1. m <= Length - Page
          BY <4>2, <1>0 DEF Safe
        <5>2. HoldsAbove(Length - Page)
          BY <4>2, <5>1, <1>0, TransactionIndexAssumption DEF HoldsAbove, Tx
        <5> QED BY <5>2, <2>3, Zenon
      <4> QED BY <4>1, <4>2
    <3> QED BY <3>1, <2>1, <2>2, <2>3, <2>4, <1>3, Zenon DEF PageHolds
  <2>5. CASE q.offset # 0
    <3>1. Safe(m - q.offset)
      BY <2>0, <2>5, <1>0, <1>3 DEF Safe, PageHolds, OffsetHolds
    <3>2. HoldsAbove(m - q.offset)'
      BY <3>1, <2>5, <1>3, Zenon DEF PageHolds
    <3>3. ~ InSight' => m = Length'
      BY <2>5, <1>3, Zenon DEF PageHolds
    <3> QED BY <3>2, <3>3, <2>1, <2>2, <2>5, Zenon DEF PageHolds
  <2> QED BY <2>4, <2>5
<1>4. ASSUME NEW q \in RequestType, RequestInv(q) PROVE RequestInv(q)'
  <2>1. q.offset \in Nat
    BY DEF RequestType
  <2>2. Syncing(q) => OffsetHolds(q.offset)'
    BY <1>1, <1>4, <2>1, Zenon DEF RequestInv
  <2>3. Loaded(q) => \E m \in (Page .. Length)' : PageHolds(q, m)'
    <3>1. Loaded(q) => Syncing(q)
      BY DEF Loaded, Syncing
    <3> QED BY <3>1, <1>3, <1>4, Zenon DEF RequestInv
  <2>4. q.pc = "finish" \/ q.reachedEnd => InSight' /\ HoldsAbove(0)'
    BY <1>2, <1>4, Zenon DEF RequestInv
  <2>5. q.pc = "upsert" => DOMAIN q.page \ q.fresh \subseteq Stored'
    BY <1>4 DEF RequestInv
  <2> QED BY <2>2, <2>3, <2>4, <2>5, <1>4, Zenon DEF RequestInv, Syncing, Loaded
<1>5. ASSUME NEW m \in MetaType, MetaInv(m) PROVE MetaInv(m)'
  <2>1. m.backfill_offset \in Nat
    BY DEF MetaType
  <2> QED BY <1>1, <1>2, <1>5, <2>1, Zenon DEF MetaInv
<1> QED BY <1>4, <1>5

-----------------------------------------------------------------------------
LEMMA IdleRequest ==
  /\ Idle \in RequestType /\ Idle.fresh = {} /\ Idle.pc = "idle" /\ RequestInv(Idle)
<1>1. Idle \in RequestType
  BY NoPage, TransactionIndexAssumption DEF Idle, RequestType, Steps
<1>2. RequestInv(Idle)
  BY DEF RequestInv, Idle, Syncing, Loaded
<1> QED BY <1>1, <1>2 DEF Idle

\* What holds of a value holds of the variable that takes it.
LEMMA RequestIs ==
  ASSUME NEW s, NEW q, request'[s] = q, RequestInv(q)'
  PROVE  RequestInv(request[s])'
BY DEF RequestInv, Syncing, Loaded, OffsetHolds, PageHolds, PageOf, HoldsAbove

LEMMA MetaIs ==
  ASSUME NEW m, meta' = m, MetaInv(m)'
  PROVE  MetaInv(meta)'
BY DEF MetaInv, OffsetHolds, HoldsAbove

\* One request moves on and no row is written.
LEMMA RequestMoves ==
  ASSUME IndexInv, UNCHANGED <<log, rows>>, NEW r \in Requests,
         NEW q \in RequestType, q.fresh \subseteq DOMAIN q.page, RequestInv(q),
         request' = [request EXCEPT ![r] = q],
         NEW m \in MetaType, MetaInv(m), meta' = m, misses' \in 0 .. MaxFailures
  PROVE  IndexInv'
<1>1. Stored' = Stored /\ DOMAIN log' = DOMAIN log
  BY DEF Stored
<1>2. request \in [Requests -> RequestType]
  BY DEF IndexInv, IndexType
<1>3. \A s \in Requests : request'[s] = IF s = r THEN q ELSE request[s]
  BY <1>2
<1>4. request' \in [Requests -> RequestType]
  BY <1>2
<1>5. ASSUME NEW s \in Requests PROVE RequestInv(request[s])'
  <2>1. PICK p : p = request'[s]
    OBVIOUS
  <2>2. RequestInv(p)
    BY <1>3, <2>1 DEF IndexInv
  <2> QED BY <1>1, <2>1, <2>2, SameRows, RequestIs, Zenon
<1>6. MetaInv(meta)'
  BY <1>1, SameRows, MetaIs, Zenon
<1>7. IndexType'
  <2>1. \A s \in Requests : request'[s].fresh \subseteq DOMAIN request'[s].page
    BY <1>3 DEF IndexInv, IndexType
  <2> QED BY <1>4, <2>1 DEF IndexInv, IndexType
<1>8. (Stored \subseteq DOMAIN log)' /\ (Page <= Length)'
  BY <1>1 DEF IndexInv, Length
<1> QED BY <1>5, <1>6, <1>7, <1>8 DEF IndexInv

LEMMA InitIndex ==
  ASSUME Page <= History, Init PROVE IndexInv
<1>0. Page \in Nat \ {0} /\ History \in 0 .. MaxTx /\ MaxTx \in Nat /\ MaxFailures \in Nat
  BY TransactionIndexAssumption
<1>1. IndexType
  <2>1. log \in [1 .. History -> Status]
    BY DEF Init, Status
  <2>2. rows \in Pages
    BY NoPage DEF Init
  <2>3. meta \in MetaType
    BY DEF Init, MetaType
  <2>4. request \in [Requests -> RequestType] /\ \A r \in Requests : request[r] = Idle
    BY IdleRequest DEF Init
  <2>5. \A r \in Requests : request[r].fresh \subseteq DOMAIN request[r].page
    BY <2>4, IdleRequest
  <2>6. misses \in 0 .. MaxFailures
    BY <1>0 DEF Init
  <2> QED BY <1>0, <2>1, <2>2, <2>3, <2>4, <2>5, <2>6 DEF IndexType
<1>2. Stored = {}
  BY NoPage DEF Init, Stored
<1>3. Length = History
  <2>1. DOMAIN log = 1 .. History
    BY DEF Init
  <2> QED BY <2>1, <1>0, FS_Interval DEF Length
<1>4. Newest(Stored) = 0
  BY <1>2, NewestIs
<1>5. MetaInv(meta)
  <2>1. HoldsAbove(Length - 0)
    BY <1>0, <1>3, <1>4 DEF HoldsAbove, Tx
  <2> QED BY <2>1 DEF MetaInv, OffsetHolds, Init
<1>6. \A r \in Requests : RequestInv(request[r])
  BY IdleRequest DEF Init
<1> QED BY <1>0, <1>1, <1>2, <1>3, <1>5, <1>6 DEF IndexInv

LEMMA ArriveIndex ==
  ASSUME Burst <= Page, IndexInv, Arrive PROVE IndexInv'
<1>0. /\ Length \in 0 .. MaxTx /\ DOMAIN log = 1 .. Length /\ log \in [1 .. Length -> Status]
      /\ MaxTx \in Nat /\ Page \in Nat /\ Burst \in Nat
  BY LengthIs, TransactionIndexAssumption DEF IndexInv
<1>1. /\ log' = [t \in 1 .. Length + 1 |-> IF t <= Length THEN log[t] ELSE "pending"]
      /\ Length < MaxTx /\ (Length - Newest(Stored) < Burst \/ Stored = {})
      /\ UNCHANGED <<rows, meta, request, misses>>
  BY DEF Arrive, Length
<1>2. log' \in [1 .. Length + 1 -> Status]
  BY <1>0, <1>1 DEF Status
<1>3. Length' = Length + 1
  <2>1. DOMAIN log' = 1 .. Length + 1
    BY <1>1
  <2> QED BY <2>1, <1>0, FS_Interval DEF Length
<1>4. Stored' = Stored
  BY <1>1 DEF Stored
<1>5. Newest(Stored) \in Nat
  <2>1. Stored \subseteq Tx
    BY PagesAre DEF IndexInv, IndexType, Stored
  <2> QED BY <2>1, NewestIs
<1>6. Stored # {} => InSight'
  BY <1>0, <1>1, <1>3, <1>4, <1>5 DEF InSight
<1>7. InSight => InSight'
  BY <1>6 DEF InSight
<1>8. IndexType'
  <2>1. \E n \in 0 .. MaxTx : log' \in [1 .. n -> Status]
    BY <1>0, <1>1, <1>2
  <2> QED BY <1>1, <2>1 DEF IndexInv, IndexType
<1>9. MetaInv(meta)' /\ \A r \in Requests : RequestInv(request[r])'
  <2>1. meta \in MetaType /\ \A r \in Requests : request[r] \in RequestType
    BY DEF IndexInv, IndexType
  <2>2. /\ \A q \in RequestType : RequestInv(q) => RequestInv(q)'
        /\ \A m \in MetaType : MetaInv(m) => MetaInv(m)'
    BY <1>3, <1>4, <1>6, <1>7, LongerLog DEF IndexInv
  <2>3. MetaInv(meta) /\ \A r \in Requests : RequestInv(request[r])
    BY DEF IndexInv
  <2>4. MetaInv(meta)'
    <3>1. PICK m : m = meta
      OBVIOUS
    <3> QED BY <1>1, <2>1, <2>2, <2>3, <3>1, MetaIs, Zenon
  <2>5. ASSUME NEW r \in Requests PROVE RequestInv(request[r])'
    <3>1. PICK q : q = request[r]
      OBVIOUS
    <3> QED BY <1>1, <2>1, <2>2, <2>3, <3>1, RequestIs, Zenon
  <2> QED BY <2>4, <2>5
<1>10. (Stored \subseteq DOMAIN log)' /\ (Page <= Length)'
  <2>1. DOMAIN log' = 1 .. Length + 1
    BY <1>1
  <2> QED BY <2>1, <1>0, <1>3, <1>4 DEF IndexInv
<1> QED BY <1>8, <1>9, <1>10, <1>1 DEF IndexInv

\* Only what is stored of a transaction, or when the log was synced, changes.
LEMMA RequestsStay ==
  ASSUME IndexInv, UNCHANGED <<rows, request, misses>>, DOMAIN log' = DOMAIN log,
         \E n \in 0 .. MaxTx : log' \in [1 .. n -> Status],
         NEW m \in MetaType, MetaInv(m), meta' = m
  PROVE  IndexInv'
<1>1. Stored' = Stored
  BY DEF Stored
<1>2. ASSUME NEW s \in Requests PROVE RequestInv(request[s])'
  <2>1. PICK q : q = request[s]
    OBVIOUS
  <2>2. RequestInv(q) /\ request'[s] = q
    BY <2>1 DEF IndexInv
  <2> QED BY <1>1, <2>2, SameRows, RequestIs, Zenon
<1>3. MetaInv(meta)'
  BY <1>1, SameRows, MetaIs, Zenon
<1>4. IndexType'
  BY DEF IndexInv, IndexType
<1>5. (Stored \subseteq DOMAIN log)' /\ (Page <= Length)'
  BY <1>1 DEF IndexInv, Length
<1> QED BY <1>2, <1>3, <1>4, <1>5 DEF IndexInv

LEMMA SettleTxIndex ==
  ASSUME IndexInv, NEW t \in DOMAIN log, SettleTx(t) PROVE IndexInv'
<1>1. log \in [1 .. Length -> Status] /\ Length \in 0 .. MaxTx
  BY LengthIs DEF IndexInv
<1>2. log' = [log EXCEPT ![t] = "settled"] /\ UNCHANGED <<rows, meta, request, misses>>
  BY DEF SettleTx
<1>3. log' \in [1 .. Length -> Status] /\ DOMAIN log' = DOMAIN log
  BY <1>1, <1>2 DEF Status
<1>4. \E n \in 0 .. MaxTx : log' \in [1 .. n -> Status]
  BY <1>1, <1>3
<1>5. meta \in MetaType /\ MetaInv(meta)
  BY DEF IndexInv, IndexType
<1>6. PICK m : m = meta
  OBVIOUS
<1> QED BY <1>2, <1>3, <1>4, <1>5, <1>6, RequestsStay

LEMMA SlotExpiresIndex ==
  ASSUME IndexInv, SlotExpires PROVE IndexInv'
<1>1. meta' = [meta EXCEPT !.synced = FALSE] /\ UNCHANGED <<log, rows, request, misses>>
  BY DEF SlotExpires
<1>2. PICK m : m = [meta EXCEPT !.synced = FALSE]
  OBVIOUS
<1>3. m \in MetaType /\ m.backfill_offset = meta.backfill_offset /\ m.backfill_done = meta.backfill_done
  BY <1>2 DEF IndexInv, IndexType, MetaType
<1>4. MetaInv(m)
  BY <1>3 DEF IndexInv, MetaInv
<1> QED BY <1>1, <1>2, <1>3, <1>4, RequestsStay DEF IndexInv, IndexType

LEMMA RequestAt ==
  ASSUME IndexInv, NEW r \in Requests
  PROVE  /\ request[r] \in RequestType /\ request[r].fresh \subseteq DOMAIN request[r].page
         /\ RequestInv(request[r]) /\ request \in [Requests -> RequestType]
         /\ meta \in MetaType /\ MetaInv(meta) /\ misses \in 0 .. MaxFailures
         /\ MaxFailures \in Nat /\ MaxPages \in Nat /\ MaxPages # 0
BY TransactionIndexAssumption DEF IndexInv, IndexType

\* The request is not reading, so nothing is said of its offset.
LEMMA GoesOn ==
  ASSUME IndexInv, NEW r \in Requests, NEW pc \in {"claim", "begin"},
         request[r].pc \in {"idle", "claim"}
  PROVE  /\ [request[r] EXCEPT !.pc = pc] \in RequestType
         /\ [request[r] EXCEPT !.pc = pc].fresh \subseteq DOMAIN [request[r] EXCEPT !.pc = pc].page
         /\ RequestInv([request[r] EXCEPT !.pc = pc])
<1> DEFINE q == request[r]
           p == [q EXCEPT !.pc = pc]
<1>1. q \in RequestType /\ q.fresh \subseteq DOMAIN q.page /\ RequestInv(q)
  BY RequestAt
<1>2. /\ p \in RequestType /\ p.pc = pc /\ p.fresh = q.fresh /\ p.page = q.page
      /\ p.reachedEnd = q.reachedEnd
  BY <1>1 DEF RequestType, Steps
<1> HIDE DEF p
<1>3. RequestInv(p)
  BY <1>1, <1>2 DEF RequestInv, Loaded, Syncing
<1>4. p \in RequestType /\ p.fresh \subseteq DOMAIN p.page /\ RequestInv(p)
  BY <1>1, <1>2, <1>3
<1> QED BY <1>4 DEF p

LEMMA ClaimIndex ==
  ASSUME IndexInv, NEW r \in Requests, SyncIfStale(r) \/ ClaimSlot(r) PROVE IndexInv'
<1>1. CASE SyncIfStale(r)
  <2>1. /\ request' = [request EXCEPT ![r] = [request[r] EXCEPT !.pc = "claim"]]
        /\ request[r].pc = "idle" /\ UNCHANGED <<log, rows, meta, misses>>
    BY <1>1 DEF SyncIfStale, Goto, At
  <2>2. PICK m : m = meta
    OBVIOUS
  <2> QED BY <2>1, <2>2, GoesOn, RequestAt, RequestMoves
<1>2. CASE ClaimSlot(r)
  <2>1. /\ request' = [request EXCEPT ![r] = [request[r] EXCEPT !.pc = "begin"]]
        /\ request[r].pc = "claim" /\ UNCHANGED <<log, rows, misses>>
        /\ meta' = [meta EXCEPT !.synced = TRUE]
    BY <1>2 DEF ClaimSlot, Goto, At
  <2>2. PICK m : m = [meta EXCEPT !.synced = TRUE]
    OBVIOUS
  <2>3. /\ m \in MetaType /\ m.backfill_offset = meta.backfill_offset
        /\ m.backfill_done = meta.backfill_done
    BY <2>2, RequestAt DEF MetaType
  <2>4. MetaInv(m)
    BY <2>3, RequestAt DEF MetaInv
  <2> QED BY <2>1, <2>2, <2>3, <2>4, GoesOn, RequestAt, RequestMoves
<1> QED BY <1>1, <1>2

LEMMA BeginIndex ==
  ASSUME IndexInv, NEW r \in Requests, Begin(r) PROVE IndexInv'
<1>1. PICK q : q = [Idle EXCEPT !.pc = "fetch", !.backfilled = meta.backfill_done]
  OBVIOUS
<1>2. request' = [request EXCEPT ![r] = q] /\ UNCHANGED <<log, rows, meta, misses>>
  BY <1>1 DEF Begin
<1>3. /\ q \in RequestType /\ q.fresh = {} /\ q.pc = "fetch" /\ q.pages = 0 /\ q.offset = 0
      /\ q.reachedEnd = FALSE
  BY <1>1, IdleRequest, RequestAt DEF RequestType, Idle, MetaType, Steps
<1>4. OffsetHolds(0)
  <2>1. Length \in Nat /\ DOMAIN log = 1 .. Length
    BY LengthIs DEF IndexInv
  <2>2. Stored \subseteq Tx
    BY PagesAre DEF IndexInv, IndexType, Stored
  <2>3. Newest(Stored) \in Nat /\ Newest(Stored) <= Length
    BY <2>1, <2>2, NewestIs DEF IndexInv
  <2>4. HoldsAbove(Length - 0)
    BY <2>1, <2>3, TransactionIndexAssumption DEF HoldsAbove, Tx
  <2> QED BY <2>4 DEF OffsetHolds
<1>5. RequestInv(q)
  BY <1>3, <1>4, RequestAt DEF RequestInv, Syncing, Loaded
<1>6. PICK m : m = meta
  OBVIOUS
<1> QED BY <1>2, <1>3, <1>5, <1>6, RequestAt, RequestMoves

LEMMA FetchPageIndex ==
  ASSUME IndexInv, NEW r \in Requests, FetchPage(r) PROVE IndexInv'
<1> DEFINE q == request[r]
<1>0. q \in RequestType /\ RequestInv(q) /\ q.pc = "fetch"
  BY RequestAt DEF FetchPage, At
<1>1. PICK p : p = [q EXCEPT !.pc = "known", !.pages = @ + 1, !.page = FetchTxPage(q.offset)]
  OBVIOUS
<1>2. request' = [request EXCEPT ![r] = p] /\ UNCHANGED <<log, rows, meta, misses>>
  BY <1>1 DEF FetchPage
<1>3. /\ Length \in 0 .. MaxTx /\ DOMAIN log = 1 .. Length /\ log \in [1 .. Length -> Status]
      /\ MaxTx \in Nat /\ Page \in Nat /\ Page # 0 /\ Page <= Length
  BY LengthIs, TransactionIndexAssumption DEF IndexInv
<1>4. q.offset \in Nat /\ q.pages \in 0 .. MaxPages /\ q.pages < MaxPages /\ q.fresh = {}
  BY <1>0 DEF RequestType, RequestInv, Loaded
<1>5. DOMAIN FetchTxPage(q.offset) = PageOf(q.offset, Length)
  BY <1>3, <1>4 DEF FetchTxPage, PageOf, Length, Tx
<1>6. FetchTxPage(q.offset) \in Pages
  <2>1. DOMAIN FetchTxPage(q.offset) \subseteq Tx
    BY <1>5 DEF PageOf
  <2>2. FetchTxPage(q.offset) \in [DOMAIN FetchTxPage(q.offset) -> Status]
    BY <1>3 DEF FetchTxPage
  <2> QED BY <2>1, <2>2, PagesAre
<1>7. /\ p \in RequestType /\ p.fresh = {} /\ p.pc = "known" /\ p.page = FetchTxPage(q.offset)
      /\ p.offset = q.offset /\ p.reachedEnd = q.reachedEnd
  <2>1. q.pages + 1 \in 0 .. MaxPages
    BY <1>4, RequestAt
  <2>2. PICK page : page = FetchTxPage(q.offset)
    OBVIOUS
  <2>3. p = [q EXCEPT !.pc = "known", !.pages = q.pages + 1, !.page = page]
    BY <1>1, <2>2
  <2>4. page \in Pages
    BY <1>6, <2>2
  <2> QED BY <1>0, <1>4, <2>1, <2>2, <2>3, <2>4 DEF RequestType, Steps
<1>8. OffsetHolds(q.offset) /\ ~ q.reachedEnd
  BY <1>0 DEF RequestInv, Syncing
<1>9. Length \in Page .. Length /\ PageHolds(p, Length)
  <2>1. q.offset = 0 => HoldsAbove(Length)
    BY <1>3, <1>8 DEF OffsetHolds
  <2>2. HoldsAbove(Length - q.offset)
    BY <1>8 DEF OffsetHolds
  <2> QED BY <1>3, <1>5, <1>7, <2>1, <2>2 DEF PageHolds
<1>10. RequestInv(p)
  BY <1>7, <1>8, <1>9 DEF RequestInv, Syncing, Loaded
<1>11. PICK m : m = meta
  OBVIOUS
<1>12. p.fresh \subseteq DOMAIN p.page
  BY <1>7
<1> QED BY <1>2, <1>7, <1>10, <1>11, <1>12, RequestAt, RequestMoves

LEMMA KnownIndex ==
  ASSUME IndexInv, NEW r \in Requests, Known(r) PROVE IndexInv'
<1> DEFINE q == request[r]
<1>0. q \in RequestType /\ RequestInv(q) /\ q.pc = "known"
  BY RequestAt DEF Known, At
<1>1. PICK p : p = [q EXCEPT !.pc = "upsert", !.fresh = DOMAIN q.page \ Stored]
  OBVIOUS
<1>2. request' = [request EXCEPT ![r] = p] /\ UNCHANGED <<log, rows, meta, misses>>
  BY <1>1 DEF Known
<1>3. DOMAIN q.page \subseteq Tx
  BY <1>0, PagesAre DEF RequestType
<1>4. /\ p \in RequestType /\ p.fresh = DOMAIN q.page \ Stored /\ p.pc = "upsert" /\ p.page = q.page
      /\ p.offset = q.offset /\ p.reachedEnd = q.reachedEnd
  BY <1>0, <1>1, <1>3, RequestAt DEF RequestType, Steps
<1>5. OffsetHolds(p.offset) /\ ~ p.reachedEnd
  BY <1>0, <1>4 DEF RequestInv, Syncing
<1>6. \E m \in Page .. Length : PageHolds(p, m)
  <2>1. PICK m \in Page .. Length : PageHolds(q, m)
    BY <1>0 DEF RequestInv, Loaded
  <2> QED BY <2>1, <1>4 DEF PageHolds
<1>7. RequestInv(p)
  BY <1>4, <1>5, <1>6 DEF RequestInv, Syncing, Loaded
<1>8. PICK m : m = meta
  OBVIOUS
<1>9. p.fresh \subseteq DOMAIN p.page
  BY <1>4
<1> QED BY <1>2, <1>4, <1>7, <1>8, <1>9, RequestAt, RequestMoves

LEMMA ResumeIndex ==
  ASSUME IndexInv, NEW r \in Requests, Resume(r) PROVE IndexInv'
<1> DEFINE q == request[r]
<1>0. q \in RequestType /\ RequestInv(q) /\ q.pc = "resume"
  BY RequestAt DEF Resume, At
<1>1. PICK p : p = [q EXCEPT !.pc = IF MayFetchMore(q) THEN "fetch" ELSE "save",
                             !.loop = "back", !.offset = ResumeAt(q)]
  OBVIOUS
<1>2. request' = [request EXCEPT ![r] = p] /\ UNCHANGED <<log, rows, meta, misses>>
  BY <1>1 DEF Resume
<1>3. ResumeAt(q) \in {q.offset, meta.backfill_offset}
  BY DEF ResumeAt
<1>4. ResumeAt(q) \in Nat
  BY <1>0, <1>3, RequestAt DEF RequestType, MetaType
<1>5. /\ p \in RequestType /\ p.fresh = q.fresh /\ p.page = q.page /\ p.offset = ResumeAt(q)
      /\ p.pc \in {"fetch", "save"} /\ (p.pc = "fetch" => p.pages < MaxPages)
      /\ p.reachedEnd = q.reachedEnd
  BY <1>0, <1>1, <1>4, RequestAt DEF RequestType, Steps, MayFetchMore
<1>6. OffsetHolds(p.offset)
  BY <1>0, <1>3, <1>5, RequestAt DEF RequestInv, Syncing, MetaInv
<1>7. RequestInv(p)
  BY <1>0, <1>5, <1>6 DEF RequestInv, Syncing, Loaded
<1>8. PICK m : m = meta
  OBVIOUS
<1>9. p.fresh \subseteq DOMAIN p.page
  BY <1>5, RequestAt
<1> QED BY <1>2, <1>5, <1>7, <1>8, <1>9, RequestAt, RequestMoves

LEMMA SaveOffsetIndex ==
  ASSUME IndexInv, NEW r \in Requests, SaveOffset(r) PROVE IndexInv'
<1> DEFINE q == request[r]
<1>0. q \in RequestType /\ RequestInv(q) /\ q.pc = "save"
  BY RequestAt DEF SaveOffset, At
<1>1. PICK p : p = AfterSave(q)
  OBVIOUS
<1>2. PICK m : m = [meta EXCEPT !.backfill_offset = q.offset]
  OBVIOUS
<1>3. /\ request' = [request EXCEPT ![r] = p] /\ meta' = m /\ UNCHANGED <<log, rows, misses>>
  BY <1>1, <1>2 DEF SaveOffset
<1>4. /\ m \in MetaType /\ m.backfill_offset = q.offset /\ m.backfill_done = meta.backfill_done
  BY <1>0, <1>2, RequestAt DEF MetaType, RequestType
<1>5. MetaInv(m)
  BY <1>0, <1>4, RequestAt DEF MetaInv, RequestInv, Syncing
<1>6. p \in RequestType /\ p.fresh \subseteq DOMAIN p.page /\ RequestInv(p)
  <2>1. CASE q.reachedEnd
    <3>1. p = [q EXCEPT !.pc = "finish"]
      BY <1>1, <2>1 DEF AfterSave
    <3>2. /\ p \in RequestType /\ p.fresh = q.fresh /\ p.page = q.page /\ p.pc = "finish"
          /\ p.reachedEnd = q.reachedEnd
      BY <1>0, <3>1 DEF RequestType, Steps
    <3>3. RequestInv(p)
      BY <1>0, <2>1, <3>2 DEF RequestInv, Syncing, Loaded
    <3> QED BY <3>2, <3>3, RequestAt
  <2>2. CASE ~ q.reachedEnd
    BY <1>1, <2>2, IdleRequest DEF AfterSave
  <2> QED BY <2>1, <2>2
<1> QED BY <1>3, <1>4, <1>5, <1>6, RequestAt, RequestMoves

LEMMA FinishIndex ==
  ASSUME IndexInv, NEW r \in Requests, Finish(r) PROVE IndexInv'
<1> DEFINE q == request[r]
<1>0. q \in RequestType /\ RequestInv(q) /\ q.pc = "finish"
  BY RequestAt DEF Finish, At
<1>1. PICK m : m = [meta EXCEPT !.backfill_done = TRUE]
  OBVIOUS
<1>2. /\ request' = [request EXCEPT ![r] = Idle] /\ meta' = m /\ UNCHANGED <<log, rows, misses>>
  BY <1>1 DEF Finish
<1>3. m \in MetaType /\ m.backfill_offset = meta.backfill_offset
  BY <1>1, RequestAt DEF MetaType
<1>4. MetaInv(m)
  BY <1>0, <1>3, RequestAt DEF MetaInv, RequestInv
<1> QED BY <1>2, <1>3, <1>4, IdleRequest, RequestAt, RequestMoves

LEMMA FailIndex ==
  ASSUME IndexInv, NEW r \in Requests, Fail(r) PROVE IndexInv'
<1>1. /\ request' = [request EXCEPT ![r] = Idle] /\ misses' = misses + 1
      /\ misses < MaxFailures /\ UNCHANGED <<log, rows, meta>>
  BY DEF Fail
<1>2. misses' \in 0 .. MaxFailures
  BY <1>1, RequestAt
<1>3. PICK m : m = meta
  OBVIOUS
<1> QED BY <1>1, <1>2, <1>3, IdleRequest, RequestAt, RequestMoves

-----------------------------------------------------------------------------
\* Where a request goes after a stored page.
LEMMA AfterPageIs ==
  ASSUME NEW q \in RequestType, q.fresh \subseteq DOMAIN q.page,
         NEW p, p = AfterPage(q), p # Idle
  PROVE  LET short == Cardinality(DOMAIN q.page) < Page
         IN  /\ p \in RequestType /\ p.fresh = {} /\ p.reachedEnd = short
             /\ p.offset = q.offset \/ (p.offset = q.offset + Page /\ ~ short)
             /\ p.pc \in {"fetch", "resume", "save", "finish"}
             /\ p.pc = "fetch" => p.pages < MaxPages
             /\ p.reachedEnd => p.pc \in {"save", "finish"}
             /\ p.pc = "finish" => short
<1> DEFINE short  == Cardinality(DOMAIN q.page) < Page
           stop   == short \/ (q.loop = "head" /\ q.fresh # DOMAIN q.page)
           to     == IF stop THEN q.offset ELSE q.offset + Page
           next   == [q EXCEPT !.offset = to, !.reachedEnd = short, !.page = <<>>, !.fresh = {}]
           onward == IF ~ stop /\ MayFetchMore(q) THEN "fetch"
                     ELSE IF q.loop = "back"       THEN "save"
                     ELSE IF q.backfilled          THEN "idle"
                     ELSE IF short                 THEN "finish"
                     ELSE                               "resume"
<1>1. p = IF onward = "idle" THEN Idle ELSE [next EXCEPT !.pc = onward]
  BY DEF AfterPage
<1>2. onward # "idle" /\ p = [next EXCEPT !.pc = onward]
  BY <1>1
<1>3. Page \in Nat /\ Page # 0 /\ short \in BOOLEAN
  BY TransactionIndexAssumption
<1>4. to \in Nat
  BY <1>3 DEF RequestType
<1>5. PICK empty : empty = <<>>
  OBVIOUS
<1>6. empty \in Pages
  BY <1>5, NoPage
<1>7. next \in RequestType /\ next.offset = to /\ next.reachedEnd = short /\ next.fresh = {}
      /\ next.pages = q.pages
  <2> HIDE DEF to
  <2>1. next = [q EXCEPT !.offset = to, !.reachedEnd = short, !.page = empty, !.fresh = {}]
    BY <1>5
  <2> HIDE DEF next
  <2> QED BY <1>3, <1>4, <1>6, <2>1 DEF RequestType
<1>8. onward \in {"fetch", "resume", "save", "finish"}
  BY <1>2
<1>9. p \in RequestType /\ p.offset = to /\ p.reachedEnd = short /\ p.fresh = {} /\ p.pc = onward
      /\ p.pages = q.pages
  <2> HIDE DEF onward, to, next
  <2> QED BY <1>2, <1>7, <1>8 DEF RequestType, Steps
<1>10. onward = "fetch" => ~ stop /\ q.pages < MaxPages
  BY DEF MayFetchMore
<1>11. short => onward \in {"save", "finish"}
  BY <1>2
<1>12. onward = "finish" => short
  OBVIOUS
<1> QED BY <1>8, <1>9, <1>10, <1>11, <1>12

LEMMA UpsertIndex ==
  ASSUME IndexInv, NEW r \in Requests, Upsert(r) PROVE IndexInv'
<1>0. PICK q : q = request[r]
  OBVIOUS
<1>1. /\ q \in RequestType /\ q.fresh \subseteq DOMAIN q.page /\ RequestInv(q) /\ q.pc = "upsert"
  BY <1>0, RequestAt DEF Upsert, At
<1>2. /\ rows' = [t \in Stored \union Written(q) |-> IF t \in Written(q) THEN q.page[t] ELSE rows[t]]
      /\ request' = [request EXCEPT ![r] = AfterPage(q)]
      /\ UNCHANGED <<log, meta, misses>>
  BY <1>0 DEF Upsert
<1>3. q.page \in Pages /\ rows \in Pages
  BY <1>1 DEF RequestType, IndexInv, IndexType
<1>4. /\ DOMAIN q.page \subseteq Tx /\ q.page \in [DOMAIN q.page -> Status]
      /\ Stored \subseteq Tx /\ rows \in [Stored -> Status]
  BY <1>3, PagesAre DEF Stored
<1>5. Written(q) \subseteq DOMAIN q.page /\ DOMAIN q.page \subseteq Stored \union Written(q)
  BY <1>1 DEF Written, RequestInv
<1>6. Stored' = Stored \union DOMAIN q.page
  BY <1>2, <1>5 DEF Stored
<1>7. rows' \in Pages
  <2>1. DOMAIN rows' \subseteq Tx
    BY <1>2, <1>4, <1>5
  <2>2. \A t \in DOMAIN rows' : rows'[t] \in Status
    BY <1>2, <1>4, <1>5
  <2>3. rows' \in [DOMAIN rows' -> Status]
    BY <1>2, <2>2
  <2> QED BY <2>1, <2>3, PagesAre
<1>8. PICK m \in Page .. Length : PageHolds(q, m)
  BY <1>1 DEF RequestInv, Loaded
<1>9. /\ Length \in 0 .. MaxTx /\ Page \in Nat /\ Page # 0 /\ MaxTx \in Nat
      /\ Page <= Length /\ Stored \subseteq DOMAIN log /\ DOMAIN log = 1 .. Length
      /\ q.offset \in Nat /\ Length' = Length
  BY <1>1, <1>2, LengthIs, TransactionIndexAssumption DEF IndexInv, RequestType, Length
<1>10. OffsetHolds(q.offset) /\ ~ q.reachedEnd
  BY <1>1 DEF RequestInv, Syncing
<1>11. Stored' = Stored \union PageOf(q.offset, m)
  BY <1>6, <1>8 DEF PageHolds
<1>12. q.offset # 0 /\ ~ InSight => q.offset = Page /\ m = Length
  BY <1>8, <1>10 DEF PageHolds, OffsetHolds
<1>13. /\ \A low : Safe(low) /\ HoldsAbove(low) => HoldsAbove(low)'
       /\ Newest(Stored') \in Nat /\ Newest(Stored) \in Nat
       /\ Newest(Stored) <= Newest(Stored')
       /\ Stored' # {} /\ Stored' \subseteq Tx
       /\ InSight => InSight'
       /\ q.offset # 0 => InSight'
  <2>1. Stored = {} => q.offset = 0
    BY <1>10 DEF OffsetHolds
  <2>2. IndexType
    BY DEF IndexInv
  <2> HIDE DEF IndexType, Safe, HoldsAbove, InSight, Length, Stored
  <2> QED BY <1>8, <1>9, <1>11, <1>12, <2>1, <2>2, StoredPage
<1>14. /\ \A p \in RequestType : RequestInv(p) => RequestInv(p)'
       /\ \A n \in MetaType : MetaInv(n) => MetaInv(n)'
  <2>1. IndexType /\ Stored \subseteq Stored'
    BY <1>11 DEF IndexInv
  <2> QED BY <1>9, <1>13, <2>1, StoredPageOthers
<1>15. PICK p : p = AfterPage(q)
  OBVIOUS
<1>16. p \in RequestType /\ p.fresh = {} /\ RequestInv(p)'
  <2>1. CASE p = Idle
    BY <2>1, <1>14, IdleRequest
  <2>2. CASE p # Idle
    <3> DEFINE short == Cardinality(DOMAIN q.page) < Page
               x == m - q.offset
    <3>1. /\ p \in RequestType /\ p.fresh = {} /\ p.reachedEnd = short
          /\ p.offset = q.offset \/ (p.offset = q.offset + Page /\ ~ short)
          /\ p.pc \in {"fetch", "resume", "save", "finish"}
          /\ p.pc = "fetch" => p.pages < MaxPages
          /\ p.reachedEnd => p.pc \in {"save", "finish"}
          /\ p.pc = "finish" => short
      BY <1>1, <1>15, <2>2, AfterPageIs
    <3>2. short <=> x < Page
      <4>1. x \in Int /\ x <= MaxTx
        BY <1>9
      <4>2. DOMAIN q.page = {t \in Tx : x - Page < t /\ t <= x}
        BY <1>8 DEF PageHolds, PageOf
      <4> HIDE DEF x
      <4> QED BY <4>1, <4>2, PageCounts
    <3>3. HoldsAbove(Length - q.offset)'
      BY <1>9, <1>10, <1>13 DEF Safe, OffsetHolds
    <3>4. \A t \in Tx : x - Page < t /\ t <= x => t \in Stored'
      BY <1>11 DEF PageOf
    <3>5. q.offset # 0 => HoldsAbove(x)'
      <4>1. q.offset # 0 => HoldsAbove(x) /\ Safe(x)
        BY <1>8, <1>9, <1>12 DEF PageHolds, Safe
      <4> QED BY <4>1, <1>13, Zenon
    <3>6. \A t \in Tx : x < t /\ Length - q.offset - Page < t /\ t <= Newest(Stored') => t \in Stored'
      <4>1. CASE q.offset # 0
        BY <3>5, <4>1 DEF HoldsAbove
      <4>2. CASE q.offset = 0 /\ Safe(m) /\ HoldsAbove(m)
        <5>1. HoldsAbove(m)'
          BY <4>2, <1>13, Zenon
        <5>2. x = m
          BY <4>2, <1>9
        <5> QED BY <5>1, <5>2 DEF HoldsAbove
      <4>3. CASE q.offset = 0 /\ ~ (Safe(m) /\ HoldsAbove(m))
        <5>1. HoldsAbove(Length - Page) /\ Safe(Length - Page)
          <6>1. Safe(Length - Page)
            BY <1>9 DEF Safe
          <6>2. CASE ~ HoldsAbove(m)
            BY <4>3, <6>1, <6>2, <1>8 DEF PageHolds
          <6>3. CASE HoldsAbove(m)
            <7>1. m <= Length - Page
              BY <4>3, <6>3, <1>8, <1>9 DEF Safe
            <7>2. \A t \in Tx : Length - Page < t => m < t
              BY <7>1, <1>8, <1>9 DEF Tx
            <7> QED BY <6>1, <6>3, <7>2 DEF HoldsAbove
          <6> QED BY <6>2, <6>3
        <5>2. PICK low : low = Length - Page
          OBVIOUS
        <5>3. HoldsAbove(low)'
          BY <5>1, <5>2, <1>13, Zenon
        <5>4. low = Length - q.offset - Page
          BY <4>3, <5>2, <1>9
        <5> QED BY <5>3, <5>4 DEF HoldsAbove
      <4> QED BY <4>1, <4>2, <4>3
    <3>7. OffsetHolds(p.offset)'
      <4>1. HoldsAbove(Length - p.offset)'
        <5>1. CASE p.offset = q.offset
          BY <3>3, <5>1
        <5>2. CASE p.offset = q.offset + Page
          <6>1. Length' - p.offset = Length - q.offset - Page
            BY <5>2, <1>9
          <6>2. ASSUME NEW t \in Tx, Length - q.offset - Page < t, t <= Newest(Stored')
                PROVE  t \in Stored'
            <7>1. x - Page < t
              BY <6>2, <1>8, <1>9 DEF Tx
            <7>2. x < t \/ t <= x
              BY <1>8, <1>9 DEF Tx
            <7> HIDE DEF x
            <7> QED BY <6>2, <7>1, <7>2, <3>4, <3>6
          <6>3. HoldsAbove(Length - q.offset - Page)' <=> HoldsAbove(Length - p.offset)'
            BY <6>1, <1>9
          <6> QED BY <6>1, <6>2, <6>3 DEF HoldsAbove
        <5> QED BY <3>1, <5>1, <5>2
      <4>2. ~ InSight' => p.offset \in {0, Page}
        BY <3>1, <1>9, <1>13
      <4> QED BY <4>1, <4>2, <1>13 DEF OffsetHolds
    <3>8. short => InSight' /\ HoldsAbove(0)'
      <4>1. ASSUME short PROVE InSight' /\ HoldsAbove(0)'
        <5>1. x < Page /\ x \in Int /\ x - Page < 0
          BY <3>2, <4>1, <1>8, <1>9
        <5>2. q.offset # 0
          BY <5>1, <1>8, <1>9
        <5>3. HoldsAbove(x)' /\ InSight'
          BY <5>2, <3>5, <1>13
        <5>4. ASSUME NEW t \in Tx, t <= Newest(Stored') PROVE t \in Stored'
          <6>1. x - Page < t /\ (x < t \/ t <= x)
            BY <5>1, <1>9 DEF Tx
          <6> HIDE DEF x
          <6> QED BY <5>3, <5>4, <6>1, <3>4 DEF HoldsAbove
        <5> QED BY <5>3, <5>4 DEF HoldsAbove
      <4> QED BY <4>1
    <3> HIDE DEF short
    <3>9. RequestInv(p)'
      BY <3>1, <3>7, <3>8, <1>10 DEF RequestInv, Syncing, Loaded
    <3> QED BY <3>1, <3>9
  <2> QED BY <2>1, <2>2
<1>17. request \in [Requests -> RequestType] /\ \A s \in Requests : RequestInv(request[s])
  BY RequestAt DEF IndexInv
<1>18. request' = [request EXCEPT ![r] = p]
  BY <1>2, <1>15
<1>19. \A s \in Requests : request'[s] = IF s = r THEN p ELSE request[s]
  BY <1>17, <1>18
<1>20. request' \in [Requests -> RequestType]
  BY <1>16, <1>17, <1>18
<1>21. ASSUME NEW s \in Requests PROVE RequestInv(request[s])'
  <2>1. CASE s = r
    BY <2>1, <1>16, <1>19, RequestIs
  <2>2. CASE s # r
    <3>1. PICK v : v = request[s]
      OBVIOUS
    <3>2. v \in RequestType /\ RequestInv(v) /\ request'[s] = v
      BY <3>1, <2>2, <1>17, <1>19
    <3>3. RequestInv(v)'
      BY <3>2, <1>14
    <3> QED BY <3>2, <3>3, RequestIs
  <2> QED BY <2>1, <2>2
<1>22. MetaInv(meta)'
  <2>1. PICK n : n = meta
    OBVIOUS
  <2>2. n \in MetaType /\ MetaInv(n) /\ meta' = n
    BY <2>1, <1>2, RequestAt
  <2> QED BY <2>2, <1>14, MetaIs
<1>23. IndexType'
  <2>1. \A s \in Requests : request'[s].fresh \subseteq DOMAIN request'[s].page
    BY <1>16, <1>19, RequestAt
  <2>2. UNCHANGED <<log, meta, misses>>
    BY <1>2
  <2> QED BY <2>1, <2>2, <1>7, <1>20 DEF IndexInv, IndexType
<1>24. (Stored \subseteq DOMAIN log)' /\ (Page <= Length)'
  <2>1. PageOf(q.offset, m) \subseteq DOMAIN log /\ DOMAIN log' = DOMAIN log
    BY <1>2, <1>8, <1>9 DEF PageOf, Tx
  <2> QED BY <2>1, <1>9, <1>11
<1> QED BY <1>21, <1>22, <1>23, <1>24 DEF IndexInv

LEMMA NextIndex ==
  ASSUME Burst <= Page, IndexInv, [Next]_vars PROVE IndexInv'
<1>1. CASE Arrive
  BY <1>1, ArriveIndex
<1>2. ASSUME NEW t \in DOMAIN log, SettleTx(t) PROVE IndexInv'
  BY <1>2, SettleTxIndex
<1>3. CASE SlotExpires
  BY <1>3, SlotExpiresIndex
<1>4. ASSUME NEW r \in Requests, SyncIfStale(r) \/ Sync(r) \/ Fail(r) PROVE IndexInv'
  <2>1. CASE SyncIfStale(r) \/ ClaimSlot(r)
    BY <2>1, ClaimIndex
  <2>2. CASE Begin(r)
    BY <2>2, BeginIndex
  <2>3. CASE FetchPage(r)
    BY <2>3, FetchPageIndex
  <2>4. CASE Known(r)
    BY <2>4, KnownIndex
  <2>5. CASE Upsert(r)
    BY <2>5, UpsertIndex
  <2>6. CASE Resume(r)
    BY <2>6, ResumeIndex
  <2>7. CASE SaveOffset(r)
    BY <2>7, SaveOffsetIndex
  <2>8. CASE Finish(r)
    BY <2>8, FinishIndex
  <2>9. CASE Fail(r)
    BY <2>9, FailIndex
  <2> QED BY <1>4, <2>1, <2>2, <2>3, <2>4, <2>5, <2>6, <2>7, <2>8, <2>9 DEF Sync
<1>5. CASE UNCHANGED vars
  <2>1. UNCHANGED <<rows, request, misses>> /\ log' = log /\ meta' = meta
    BY <1>5 DEF vars
  <2>2. PICK m : m = meta
    OBVIOUS
  <2>3. \E n \in 0 .. MaxTx : log' \in [1 .. n -> Status]
    BY <2>1 DEF IndexInv, IndexType
  <2> QED BY <2>1, <2>2, <2>3, RequestsStay, RequestAt DEF IndexInv, IndexType
<1> QED BY <1>1, <1>2, <1>3, <1>4, <1>5 DEF Next

LEMMA IndexInvIsSound == ASSUME IndexInv PROVE IndexIsSound
<1>1. TypeOK
  BY DEF IndexInv, IndexType, TypeOK, RequestType, MetaType
<1>2. KnownRowMeansOlderKnown
  <2> SUFFICES ASSUME meta.backfill_done, NEW t \in Stored PROVE 1 .. t \subseteq Stored
    BY DEF KnownRowMeansOlderKnown
  <2>1. HoldsAbove(0)
    BY DEF IndexInv, MetaInv
  <2>2. Stored \subseteq Tx
    BY PagesAre DEF IndexInv, IndexType, Stored
  <2>3. Newest(Stored) \in Nat /\ t <= Newest(Stored) /\ t \in Tx
    BY <2>2, NewestIs
  <2>4. 1 .. t \subseteq Tx
    BY <2>3, TransactionIndexAssumption DEF Tx
  <2> QED BY <2>1, <2>3, <2>4, TransactionIndexAssumption DEF HoldsAbove, Tx
<1> QED BY <1>1, <1>2 DEF IndexIsSound

(***************************************************************************)
(* No sync leaves its bounds or a gap behind it, however requests overlap, *)
(* fail or fall behind the log (syncIndex).  It takes that a burst of      *)
(* arrivals fits a page, and that the contract has a page of history       *)
(* before the first request: in a shorter log a first page that fell       *)
(* behind would be taken for the whole of it.                              *)
(***************************************************************************)
THEOREM IndexSound ==
  ASSUME Burst <= Page, Page <= History
  PROVE  Spec => []IndexIsSound
<1>1. Init => IndexInv
  BY InitIndex
<1>2. IndexInv /\ [Next]_vars => IndexInv'
  BY NextIndex
<1>3. IndexInv => IndexIsSound
  BY IndexInvIsSound
<1> QED BY <1>1, <1>2, <1>3, PTL DEF Spec

-----------------------------------------------------------------------------
(* The store of the site and the nodes it reads through.                   *)

Queries == [first : 0 .. NodeCount, k : 0 .. NodeCount - 1, failed : SUBSET Nodes]

\* A request has tried the nodes from its first on in a row, and knows no more
\* of those that fail than there is to know.
TriedInTurn(q) ==
  /\ q.first \in Nodes
  /\ Failing \subseteq q.failed
  /\ \A j \in 0 .. NodeCount - 1 : j < q.k => (q.first + j) % NodeCount \in q.failed

NodesType ==
  /\ preferred \in Nodes
  /\ health \in [Nodes -> {"up", "refusing", "silent"}]
  /\ probe \in [running : BOOLEAN, answers : SUBSET Nodes, failed : SUBSET Nodes]
  /\ asked \in [Askers -> Queries]

NodesInv ==
  /\ NodesType
  /\ \A a \in Askers : asked[a] = NoRequest \/ TriedInTurn(asked[a])

\* A lap around the nodes comes to every one of them.
LEMMA FullLap ==
  ASSUME NodeCount \in Nat \ {0}, NEW first \in Nodes, NEW n \in Nodes
  PROVE  \E j \in 0 .. NodeCount - 1 : (first + j) % NodeCount = n
<1>0. first \in 0 .. NodeCount - 1 /\ n \in 0 .. NodeCount - 1
  BY DEF Nodes
<1>1. CASE first <= n
  <2>1. n - first \in 0 .. NodeCount - 1 /\ first + (n - first) = n /\ n % NodeCount = n
    BY <1>0, <1>1
  <2> QED BY <2>1
<1>2. CASE ~ first <= n
  <2>1. n - first + NodeCount \in 0 .. NodeCount - 1 /\ first + (n - first + NodeCount) = n + NodeCount
    BY <1>0, <1>2
  <2>2. (n + NodeCount) % NodeCount = n
    BY <1>0
  <2> QED BY <2>1, <2>2
<1> QED BY <1>1, <1>2

LEMMA NextNodeIs ==
  ASSUME NodeCount \in Nat \ {0}, NEW n \in Nat
  PROVE  n % NodeCount \in Nodes
<1>1. n % NodeCount \in 0 .. NodeCount - 1
  OBVIOUS
<1> QED BY <1>1 DEF Nodes

\* What an attempt can come to, and what it says of the node.
LEMMA OutcomeIs ==
  ASSUME NodesType, NodeCount \in Nat \ {0}, NEW q \in Queries
  PROVE  /\ Outcome(q) \in {"answered", "next", "refused", "unreachable"}
         /\ Outcome(q) # "answered" => NodeAt(q) \in Failing
         /\ Outcome(q) = "next" => q.k < NodeCount - 1
         /\ Outcome(q) \in {"refused", "unreachable"} => q.k = NodeCount - 1
         /\ NodeAt(q) \in Nodes
         /\ PreferredAfter(q) \in Nodes
<1>1. q.first \in Nat /\ q.k \in 0 .. NodeCount - 1 /\ q.first + q.k \in Nat /\ preferred + 1 \in Nat
  BY DEF Queries, NodesType, Nodes
<1>2. NodeAt(q) \in Nodes /\ (preferred + 1) % NodeCount \in Nodes
  BY <1>1, NextNodeIs DEF NodeAt
<1>3. health[NodeAt(q)] \in {"up", "refusing", "silent"}
  BY <1>2 DEF NodesType
<1>4. /\ Outcome(q) \in {"answered", "next", "refused", "unreachable"}
      /\ Outcome(q) # "answered" => health[NodeAt(q)] # "up"
      /\ Outcome(q) = "next" => q.k # NodeCount - 1
      /\ Outcome(q) \in {"refused", "unreachable"} => q.k = NodeCount - 1
  BY <1>3 DEF Outcome, IsLast
<1>5. PreferredAfter(q) \in Nodes
  BY <1>2, <1>4 DEF PreferredAfter, NodesType
<1> QED BY <1>1, <1>2, <1>4, <1>5 DEF Failing

LEMMA InitNodes ==
  ASSUME SiteInit PROVE NodesInv
<1>1. preferred = Remembered /\ Remembered \in Nodes
  BY MagiNodesAssumption DEF SiteInit, NodesInit, Nodes
<1>2. health = [n \in Nodes |-> "up"] /\ Failing = {}
  BY DEF SiteInit, NodesInit, Failing
<1>3. asked = [[a \in Askers |-> NoRequest] EXCEPT !["visit"] = Ask(Remembered)]
  BY DEF SiteInit, NothingAsked
<1>4. NoRequest \in Queries
  BY MagiNodesAssumption DEF NoRequest, Queries
<1>5. Ask(Remembered) \in Queries /\ TriedInTurn(Ask(Remembered))
  BY <1>1, <1>2, MagiNodesAssumption DEF Ask, Queries, TriedInTurn, Nodes
<1>6. probe \in [running : BOOLEAN, answers : SUBSET Nodes, failed : SUBSET Nodes]
  BY DEF SiteInit, NodesInit, NoProbe
<1> QED BY <1>1, <1>2, <1>3, <1>4, <1>5, <1>6 DEF NodesInv, NodesType

\* A query begins: nothing is tried yet.
LEMMA AskedNow ==
  ASSUME NodesType, NodeCount \in Nat \ {0}, NEW start \in Nodes
  PROVE  Ask(start) \in Queries /\ TriedInTurn(Ask(start))
BY DEF Ask, Queries, TriedInTurn, Nodes, Failing

\* The nodes stay as they are: one asker goes on with another query.
LEMMA OneAsks ==
  ASSUME NodesInv, NEW a \in Askers, NEW q \in Queries, q = NoRequest \/ TriedInTurn(q),
         asked' = [asked EXCEPT ![a] = q], preferred' \in Nodes, UNCHANGED <<health, probe>>
  PROVE  NodesInv'
<1>1. Failing' = Failing
  BY DEF Failing
<1>2. NodesType'
  BY DEF NodesInv, NodesType
<1>3. ASSUME NEW b \in Askers PROVE (asked[b] = NoRequest \/ TriedInTurn(asked[b]))'
  <2>1. asked'[b] = IF b = a THEN q ELSE asked[b]
    BY DEF NodesInv, NodesType
  <2>2. asked'[b] = NoRequest \/ (asked[b] = asked'[b] /\ TriedInTurn(asked[b])) \/ (q = asked'[b] /\ TriedInTurn(q))
    BY <2>1 DEF NodesInv
  <2> QED BY <2>2, <1>1, Zenon DEF TriedInTurn
<1> QED BY <1>2, <1>3, Zenon DEF NodesInv

LEMMA NextNodeNodes ==
  ASSUME NodesInv, NEW a \in Askers, NextNode(a) PROVE NodesInv'
<1>0. NodeCount \in Nat \ {0} /\ asked[a] \in Queries /\ NodesType
  BY MagiNodesAssumption DEF NodesInv, NodesType
<1>1. PICK q : q = [asked[a] EXCEPT !.k = @ + 1]
  OBVIOUS
<1>2. /\ asked' = [asked EXCEPT ![a] = q] /\ UNCHANGED <<preferred, health, probe>>
      /\ asked[a] # NoRequest /\ Outcome(asked[a]) = "next"
  BY <1>1 DEF NextNode, InFlight
<1>3. TriedInTurn(asked[a]) /\ preferred \in Nodes
  BY <1>2 DEF NodesInv, NodesType
<1>4. asked[a].k < NodeCount - 1 /\ NodeAt(asked[a]) \in asked[a].failed
  BY <1>0, <1>2, <1>3, OutcomeIs DEF TriedInTurn
<1>5. q \in Queries /\ q.first = asked[a].first /\ q.k = asked[a].k + 1 /\ q.failed = asked[a].failed
  BY <1>0, <1>1, <1>4 DEF Queries
<1>6. \A j \in 0 .. NodeCount - 1 : j < q.k => (q.first + j) % NodeCount \in q.failed
  <2> TAKE j \in 0 .. NodeCount - 1
  <2>1. CASE j < asked[a].k
    BY <2>1, <1>3, <1>5 DEF TriedInTurn
  <2>2. CASE j = asked[a].k
    BY <2>2, <1>4, <1>5 DEF NodeAt
  <2>3. asked[a].k \in Nat
    BY <1>0 DEF Queries
  <2> QED BY <2>1, <2>2, <2>3, <1>5
<1>7. TriedInTurn(q)
  BY <1>3, <1>5, <1>6 DEF TriedInTurn
<1> QED BY <1>2, <1>3, <1>5, <1>7, OneAsks

LEMMA OutageNodes ==
  ASSUME NodesInv, NEW n \in Nodes, NEW how \in {"refusing", "silent"}, Outage(n, how)
  PROVE  NodesInv'
<1>1. /\ health' = [health EXCEPT ![n] = how] /\ UNCHANGED preferred
      /\ asked' = [a \in Askers |-> IF asked[a] # NoRequest
                                    THEN [asked[a] EXCEPT !.failed = @ \cup {n}] ELSE NoRequest]
      /\ probe' = IF probe.running THEN [probe EXCEPT !.failed = @ \cup {n}] ELSE NoProbe
  BY DEF Outage, InFlight
<1>2. Failing' = Failing \cup {n}
  BY <1>1 DEF Failing, NodesInv, NodesType
<1>3. health' \in [Nodes -> {"up", "refusing", "silent"}]
  BY <1>1 DEF NodesInv, NodesType
<1>4. probe' \in [running : BOOLEAN, answers : SUBSET Nodes, failed : SUBSET Nodes]
  BY <1>1 DEF NodesInv, NodesType, NoProbe
<1>5. ASSUME NEW a \in Askers
      PROVE  asked'[a] \in Queries /\ (asked'[a] = NoRequest \/ TriedInTurn(asked[a])')
  <2>0. asked[a] \in Queries /\ (asked[a] = NoRequest \/ TriedInTurn(asked[a]))
    BY DEF NodesInv, NodesType
  <2>1. CASE asked[a] = NoRequest
    BY <2>0, <2>1, <1>1
  <2>2. CASE asked[a] # NoRequest
    <3>1. asked'[a] = [asked[a] EXCEPT !.failed = @ \cup {n}]
      BY <2>2, <1>1
    <3>2. /\ asked'[a] \in Queries /\ asked'[a].first = asked[a].first
          /\ asked'[a].k = asked[a].k /\ asked'[a].failed = asked[a].failed \cup {n}
      BY <2>0, <3>1 DEF Queries
    <3> QED BY <2>0, <2>2, <3>2, <1>2 DEF TriedInTurn
  <2> QED BY <2>1, <2>2
<1>6. asked' \in [Askers -> Queries]
  BY <1>1, <1>5
<1>7. NodesType'
  BY <1>1, <1>3, <1>4, <1>6 DEF NodesInv, NodesType
<1> QED BY <1>5, <1>7 DEF NodesInv

LEMMA RecoverNodes ==
  ASSUME NodesInv, NEW n \in Nodes, Recover(n) PROVE NodesInv'
<1>1. /\ health' = [health EXCEPT ![n] = "up"] /\ UNCHANGED <<preferred, asked>>
      /\ probe' = IF probe.running THEN [probe EXCEPT !.answers = @ \cup {n}] ELSE NoProbe
  BY DEF Recover
<1>2. Failing' \subseteq Failing
  BY <1>1 DEF Failing, NodesInv, NodesType
<1>3. NodesType'
  BY <1>1 DEF NodesInv, NodesType, NoProbe
<1>4. ASSUME NEW a \in Askers PROVE (asked[a] = NoRequest \/ TriedInTurn(asked[a]))'
  <2>1. asked[a] = NoRequest \/ TriedInTurn(asked[a])
    BY DEF NodesInv
  <2> QED BY <2>1, <1>1, <1>2 DEF TriedInTurn
<1> QED BY <1>3, <1>4 DEF NodesInv

LEMMA ProbeNodes ==
  ASSUME NodesInv, StartProbe \/ FinishProbe PROVE NodesInv'
<1>1. UNCHANGED <<health, asked>>
  BY DEF StartProbe, FinishProbe
<1>2. /\ preferred' \in Nodes
      /\ probe' \in [running : BOOLEAN, answers : SUBSET Nodes, failed : SUBSET Nodes]
  <2>1. CASE StartProbe
    <3>1. /\ probe' = [running |-> TRUE, answers |-> {n \in Nodes : health[n] # "silent"},
                       failed |-> Failing]
          /\ UNCHANGED preferred
      BY <2>1 DEF StartProbe
    <3>2. Failing \subseteq Nodes
      BY DEF Failing
    <3> QED BY <3>1, <3>2 DEF NodesInv, NodesType
  <2>2. CASE FinishProbe
    BY <2>2 DEF NodesInv, NodesType, FinishProbe, NoProbe
  <2> QED BY <2>1, <2>2
<1>3. NodesType'
  BY <1>1, <1>2 DEF NodesInv, NodesType
<1>4. ASSUME NEW a \in Askers PROVE (asked[a] = NoRequest \/ TriedInTurn(asked[a]))'
  <2>1. asked[a] = NoRequest \/ TriedInTurn(asked[a])
    BY DEF NodesInv
  <2> QED BY <2>1, <1>1 DEF TriedInTurn, Failing
<1> QED BY <1>3, <1>4 DEF NodesInv

LEMMA AskNodes ==
  ASSUME NodesInv,
         (\E a \in Callers : Refresh(a)) \/ \E who \in Accounts : SignInWithWallet(who)
  PROVE  NodesInv'
<1>1. PICK a \in Askers : /\ asked' = [asked EXCEPT ![a] = Ask(preferred)]
                          /\ UNCHANGED <<preferred, health, probe>>
  BY ChainStoreAssumption DEF Refresh, SignInWithWallet, StartRefresh, Send, envVars
<1>2. preferred \in Nodes /\ NodesType /\ NodeCount \in Nat \ {0}
  BY MagiNodesAssumption DEF NodesInv, NodesType
<1>3. Ask(preferred) \in Queries /\ TriedInTurn(Ask(preferred))
  BY <1>2, AskedNow
<1> QED BY <1>1, <1>2, <1>3, OneAsks

LEMMA ContinueNodes ==
  ASSUME NodesInv, NEW a \in Askers, Continue(a) PROVE NodesInv'
<1>0. NodeCount \in Nat \ {0} /\ asked[a] \in Queries /\ NodesType
  BY MagiNodesAssumption DEF NodesInv, NodesType
<1>1. UNCHANGED <<health, probe>>
  BY DEF Continue, envVars
<1>2. preferred' \in Nodes
  BY <1>0, OutcomeIs DEF Continue, ReadChain, RefreshEnds, Answers
<1>3. CASE ReadChain(a)
  <2>1. PICK q : q = Ask(preferred')
    OBVIOUS
  <2>2. asked' = [asked EXCEPT ![a] = q]
    <3>1. Failing' = Failing
      BY <1>1 DEF Failing
    <3> QED BY <1>3, <2>1, <3>1 DEF ReadChain, Send, Ask
  <2>3. q \in Queries /\ TriedInTurn(q)
    <3>1. PICK start : start = preferred'
      OBVIOUS
    <3> QED BY <1>0, <1>2, <2>1, <3>1, AskedNow
  <2> QED BY <1>1, <1>2, <2>2, <2>3, OneAsks
<1>4. CASE RefreshEnds(a)
  <2>1. asked' = [asked EXCEPT ![a] = NoRequest]
    BY <1>4 DEF RefreshEnds
  <2>2. NoRequest \in Queries
    BY <1>0 DEF NoRequest, Queries
  <2> QED BY <1>1, <1>2, <2>1, <2>2, OneAsks
<1> QED BY <1>3, <1>4 DEF Continue

LEMMA NodesStay ==
  ASSUME NodesInv, UNCHANGED <<preferred, health, probe, asked>> PROVE NodesInv'
BY DEF NodesInv, NodesType, TriedInTurn, Failing

LEMMA NextNodes ==
  ASSUME NodesInv, [SiteNext]_(siteVars)
  PROVE  NodesInv'
<1>1. CASE NodesStep
  BY <1>1, NextNodeNodes, ProbeNodes, RecoverNodes, OutageNodes DEF NodesStep
<1>2. CASE (\E a \in Callers : Refresh(a)) \/ \E who \in Accounts : SignInWithWallet(who)
  BY <1>2, AskNodes
<1>3. CASE \E a \in Askers : Continue(a)
  BY <1>3, ContinueNodes
<1>4. CASE SignOut \/ Land \/ UNCHANGED siteVars
  <2>1. UNCHANGED nodeVars
    BY <1>4 DEF SignOut, Land, siteVars
  <2> QED BY <2>1, NodesStay DEF nodeVars
<1> QED BY <1>1, <1>2, <1>3, <1>4 DEF SiteNext

LEMMA NodesAreTried ==
  ASSUME NodesInv PROVE EveryNodeIsTried
<1> SUFFICES ASSUME NEW a \in Askers, asked[a] # NoRequest,
                    Outcome(asked[a]) \in {"refused", "unreachable"}
             PROVE  asked[a].failed = Nodes
  BY DEF EveryNodeIsTried, InFlight
<1>0. NodeCount \in Nat \ {0} /\ asked[a] \in Queries /\ NodesType /\ TriedInTurn(asked[a])
  BY MagiNodesAssumption DEF NodesInv, NodesType
<1>1. asked[a].k = NodeCount - 1 /\ NodeAt(asked[a]) \in asked[a].failed
  BY <1>0, OutcomeIs DEF TriedInTurn
<1>2. \A j \in 0 .. NodeCount - 1 : (asked[a].first + j) % NodeCount \in asked[a].failed
  <2> TAKE j \in 0 .. NodeCount - 1
  <2>1. j < asked[a].k \/ j = asked[a].k
    BY <1>0, <1>1
  <2> QED BY <2>1, <1>0, <1>1 DEF TriedInTurn, NodeAt
<1>3. \A n \in Nodes : n \in asked[a].failed
  BY <1>0, <1>2, FullLap DEF TriedInTurn
<1> QED BY <1>0, <1>3 DEF Queries

(***************************************************************************)
(* A request gives up only if every node was failing at some time while it *)
(* ran, wherever other requests and probes moved the preferred node        *)
(* meanwhile (magiFetch), for any number of nodes and of readers.          *)
(***************************************************************************)
THEOREM NodesTried ==
  SiteSpec => []EveryNodeIsTried
<1>1. SiteInit => NodesInv
  BY InitNodes
<1>2. NodesInv /\ [SiteNext]_(siteVars) => NodesInv'
  BY NextNodes
<1>3. NodesInv => EveryNodeIsTried
  BY NodesAreTried
<1> QED BY <1>1, <1>2, <1>3, PTL DEF SiteSpec

-----------------------------------------------------------------------------
(* What one press of a button signs.                                       *)

IsChain(c) ==
  /\ c = [today |-> c.today, accDay |-> c.accDay, retired |-> c.retired,
          unpaid |-> c.unpaid, landed |-> c.landed]
  /\ c.today \in 0 .. Days /\ c.retired \in Nat

Drawn(c) == IF "swap" \in c.landed THEN Draw ELSE 0

\* A draw takes its credits for good.
MeterHolds(c, n) == n \in Nat /\ n + Drawn(c) <= Capacity

Payable(call) ==
  call.kind \in Kinds => call.limit + HbdDrawn(call.kind) <= meter

\* A vote costs no more than sizeRc's floor: 1.3 times what the dry run reports,
\* or six tenths of the table.
VoteIsCovered ==
  /\ Cost["vote"] \in Nat /\ Cost["vote"] <= RC_CEILING
  /\ \/ Cost["vote"] <= (13 * Gas["vote"] + 9) \div 10
     \/ Cost["vote"] <= (6 * RC_LIMITS["vote"] + 9) \div 10

\* The user's vote goes first, and its limit covers what it takes.
VoteGoesFirst(calls) == calls[1].kind = "vote" /\ calls[1].limit >= Cost["vote"]

BundleHolds ==
  /\ Len(press.calls) \in 1 .. 5 /\ DOMAIN press.calls = 1 .. Len(press.calls)
  /\ \A i \in 1 .. Len(press.calls) : press.calls[i].limit \in Nat
  /\ press.metered => \A i \in 1 .. Len(press.calls) : Payable(press.calls[i])
  /\ press.metered /\ press.op = "vote" /\ VoteIsCovered => VoteGoesFirst(press.calls)

WalletInv ==
  /\ IsChain(chain) /\ MeterHolds(chain, meter)
  /\ rc.state = "read" => rc.amount \in 0 .. meter
  /\ ahead.slices \in Int
  /\ press = [op |-> press.op, slices |-> press.slices, calls |-> press.calls,
              metered |-> press.metered]
  /\ press.slices \in Int /\ (press.op \notin PreCallOps => press.slices = 0)
  /\ phase # "idle" => press.op \in Todo
  /\ phase = "wallet" => BundleHolds

LEMMA DueIsNat ==
  ASSUME NEW d \in 0 .. Days + 1
  PROVE  DueBefore[d] \in Nat
<1>1. 0 .. (d - 1) \subseteq 0 .. Days /\ Days \in Nat
  BY SignerAssumption
<1>2. IsFiniteSet(0 .. (d - 1))
  BY <1>1, FS_Interval
<1>3. \A x \in 0 .. (d - 1) : Due[x] \in Nat
  BY <1>1, SignerAssumption
<1>4. Total(Due, 0 .. (d - 1)) \in Nat
  BY <1>2, <1>3, TotalIsNat
<1>5. DueBefore[d] = Total(Due, 0 .. (d - 1))
  BY DEF DueBefore
<1>6. Total(Due, 0 .. (d - 1)) = Total(Due, 0 .. (d - 1))
  BY DEF Total, Pairs, Total, Pairs, Cardinality, Cardinality
<1> QED BY <1>4, <1>5, <1>6

LEMMA WalkKeeps ==
  ASSUME NEW c, IsChain(c), NEW budget \in Nat
  PROVE  /\ IsChain(Walk(c, budget)) /\ Walk(c, budget).landed = c.landed
<1>1. c.today \in 0 .. Days + 1 /\ Days \in Nat
  BY SignerAssumption DEF IsChain
<1>2. DueBefore[c.today] \in Nat
  BY <1>1, DueIsNat
<1> DEFINE retired == Least(DueBefore[c.today], c.retired + budget)
<1>3. retired \in Nat
  BY <1>2 DEF Least, IsChain
<1>4. PICK day : Walk(c, budget) = [c EXCEPT !.retired = retired, !.accDay = day]
  BY DEF Walk
<1>5. Walk(c, budget) = [today |-> c.today, accDay |-> day, retired |-> retired,
                                unpaid |-> c.unpaid, landed |-> c.landed]
  <2> HIDE DEF retired
  <2> QED BY <1>4 DEF IsChain
<1> HIDE DEF retired
<1> QED BY <1>3, <1>5 DEF IsChain

LEMMA SlicesIsInt ==
  ASSUME IsChain(chain) PROVE Slices(chain) \in Int
<1>1. chain.today + 1 \in 0 .. Days + 1 /\ chain.retired \in Nat /\ MaxRetirePerWalk \in Nat \ {0}
      /\ MaxSlices \in Nat
  BY SignerAssumption, SMTT(60) DEF IsChain
<1>2. DueBefore[chain.today + 1] \in Nat
  BY <1>1, DueIsNat
<1>3. PICK a \in Int : a = DueBefore[chain.today + 1] - chain.retired
  BY <1>1, <1>2
<1>4. Ceil(a, MaxRetirePerWalk) \in Int
  BY <1>1 DEF Ceil
<1> QED BY <1>1, <1>3, <1>4 DEF Slices, Least

\* The five ways sizeRc ends, whatever the figures.
Verdict(run, metered, few, table, sized, tight, poor, room) ==
  CASE run = "unanswered" /\ metered /\ few -> [ok |-> FALSE, limit |-> 0, msg |-> "not enough credits"]
    [] run = "unanswered" /\ ~(metered /\ few) -> [ok |-> TRUE, limit |-> table, msg |-> ""]
    [] run \notin {"unanswered", "ok"} -> [ok |-> FALSE, limit |-> 0, msg |-> run]
    [] run = "ok" /\ metered /\ tight ->
         IF poor THEN [ok |-> FALSE, limit |-> 0, msg |-> "not enough credits"]
         ELSE [ok |-> TRUE, limit |-> room, msg |-> ""]
    [] run = "ok" /\ ~(metered /\ tight) -> [ok |-> TRUE, limit |-> sized, msg |-> ""]

LEMMA VerdictIs ==
  ASSUME NEW run, NEW metered \in BOOLEAN, NEW few \in BOOLEAN, NEW table, NEW sized,
         NEW tight \in BOOLEAN, NEW poor \in BOOLEAN, NEW room,
         Verdict(run, metered, few, table, sized, tight, poor, room).ok
  PROVE  LET limit == Verdict(run, metered, few, table, sized, tight, poor, room).limit
         IN  \/ run = "unanswered" /\ limit = table
             \/ run = "ok" /\ metered /\ tight /\ ~ poor /\ limit = room
             \/ run = "ok" /\ ~ (metered /\ tight) /\ limit = sized
<1>1. CASE run = "unanswered"
  BY <1>1 DEF Verdict
<1>2. CASE run = "ok" /\ metered /\ tight
  BY <1>2 DEF Verdict
<1>3. CASE run = "ok" /\ ~ (metered /\ tight)
  BY <1>3 DEF Verdict
<1>4. CASE run \notin {"unanswered", "ok"}
  BY <1>4 DEF Verdict
<1> QED BY <1>1, <1>2, <1>3, <1>4

\* What sizeRc grants is a number, within the reading, and enough for a vote.
LEMMA SizeIs ==
  ASSUME NEW kind \in Kinds, NEW run, NEW reading,
         reading.state = "read" => reading.amount \in Nat,
         SizeRc(kind, run, reading).ok
  PROVE  LET limit == SizeRc(kind, run, reading).limit
         IN  /\ limit \in Nat
             /\ run # "unanswered" /\ reading.state = "read" =>
                  limit + HbdDrawn(kind) <= reading.amount
             /\ run # "unanswered" /\ kind = "vote" /\ VoteIsCovered => limit >= Cost["vote"]
<1>0. PICK s : s = SizeRc(kind, run, reading)
  OBVIOUS
<1>a. s.ok
  BY <1>0
<1> DEFINE table == RC_LIMITS[kind]
           sized == Least(RC_CEILING, Most(table, RC_HEADROOM * Gas[kind]))
           tableFloor == IF kind = "advance" THEN 0 ELSE Ceil(6 * table, 10)
           floor == Most(Ceil(13 * Gas[kind], 10), tableFloor)
           room == Room(kind, reading.amount)
           metered == reading.state = "read"
<1>1. table \in Nat /\ Gas[kind] \in Nat /\ RC_CEILING \in Nat /\ Draw \in Nat /\ Margin \in Nat
  BY SignerAssumption
<1>2. sized \in Nat /\ (sized >= RC_CEILING \/ (sized >= table /\ sized >= 3 * Gas[kind]))
  BY <1>1 DEF Least, Most, RC_HEADROOM
<1>3. tableFloor \in Nat /\ (kind # "advance" => tableFloor = (6 * table + 9) \div 10)
  <2>1. 6 * table + 10 - 1 = 6 * table + 9 /\ (6 * table + 9) \div 10 \in Nat
    BY <1>1
  <2> QED BY <2>1 DEF Ceil
<1>4. /\ Ceil(13 * Gas[kind], 10) \in Nat
      /\ Ceil(13 * Gas[kind], 10) = (13 * Gas[kind] + 9) \div 10
  <2>1. 13 * Gas[kind] + 10 - 1 = 13 * Gas[kind] + 9 /\ (13 * Gas[kind] + 9) \div 10 \in Nat
    BY <1>1
  <2> QED BY <2>1 DEF Ceil
<1>5. floor \in Nat /\ floor >= tableFloor /\ floor >= (13 * Gas[kind] + 9) \div 10
  <2>1. PICK gas \in Nat : gas = Ceil(13 * Gas[kind], 10)
    BY <1>4
  <2>2. floor = Most(gas, tableFloor)
    BY <2>1
  <2>3. floor \in Nat /\ floor >= tableFloor /\ floor >= gas
    BY <1>3, <2>2 DEF Most
  <2> QED BY <1>4, <2>1, <2>3
<1>6. metered => room \in Int /\ room + HbdDrawn(kind) <= reading.amount
  BY <1>1 DEF Room, HbdDrawn
<1>7. \/ run = "unanswered" /\ s.limit = table
      \/ run = "ok" /\ metered /\ room < sized /\ floor <= room /\ s.limit = room
      \/ run = "ok" /\ ~ (metered /\ room < sized) /\ s.limit = sized
  <2> DEFINE few == reading.amount < table
             tight == room < sized
             poor == room < floor
  <2>1. s = Verdict(run, metered, few, table, sized, tight, poor, room)
    BY <1>0 DEF SizeRc, Verdict
  <2>2. metered \in BOOLEAN /\ few \in BOOLEAN /\ tight \in BOOLEAN /\ poor \in BOOLEAN
    OBVIOUS
  <2> HIDE DEF table, sized, tableFloor, floor, room, metered, few, tight, poor
  <2>3. \/ run = "unanswered" /\ s.limit = table
        \/ run = "ok" /\ metered /\ tight /\ ~ poor /\ s.limit = room
        \/ run = "ok" /\ ~ (metered /\ tight) /\ s.limit = sized
    BY <2>1, <2>2, <1>a, VerdictIs
  <2> QED BY <2>3, <1>5, <1>6 DEF tight, poor
<1>8. kind = "vote" /\ VoteIsCovered => floor >= Cost["vote"] /\ sized >= Cost["vote"]
  <2> SUFFICES ASSUME kind = "vote", VoteIsCovered PROVE floor >= Cost["vote"] /\ sized >= Cost["vote"]
    OBVIOUS
  <2>1. (6 * table + 9) \div 10 <= table /\ (13 * Gas[kind] + 9) \div 10 <= 3 * Gas[kind]
    BY <1>1
  <2>2. /\ Cost["vote"] \in Nat /\ Cost["vote"] <= RC_CEILING
        /\ Cost["vote"] <= (13 * Gas[kind] + 9) \div 10 \/ Cost["vote"] <= (6 * table + 9) \div 10
    BY DEF VoteIsCovered
  <2>3. tableFloor = (6 * table + 9) \div 10
    BY <1>3
  <2>4. PICK g, f \in Int : g = (13 * Gas[kind] + 9) \div 10 /\ f = (6 * table + 9) \div 10
    BY <1>1
  <2> HIDE DEF tableFloor, floor, sized, table
  <2>5. floor >= g /\ floor >= f /\ f <= table /\ g <= 3 * Gas[kind]
        /\ (Cost["vote"] <= g \/ Cost["vote"] <= f)
    BY <1>5, <2>1, <2>2, <2>3, <2>4
  <2>6. PICK c \in Nat : c = Cost["vote"]
    BY <2>2
  <2>7. PICK gas \in Nat : gas = Gas[kind]
    BY <1>1
  <2>8. c <= floor /\ c <= RC_CEILING /\ (c <= table \/ c <= 3 * gas)
    <3>1. c <= g \/ c <= f
      BY <2>5, <2>6
    <3>2. g <= 3 * gas /\ f <= table /\ g <= floor /\ f <= floor
      BY <2>5, <2>7
    <3>3. floor \in Int /\ table \in Int /\ c <= RC_CEILING /\ RC_CEILING \in Int
      BY <1>1, <1>5, <2>2, <2>6
    <3>4. CASE c <= g
      <4>1. c <= floor /\ c <= 3 * gas
        BY <3>2, <3>3, <3>4
      <4> QED BY <3>3, <4>1
    <3>5. CASE c <= f
      <4>1. c <= floor /\ c <= table
        BY <3>2, <3>3, <3>5
      <4> QED BY <3>3, <4>1
    <3> QED BY <3>1, <3>4, <3>5
  <2>9. sized \in Nat /\ (sized >= RC_CEILING \/ (sized >= table /\ sized >= 3 * gas))
    BY <1>2, <2>7
  <2>10. sized >= c
    BY <1>1, <2>8, <2>9
  <2> QED BY <2>6, <2>8, <2>10
<1> HIDE DEF table, sized, tableFloor, floor, room, metered
<1>9. s.limit \in Nat
  BY <1>1, <1>2, <1>5, <1>6, <1>7
<1>10. run # "unanswered" /\ metered => s.limit + HbdDrawn(kind) <= reading.amount
  <2>1. HbdDrawn(kind) \in Nat
    BY <1>1 DEF HbdDrawn
  <2> QED BY <2>1, <1>1, <1>2, <1>5, <1>6, <1>7 DEF metered
<1>11. run # "unanswered" /\ kind = "vote" /\ VoteIsCovered => s.limit >= Cost["vote"]
  BY <1>2, <1>5, <1>6, <1>7, <1>8 DEF VoteIsCovered
<1> QED BY <1>0, <1>9, <1>10, <1>11 DEF metered

LEMMA SizedFor ==
  ASSUME NEW call, call.kind \in Kinds,
         NEW reading, reading.state = "read" => reading.amount \in 0 .. meter, meter \in Nat,
         NEW answered \in BOOLEAN,
         NEW s, s = SizeRc(call.kind, IF answered THEN DryRun(call, reading)
                                             ELSE "unanswered", reading), s.ok
  PROVE  /\ s.limit \in Nat
         /\ answered /\ reading.state = "read" => s.limit + HbdDrawn(call.kind) <= meter
         /\ answered /\ call.kind = "vote" /\ VoteIsCovered => s.limit >= Cost["vote"]
<1>1. PICK run : run = IF answered THEN DryRun(call, reading) ELSE "unanswered"
  OBVIOUS
<1>2. DryRun(call, reading) # "unanswered"
  <2>1. Answer(chain, call) # "unanswered"
    BY DEF Answer
  <2> QED BY <2>1 DEF DryRun
<1>3. answered => run # "unanswered"
  BY <1>1, <1>2
<1>4. SizeRc(call.kind, run, reading).ok /\ s = SizeRc(call.kind, run, reading)
  BY <1>1
<1>5. reading.state = "read" => reading.amount \in Nat /\ reading.amount <= meter
  OBVIOUS
<1>6. /\ s.limit \in Nat
      /\ run # "unanswered" /\ reading.state = "read" =>
           s.limit + HbdDrawn(call.kind) <= reading.amount
      /\ run # "unanswered" /\ call.kind = "vote" /\ VoteIsCovered => s.limit >= Cost["vote"]
  BY <1>4, <1>5, SizeIs
<1>7. HbdDrawn(call.kind) \in Nat
  BY SignerAssumption DEF HbdDrawn
<1> HIDE DEF VoteIsCovered
<1> QED BY <1>3, <1>5, <1>6, <1>7

\* Up to k copies of one call.
LEMMA CopiesOf ==
  ASSUME NEW n \in Int, NEW G, NEW e, n > 0 => e \in G
  PROVE  /\ [i \in 1 .. n |-> e] \in Seq(G)
         /\ Len([i \in 1 .. n |-> e]) = IF n > 0 THEN n ELSE 0
<1>1. CASE n > 0
  BY <1>1
<1>2. CASE ~ n > 0
  <2>1. [i \in 1 .. n |-> e] = [i \in 1 .. 0 |-> e]
    BY <1>2
  <2>2. [i \in 1 .. 0 |-> e] \in Seq(G) /\ Len([i \in 1 .. 0 |-> e]) = 0
    OBVIOUS
  <2> QED BY <1>2, <2>1, <2>2
<1> QED BY <1>1, <1>2

\* At most five calls, with the user's among them, leave four before it.
LEMMA BeforeTheCall ==
  ASSUME NEW G, NEW first \in Seq(G), Len(first) \in {0, 1}, NEW advs \in Seq(G),
         NEW n \in Int, n <= 4 - Len(first), Len(advs) = IF n > 0 THEN n ELSE 0
  PROVE  /\ first \o advs \in Seq(G) /\ Len(first \o advs) <= 4
         /\ first = <<>> /\ n <= 0 => first \o advs = <<>>
<1>2. Len(advs) = IF n > 0 THEN n ELSE 0
  OBVIOUS
<1>3. PICK pre : pre = first \o advs
  OBVIOUS
<1>4. first \o advs \in Seq(G) /\ Len(first \o advs) = Len(first) + Len(advs)
  BY ConcatProperties
<1>5. pre \in Seq(G) /\ Len(pre) = Len(first) + Len(advs)
  BY <1>3, <1>4
<1>6. Len(pre) <= 4
  <2>1. PICK k \in {0, 1} : k = Len(first)
    OBVIOUS
  <2>2. PICK m : m = Len(advs)
    OBVIOUS
  <2>3. m = (IF n > 0 THEN n ELSE 0) /\ n <= 4 - k /\ Len(pre) = k + m
    BY <1>2, <1>5, <2>1, <2>2, Zenon
  <2>4. k + m <= 4
    BY <2>3
  <2> QED BY <2>3, <2>4, Zenon
<1>7. ASSUME first = <<>>, n <= 0 PROVE pre = <<>>
  <2>1. Len(pre) = 0
    BY <1>2, <1>5, <1>7
  <2> QED BY <1>5, <2>1, EmptySeq
<1> QED BY <1>3, <1>5, <1>6, <1>7

\* A call between what goes before and what rides along.
LEMMA AroundTheCall ==
  ASSUME NEW G, NEW pre \in Seq(G), Len(pre) <= 4, NEW call \in G,
         NEW r1 \in Seq(G), NEW r2 \in Seq(G), Len(r1) \in {0, 1}, Len(r2) \in {0, 1},
         pre = <<>> \/ (r1 = <<>> /\ r2 = <<>>)
  PROVE  LET calls == (pre \o <<call>>) \o (r1 \o r2)
         IN  /\ calls \in Seq(G) /\ Len(calls) \in 1 .. 5
             /\ pre = <<>> => calls[1] = call
<1>1. PICK side : side = r1 \o r2
  OBVIOUS
<1>2. r1 \o r2 \in Seq(G) /\ Len(r1 \o r2) = Len(r1) + Len(r2)
  BY ConcatProperties
<1>3. side \in Seq(G) /\ Len(side) \in 0 .. 2 /\ (r1 = <<>> /\ r2 = <<>> => Len(side) = 0)
  BY <1>1, <1>2
<1>4. <<call>> \in Seq(G) /\ Len(<<call>>) = 1 /\ <<call>>[1] = call
  OBVIOUS
<1>5. PICK most : most = pre \o <<call>>
  OBVIOUS
<1>6. /\ pre \o <<call>> \in Seq(G) /\ Len(pre \o <<call>>) = Len(pre) + 1
      /\ (pre \o <<call>>)[1] = IF 1 <= Len(pre) THEN pre[1] ELSE <<call>>[1 - Len(pre)]
  BY <1>4, ConcatProperties
<1>7. most \in Seq(G) /\ Len(most) = Len(pre) + 1 /\ (pre = <<>> => most[1] = call)
  BY <1>4, <1>5, <1>6
<1>8. PICK calls : calls = most \o side
  OBVIOUS
<1>9. /\ most \o side \in Seq(G) /\ Len(most \o side) = Len(most) + Len(side)
      /\ 1 <= Len(most) => (most \o side)[1] = most[1]
  BY <1>3, <1>7, ConcatProperties
<1>10. calls \in Seq(G) /\ Len(calls) = Len(pre) + 1 + Len(side) /\ calls[1] = most[1]
  BY <1>7, <1>8, <1>9
<1>11. Len(calls) \in 1 .. 5
  <2>1. PICK k : k = Len(pre)
    OBVIOUS
  <2>2. k \in Nat /\ k <= 4
    BY <2>1, LenProperties
  <2>3. k = 0 \/ Len(side) = 0
    BY <1>3, <2>1
  <2>4. PICK m : m = Len(side)
    OBVIOUS
  <2>5. m \in 0 .. 2 /\ (k = 0 \/ m = 0) /\ Len(calls) = k + 1 + m
    BY <1>3, <1>10, <2>1, <2>3, <2>4
  <2> QED BY <2>2, <2>5
<1> QED BY <1>1, <1>5, <1>7, <1>8, <1>10, <1>11

\* What goes to the wallet: its length, its limits, and what it starts with.
LEMMA SubmitIs ==
  ASSUME NEW op \in Todo, NEW slices \in Int,
         op \notin PreCallOps => slices = 0,
         NEW reading, reading.state = "read" => reading.amount \in 0 .. meter, meter \in Nat,
         NEW answered \in BOOLEAN,
         Submit(op, slices, reading, answered) # <<>>
  PROVE  LET calls == Submit(op, slices, reading, answered)
         IN  /\ Len(calls) \in 1 .. 5 /\ DOMAIN calls = 1 .. Len(calls)
             /\ \A i \in 1 .. Len(calls) : calls[i].limit \in Nat
             /\ answered /\ reading.state = "read" => \A i \in 1 .. Len(calls) : Payable(calls[i])
             /\ answered /\ op = "vote" /\ VoteIsCovered => VoteGoesFirst(calls)
<1> DEFINE Sized(c)   == SizeRc(c.kind, IF answered THEN DryRun(c, reading)
                                              ELSE "unanswered", reading)
           allowance == IF op \in TOKEN_DEBIT_OPS
                        THEN <<Call("increaseAllowance", ALLOWANCE_RC)>> ELSE <<>>
           preSlots  == HiveCustomJsonPerBlock - 1 - Len(allowance)
           preWanted == Least(slices, preSlots)
           advance   == Sized(Call("advance", 0))
           user      == Sized(Call(op, 0))
           n         == IF advance.ok THEN preWanted ELSE 0
           adv       == Call("advance", advance.limit)
           pre       == allowance \o [i \in 1 .. n |-> adv]
           Payout(p) == [Call("payout", 0) EXCEPT !.post = p]
           wanted    == IF op \in SideCallOps
                        THEN SubSeq(Posts, 1, Least(Len(Posts),
                                                Least(MaxSideCalls, preSlots - preWanted)))
                        ELSE <<>>
           Ride(i)   == IF i <= Len(wanted) /\ Sized(Payout(wanted[i])).ok
                        THEN <<[Payout(wanted[i]) EXCEPT !.limit = Sized(Payout(wanted[i])).limit]>>
                        ELSE <<>>
           head      == Call(op, user.limit)
           Fine(c)   == c.limit \in Nat /\ (answered /\ reading.state = "read" => Payable(c))
           All       == {Call("increaseAllowance", ALLOWANCE_RC), adv, head,
                         [Payout(wanted[1]) EXCEPT !.limit = Sized(Payout(wanted[1])).limit],
                         [Payout(wanted[2]) EXCEPT !.limit = Sized(Payout(wanted[2])).limit]}
           G         == {c \in All : Fine(c)}
<1>1. Submit(op, slices, reading, answered)
        = IF user.ok THEN Bundle(pre, head, Ride(1) \o Ride(2))
          ELSE IF AsksForAdvance(user.msg) THEN pre ELSE <<>>
  BY Zenon DEF Submit
<1>2. op \in Kinds /\ "advance" \in Kinds /\ "payout" \in Kinds
  BY SignerAssumption DEF Kinds
<1>3. \A kind, limit : Call(kind, limit).kind = kind /\ Call(kind, limit).limit = limit
  BY DEF Call
<1>4. \A c : c.kind \in Kinds /\ Sized(c).ok =>
               /\ Sized(c).limit \in Nat
               /\ answered /\ reading.state = "read" => Sized(c).limit + HbdDrawn(c.kind) <= meter
               /\ answered /\ c.kind = "vote" /\ VoteIsCovered => Sized(c).limit >= Cost["vote"]
  BY SizedFor
<1>5. advance.ok => adv \in G
  <2>1. advance.ok => advance.limit \in Nat
                      /\ (answered /\ reading.state = "read" => advance.limit + HbdDrawn("advance") <= meter)
    BY <1>2, <1>3, <1>4, Zenon
  <2> HIDE DEF advance
  <2> QED BY <1>3, <2>1, Zenon DEF Payable
<1>6. user.ok => head \in G
  <2>1. user.ok => user.limit \in Nat
                   /\ (answered /\ reading.state = "read" => user.limit + HbdDrawn(op) <= meter)
    BY <1>2, <1>3, <1>4, Zenon
  <2> HIDE DEF user
  <2> QED BY <1>3, <2>1, Zenon DEF Payable
<1>7. \A i \in {1, 2} : Ride(i) \in Seq(G) /\ Len(Ride(i)) \in {0, 1}
  <2> TAKE i \in {1, 2}
  <2>1. PICK p : p = Payout(wanted[i])
    OBVIOUS
  <2>2. p.kind = "payout"
    BY <2>1 DEF Call
  <2>3. PICK c : c = [p EXCEPT !.limit = Sized(p).limit]
    OBVIOUS
  <2>4. c.kind = "payout" /\ c.limit = Sized(p).limit
    BY <2>1, <2>3 DEF Call
  <2>5. c \in All
    BY <2>1, <2>3
  <2>6. Sized(p).ok => c \in G
    <3>1. Sized(p).ok => c.limit \in Nat
                        /\ (answered /\ reading.state = "read" => c.limit + HbdDrawn(c.kind) <= meter)
      BY <1>2, <1>4, <2>2, <2>4, Zenon
    <3> QED BY <2>5, <3>1, Zenon DEF Payable
  <2>7. Ride(i) = IF i <= Len(wanted) /\ Sized(p).ok THEN <<c>> ELSE <<>>
    BY <2>1, <2>3
  <2> HIDE DEF Ride, G, Sized
  <2> QED BY <2>6, <2>7
<1>8. op # "vote" => \A i \in {1, 2} : Ride(i) = <<>>
  <2>1. op # "vote" => wanted = <<>>
    BY DEF SideCallOps
  <2> HIDE DEF wanted, Sized
  <2> QED BY <2>1
<1>9. allowance \in Seq(G) /\ Len(allowance) \in {0, 1} /\ (op = "vote" => allowance = <<>>)
  <2>1. Call("increaseAllowance", ALLOWANCE_RC) \in G
    <3>1. "increaseAllowance" \notin Kinds /\ ALLOWANCE_RC \in Nat
      BY DEF Kinds, ALLOWANCE_RC
    <3>2. Fine(Call("increaseAllowance", ALLOWANCE_RC))
      <4>1. Call("increaseAllowance", ALLOWANCE_RC).limit \in Nat
        BY <3>1 DEF Call
      <4>2. Call("increaseAllowance", ALLOWANCE_RC).kind \notin Kinds
        BY <3>1 DEF Call
      <4> QED BY <4>1, <4>2, Zenon DEF Payable
    <3>3. Call("increaseAllowance", ALLOWANCE_RC) \in All
      OBVIOUS
    <3> HIDE DEF All, Fine
    <3> QED BY <3>2, <3>3
  <2> HIDE DEF G
  <2> QED BY <2>1 DEF TOKEN_DEBIT_OPS
<1>10. n \in Int /\ n <= 4 - Len(allowance) /\ (op = "vote" => n <= 0) /\ (n > 0 => advance.ok)
  <2>1. op = "vote" => slices = 0
    BY DEF PreCallOps
  <2>2. PICK len \in {0, 1} : len = Len(allowance)
    BY <1>9
  <2>3. PICK least : least = Least(slices, 4 - len)
    OBVIOUS
  <2>4. least \in Int /\ least <= 4 - len /\ (slices = 0 => least = 0)
    BY <2>2, <2>3 DEF Least
  <2>5. HiveCustomJsonPerBlock - 1 - Len(allowance) = 4 - len
    BY <2>2 DEF HiveCustomJsonPerBlock
  <2>6. n = IF advance.ok THEN least ELSE 0
    BY <2>3, <2>5
  <2> HIDE DEF n, advance, allowance
  <2>7. n \in Int /\ n <= 4 - len
    <3>1. n = least \/ n = 0
      BY <2>6
    <3>2. PICK k : k = n
      OBVIOUS
    <3>3. k \in Int /\ k <= 4 - len
      BY <2>4, <3>1, <3>2
    <3> QED BY <3>2, <3>3
  <2>8. (op = "vote" => n <= 0) /\ (n > 0 => advance.ok)
    BY <2>1, <2>4, <2>6
  <2> QED BY <2>2, <2>7, <2>8
<1> HIDE DEF Sized, allowance, preSlots, preWanted, advance, user, n, adv, Payout, wanted, Ride, head, All, G
<1>11. pre \in Seq(G) /\ Len(pre) <= 4 /\ (op = "vote" => pre = <<>>)
  <2>1. PICK first : first = allowance
    OBVIOUS
  <2>2. PICK k : k = n
    OBVIOUS
  <2>3. first \in Seq(G) /\ Len(first) \in {0, 1} /\ (op = "vote" => first = <<>>)
    BY <1>9, <2>1, Zenon
  <2>4. k \in Int /\ k <= 4 - Len(first) /\ (op = "vote" => k <= 0) /\ (k > 0 => adv \in G)
    BY <1>5, <1>10, <2>1, <2>2, Zenon
  <2>a. Len(first) \in {0, 1} /\ k <= 4 - Len(first) /\ (k > 0 => adv \in G)
    BY <2>3, <2>4, Zenon
  <2>b. first \in Seq(G) /\ k \in Int
    BY <2>3, <2>4, Zenon
  <2>5. PICK advs : advs = [i \in 1 .. k |-> adv]
    OBVIOUS
  <2>c. advs \in Seq(G) /\ Len(advs) = IF k > 0 THEN k ELSE 0
    BY <2>a, <2>b, <2>5, CopiesOf
  <2>6. /\ first \o advs \in Seq(G) /\ Len(first \o advs) <= 4
        /\ first = <<>> /\ k <= 0 => first \o advs = <<>>
    BY <2>a, <2>b, <2>c, BeforeTheCall
  <2>7. pre = first \o advs
    BY <2>1, <2>2, <2>5, Zenon
  <2> HIDE DEF pre
  <2> QED BY <2>3, <2>4, <2>6, <2>7, Zenon
<1> HIDE DEF pre
<1>12. user.ok => LET calls == (pre \o <<head>>) \o (Ride(1) \o Ride(2))
                  IN  /\ calls \in Seq(G) /\ Len(calls) \in 1 .. 5
                      /\ pre = <<>> => calls[1] = head
  <2>1. /\ Ride(1) \in Seq(G) /\ Len(Ride(1)) \in {0, 1}
        /\ Ride(2) \in Seq(G) /\ Len(Ride(2)) \in {0, 1}
    BY <1>7
  <2>2. pre = <<>> \/ (Ride(1) = <<>> /\ Ride(2) = <<>>)
    BY <1>8, <1>11
  <2>3. pre \in Seq(G) /\ Len(pre) <= 4
    BY <1>11
  <2>4. PICK r1, r2 : r1 = Ride(1) /\ r2 = Ride(2)
    OBVIOUS
  <2> QED BY <1>6, <2>1, <2>2, <2>3, <2>4, AroundTheCall
<1>13. user.ok => Submit(op, slices, reading, answered) = (pre \o <<head>>) \o (Ride(1) \o Ride(2))
  BY <1>1 DEF Bundle
<1>14. ~ user.ok => Submit(op, slices, reading, answered) = pre /\ pre # <<>>
  <2>1. ~ user.ok => Submit(op, slices, reading, answered) \in {pre, <<>>}
    BY <1>1
  <2> QED BY <2>1
<1>15. PICK calls : calls = Submit(op, slices, reading, answered)
  OBVIOUS
<1>16. calls \in Seq(G) /\ Len(calls) \in 1 .. 5
  <2>1. CASE user.ok
    BY <1>12, <1>13, <1>15, <2>1, Zenon
  <2>2. CASE ~ user.ok
    <3>1. calls = pre /\ calls # <<>>
      BY <1>14, <1>15, <2>2
    <3>2. calls \in Seq(G) /\ Len(calls) <= 4 /\ Len(calls) \in Nat
      BY <1>11, <3>1, LenProperties
    <3>3. Len(calls) # 0
      BY <3>1, <3>2, EmptySeq
    <3>4. PICK k : k = Len(calls)
      OBVIOUS
    <3>5. k \in Nat /\ k <= 4 /\ k # 0
      BY <3>2, <3>3, <3>4, Zenon
    <3>6. k \in 1 .. 5
      BY <3>5
    <3> QED BY <3>2, <3>4, <3>6
  <2> QED BY <2>1, <2>2
<1>17. \A i \in 1 .. Len(calls) : calls[i] \in G
  BY <1>16
<1>18. \A i \in 1 .. Len(calls) : calls[i].limit \in Nat
         /\ (answered /\ reading.state = "read" => Payable(calls[i]))
  BY <1>17, Zenon DEF G
<1>19. answered /\ op = "vote" /\ VoteIsCovered => VoteGoesFirst(calls)
  <2> SUFFICES ASSUME answered, op = "vote", VoteIsCovered PROVE VoteGoesFirst(calls)
    OBVIOUS
  <2>1. user.ok /\ pre = <<>>
    BY <1>11, <1>14
  <2>2. calls[1] = head
    BY <1>12, <1>13, <1>15, <2>1, Zenon
  <2>3. user.limit >= Cost["vote"]
    <3>1. Call(op, 0).kind = "vote" /\ user = Sized(Call(op, 0))
      BY <1>3 DEF user
    <3> HIDE DEF VoteIsCovered
    <3> QED BY <1>2, <1>4, <2>1, <3>1
  <2> QED BY <1>3, <2>2, <2>3 DEF VoteGoesFirst, head
<1>20. DOMAIN calls = 1 .. Len(calls)
  BY <1>16
<1> QED BY <1>15, <1>16, <1>18, <1>19, <1>20

\* The five ways a call can leave the chain, whatever they amount to.
WayOut(kind, walked, paid, walkedAndDone, done, same) ==
  CASE kind = "advance" -> walked
    [] kind = "payout" -> paid
    [] kind \in PreCallOps -> walkedAndDone
    [] kind \in Todo \ PreCallOps -> done
    [] OTHER -> same

LEMMA WaysOut ==
  ASSUME NEW kind, NEW walked, NEW paid, NEW walkedAndDone, NEW done, NEW same,
         NEW e, e = WayOut(kind, walked, paid, walkedAndDone, done, same)
  PROVE  \/ e = walked /\ kind = "advance"
         \/ e = paid /\ kind = "payout"
         \/ e = walkedAndDone /\ kind \in PreCallOps
         \/ e = done /\ kind \in Todo \ PreCallOps
         \/ e = same /\ kind \notin Todo
<1>1. "advance" \notin Todo /\ "payout" \notin Todo
  BY SignerAssumption
<1>2. kind = "advance" => e = walked
  BY <1>1 DEF WayOut, PreCallOps
<1>3. kind = "payout" => e = paid
  BY <1>1 DEF WayOut, PreCallOps
<1>4. kind \in PreCallOps => e = walkedAndDone
  BY <1>1 DEF WayOut, PreCallOps
<1>5. kind \in Todo /\ kind \notin PreCallOps => e = done
  BY <1>1 DEF WayOut, PreCallOps
<1>6. kind \notin {"advance", "payout"} /\ kind \notin PreCallOps /\ kind \notin Todo => e = same
  BY DEF WayOut, PreCallOps
<1>7. CASE kind \in PreCallOps
  BY <1>4, <1>7
<1>8. CASE kind \notin PreCallOps
  BY <1>2, <1>3, <1>5, <1>6, <1>8
<1> QED
  BY <1>7, <1>8

\* What a call that runs leaves of the chain, and what has landed.
LEMMA EffectKeeps ==
  ASSUME NEW c, IsChain(c), NEW call
  PROVE  LET e == Effect(c, call)
         IN  /\ IsChain(e) /\ c.landed \subseteq e.landed
             /\ "swap" \in e.landed => "swap" \in c.landed \/ call.kind = "swap"
             /\ call.kind = "vote" /\ "vote" \in Todo => "vote" \in e.landed
<1> DEFINE Lands(d, kind) == [d EXCEPT !.landed = d.landed \cup {kind}]
<1>1. \A b \in Nat : IsChain(Walk(c, b)) /\ Walk(c, b).landed = c.landed
  BY WalkKeeps
<1>2. PICK push : push = Walk(c, MaxRetirePerWalk)
  OBVIOUS
<1>3. PICK walk : walk = Walk(c, UserRetireBudget)
  OBVIOUS
<1>4. PICK paid : paid = [c EXCEPT !.unpaid = c.unpaid \ {call.post}]
  OBVIOUS
<1>5. PICK kind : kind = call.kind
  OBVIOUS
<1>6. Effect(c, call) = WayOut(kind, push, paid, Lands(walk, kind), Lands(c, kind), c)
  BY <1>2, <1>3, <1>4, <1>5, Zenon DEF Effect, WayOut
<1>7. IsChain(push) /\ push.landed = c.landed /\ IsChain(walk) /\ walk.landed = c.landed
  BY <1>1, <1>2, <1>3, SignerAssumption
<1>8. IsChain(paid) /\ paid.landed = c.landed
  BY <1>4 DEF IsChain
<1>9. PICK later : later = Lands(walk, kind)
  OBVIOUS
<1>10. IsChain(later) /\ later.landed = c.landed \cup {kind}
  BY <1>7, <1>9 DEF IsChain
<1>11. PICK now : now = Lands(c, kind)
  OBVIOUS
<1>12. IsChain(now) /\ now.landed = c.landed \cup {kind}
  BY <1>11 DEF IsChain
<1>13. PICK e : e = WayOut(kind, push, paid, later, now, c)
  OBVIOUS
<1>14. e = Effect(c, call)
  BY <1>6, <1>9, <1>11, <1>13, Zenon
<1> HIDE DEF Lands, IsChain
<1>15. \/ e = push /\ kind = "advance"
       \/ e = paid /\ kind = "payout"
       \/ e = later /\ kind \in PreCallOps
       \/ e = now /\ kind \in Todo \ PreCallOps
       \/ e = c /\ kind \notin Todo
  BY <1>13, WaysOut
<1>16. IsChain(e) /\ c.landed \subseteq e.landed
  BY <1>7, <1>8, <1>10, <1>12, <1>15
<1>17. "swap" \in e.landed => "swap" \in c.landed \/ kind = "swap"
  BY <1>7, <1>8, <1>10, <1>12, <1>15
<1>18. kind = "vote" /\ "vote" \in Todo => "vote" \in e.landed
  BY <1>10, <1>12, <1>15
<1> QED BY <1>5, <1>14, <1>16, <1>17, <1>18, Zenon

\* One call of a bundle: what it leaves of the account and of the chain.
LEMMA ExecuteKeeps ==
  ASSUME NEW s, IsChain(s.chain), MeterHolds(s.chain, s.meter),
         NEW call, call.limit \in Nat
  PROVE  LET r == Execute(s, call)
         IN  /\ IsChain(r.chain) /\ MeterHolds(r.chain, r.meter)
             /\ s.chain.landed \subseteq r.chain.landed
             /\ call.kind = "vote" /\ "vote" \in Todo
                /\ call.limit >= Cost["vote"] /\ call.limit <= s.meter => "vote" \in r.chain.landed
<1>1. PICK r : r = Execute(s, call)
  OBVIOUS
<1> DEFINE drawn == HbdDrawn(call.kind)
           runs  == /\ call.limit + drawn <= s.meter
                    /\ call.limit >= Cost[call.kind]
                    /\ call.kind \in TOKEN_DEBIT_OPS => s.granted
                    /\ Answer(s.chain, call) = "ok"
<1>2. /\ r.chain = IF runs THEN Effect(s.chain, call) ELSE s.chain
      /\ r.meter = Most(0, s.meter - call.limit - IF runs THEN drawn ELSE 0)
  BY <1>1 DEF Execute
<1>3. Draw \in Nat /\ drawn \in Nat /\ (call.kind = "swap" => drawn = Draw)
      /\ (call.kind = "vote" => drawn = 0)
  BY SignerAssumption DEF HbdDrawn, HBD_DRAW_OPS
<1>4. PICK e : e = Effect(s.chain, call)
  OBVIOUS
<1>5. /\ IsChain(e) /\ s.chain.landed \subseteq e.landed
      /\ "swap" \in e.landed => "swap" \in s.chain.landed \/ call.kind = "swap"
      /\ call.kind = "vote" /\ "vote" \in Todo => "vote" \in e.landed
  BY <1>4, EffectKeeps
<1>6. call.kind = "vote" => call.kind \notin TOKEN_DEBIT_OPS /\ Answer(s.chain, call) = "ok"
  BY DEF TOKEN_DEBIT_OPS, Answer
<1>7. runs => call.limit + drawn <= s.meter
  OBVIOUS
<1>8. call.kind = "vote" /\ call.limit >= Cost["vote"] /\ call.limit <= s.meter => runs
  BY <1>3, <1>6
<1> HIDE DEF drawn, runs
<1>9. s.meter \in Nat /\ s.meter + Drawn(s.chain) <= Capacity /\ Capacity \in Nat
  BY SignerAssumption DEF MeterHolds
<1>10. CASE runs
  <2>1. r.chain = e
    BY <1>2, <1>4, <1>10
  <2>a. PICK m \in Nat : m = s.meter
    BY <1>9
  <2>b. PICK d \in Nat : d = drawn
    BY <1>3
  <2>c. PICK l \in Nat : l = call.limit
    OBVIOUS
  <2>d. r.meter = Most(0, m - l - d) /\ l + d <= m
    BY <1>2, <1>7, <1>10, <2>a, <2>b, <2>c
  <2>2. r.meter = m - l - d /\ r.meter \in Nat
    BY <2>d DEF Most
  <2>e. m + Drawn(s.chain) <= Capacity /\ Drawn(s.chain) \in Nat
    BY <1>3, <1>9, <2>a DEF Drawn
  <2>f. Drawn(e) = Drawn(s.chain) \/ (Drawn(e) = d /\ Drawn(e) = Draw /\ Drawn(s.chain) = 0)
    BY <1>3, <1>5, <2>b DEF Drawn
  <2>3. r.meter + Drawn(e) <= Capacity
    <3>1. CASE Drawn(e) = Drawn(s.chain)
      BY <1>9, <2>2, <2>d, <2>e, <3>1
    <3>2. CASE Drawn(e) = d /\ Drawn(s.chain) = 0
      BY <1>9, <2>2, <2>d, <2>e, <3>2
    <3> QED BY <2>f, <3>1, <3>2
  <2> QED BY <1>1, <1>5, <2>1, <2>2, <2>3 DEF MeterHolds
<1>11. CASE ~ runs
  <2>1. r.chain = s.chain
    BY <1>2, <1>11
  <2>2. r.meter = Most(0, s.meter - call.limit)
    BY <1>2, <1>9, <1>11
  <2>3. r.meter \in Nat /\ r.meter <= s.meter
    BY <1>9, <2>2 DEF Most
  <2>4. Drawn(s.chain) \in Nat
    BY <1>3 DEF Drawn
  <2>5. r.meter + Drawn(s.chain) <= Capacity
    BY <1>9, <2>3, <2>4
  <2> QED BY <1>1, <1>8, <1>11, <2>1, <2>3, <2>5 DEF MeterHolds
<1> QED BY <1>10, <1>11

\* The table of a bundle's states, and that it exists.
IsRun(p, s, calls, n) ==
  p = [i \in 0 .. n |-> IF i = 0 THEN s ELSE Execute(p[i - 1], calls[i])]

LEMMA RunExists ==
  ASSUME NEW s, NEW calls, NEW n \in Nat
  PROVE  \E p : IsRun(p, s, calls, n)
<1> DEFINE Table(k, p) == /\ p = [i \in 0 .. k |-> p[i]] /\ p[0] = s
                          /\ \A i \in 1 .. k : p[i] = Execute(p[i - 1], calls[i])
           S == {k \in Nat : \E p : Table(k, p)}
<1>1. 0 \in S
  <2>1. Table(0, [i \in 0 .. 0 |-> s])
    OBVIOUS
  <2> HIDE DEF Table
  <2> QED BY <2>1
<1>2. ASSUME NEW k \in S PROVE k + 1 \in S
  <2>1. PICK p : Table(k, p)
    OBVIOUS
  <2> DEFINE q == [i \in 0 .. k + 1 |-> IF i = k + 1 THEN Execute(p[k], calls[k + 1]) ELSE p[i]]
  <2>2. k \in Nat
    OBVIOUS
  <2>3. q[0] = s /\ q = [i \in 0 .. k + 1 |-> q[i]]
    BY <2>1, <2>2
  <2>4. ASSUME NEW i \in 1 .. k + 1 PROVE q[i] = Execute(q[i - 1], calls[i])
    <3>1. CASE i = k + 1
      BY <2>2, <3>1
    <3>2. CASE i \in 1 .. k
      <4>1. i - 1 \in 0 .. k + 1 /\ i - 1 # k + 1 /\ i # k + 1
        BY <2>2, <3>2
      <4>2. q[i] = p[i] /\ q[i - 1] = p[i - 1]
        BY <4>1
      <4>3. p[i] = Execute(p[i - 1], calls[i])
        BY <2>1, <3>2
      <4> QED BY <4>2, <4>3, Zenon
    <3> QED BY <3>1, <3>2
  <2> HIDE DEF q
  <2>5. Table(k + 1, q)
    BY <2>3, <2>4
  <2> HIDE DEF Table
  <2> QED BY <2>2, <2>5
<1>3. S = Nat
  <2> HIDE DEF Table
  <2>1. S \subseteq Nat
    OBVIOUS
  <2> HIDE DEF S
  <2> QED BY <1>1, <1>2, <2>1, SetInduction
<1>4. PICK p : Table(n, p)
  BY <1>3
<1>5. p = [i \in 0 .. n |-> IF i = 0 THEN s ELSE Execute(p[i - 1], calls[i])]
  <2>1. \A i \in 0 .. n : p[i] = IF i = 0 THEN s ELSE Execute(p[i - 1], calls[i])
    <3> TAKE i \in 0 .. n
    <3>1. i = 0 \/ (i # 0 /\ i \in 1 .. n)
      OBVIOUS
    <3>2. p[0] = s /\ \A j \in 1 .. n : p[j] = Execute(p[j - 1], calls[j])
      BY <1>4
    <3> QED BY <3>1, <3>2, Zenon
  <2>2. p = [i \in 0 .. n |-> p[i]]
    BY <1>4
  <2> QED BY <2>1, <2>2, Zenon
<1> QED BY <1>5, Zenon DEF IsRun

\* A bundle's run: the account and the chain stay sound, what has landed stays,
\* and a vote that goes first, pays for itself and is admitted lands.
LEMMA ExecutedIs ==
  ASSUME IsChain(chain), MeterHolds(chain, meter),
         NEW calls, Len(calls) \in Nat, \A i \in 1 .. Len(calls) : calls[i].limit \in Nat
  PROVE  LET end == Executed(calls)
         IN  /\ IsChain(end.chain) /\ MeterHolds(end.chain, end.meter)
             /\ chain.landed \subseteq end.chain.landed
             /\ /\ Len(calls) >= 1 /\ calls[1].kind = "vote" /\ "vote" \in Todo
                /\ calls[1].limit >= Cost["vote"] /\ calls[1].limit <= meter
                => "vote" \in end.chain.landed
<1>0. PICK start : start = [chain |-> chain, meter |-> meter, granted |-> FALSE]
  OBVIOUS
<1>1. start.chain = chain /\ start.meter = meter
  BY <1>0
<1>2. PICK n \in Nat : n = Len(calls)
  OBVIOUS
<1> DEFINE after == CHOOSE p : IsRun(p, start, calls, n)
<1>3. \E p : IsRun(p, start, calls, n)
  BY RunExists
<1>4. IsRun(after, start, calls, n)
  BY <1>3, Zenon
<1>5. Executed(calls) = after[n]
  BY <1>0, <1>2, Zenon DEF Executed, IsRun
<1> HIDE DEF after
<1>6. after[0] = start /\ \A i \in 1 .. n : after[i] = Execute(after[i - 1], calls[i])
  <2>1. PICK f : f = after
    OBVIOUS
  <2>2. f = [i \in 0 .. n |-> IF i = 0 THEN start ELSE Execute(f[i - 1], calls[i])]
    BY <1>4, <2>1, Zenon DEF IsRun
  <2>3. f[0] = start
    BY <2>2
  <2>4. ASSUME NEW i \in 1 .. n PROVE f[i] = Execute(f[i - 1], calls[i])
    <3>1. i \in 0 .. n /\ i # 0
      OBVIOUS
    <3> QED BY <2>2, <3>1
  <2> QED BY <2>1, <2>3, <2>4, Zenon
<1> DEFINE first == /\ n >= 1 /\ calls[1].kind = "vote" /\ "vote" \in Todo
                    /\ calls[1].limit >= Cost["vote"] /\ calls[1].limit <= meter
           Sound(i) == /\ IsChain(after[i].chain) /\ MeterHolds(after[i].chain, after[i].meter)
                       /\ chain.landed \subseteq after[i].chain.landed
                       /\ first /\ i >= 1 => "vote" \in after[i].chain.landed
           S == {i \in Nat : i <= n => Sound(i)}
<1>7. 0 \in S
  BY <1>1, <1>6
<1>8. ASSUME NEW i \in S PROVE i + 1 \in S
  <2>1. SUFFICES ASSUME i + 1 <= n PROVE Sound(i + 1)
    OBVIOUS
  <2>2. i \in Nat /\ Sound(i) /\ i + 1 \in 1 .. n
    BY <2>1
  <2>3. PICK s, call, r : s = after[i] /\ call = calls[i + 1] /\ r = after[i + 1]
    OBVIOUS
  <2>4. i + 1 - 1 = i
    BY <2>2
  <2>5. r = Execute(s, call)
    <3>1. PICK k : k = i + 1
      OBVIOUS
    <3>2. k \in 1 .. n /\ k - 1 = i
      <4>1. i \in Nat /\ i + 1 \in 1 .. n
        BY <2>2, Zenon
      <4> QED BY <3>1, <4>1
    <3>3. after[k] = Execute(after[k - 1], calls[k])
      BY <1>6, <3>2, Zenon
    <3> QED BY <2>3, <3>1, <3>2, <3>3, Zenon
  <2>6. IsChain(s.chain) /\ MeterHolds(s.chain, s.meter) /\ call.limit \in Nat
    BY <1>2, <2>2, <2>3
  <2>7. /\ IsChain(r.chain) /\ MeterHolds(r.chain, r.meter)
        /\ s.chain.landed \subseteq r.chain.landed
        /\ call.kind = "vote" /\ "vote" \in Todo
           /\ call.limit >= Cost["vote"] /\ call.limit <= s.meter => "vote" \in r.chain.landed
    BY <2>5, <2>6, ExecuteKeeps
  <2>8. chain.landed \subseteq r.chain.landed
    BY <2>2, <2>3, <2>7
  <2>9. ASSUME first PROVE "vote" \in r.chain.landed
    <3>1. CASE i = 0
      <4>1. s.meter = meter /\ call = calls[1]
        BY <1>1, <1>6, <2>3, <3>1
      <4> QED BY <2>7, <2>9, <4>1
    <3>2. CASE i # 0
      <4>1. i >= 1
        BY <2>2, <3>2
      <4> QED BY <2>2, <2>3, <2>7, <2>9, <4>1
    <3> QED BY <3>1, <3>2
  <2> HIDE DEF first
  <2> QED BY <2>3, <2>7, <2>8, <2>9
<1>9. S = Nat
  <2>1. S \subseteq Nat
    OBVIOUS
  <2> HIDE DEF S
  <2> QED BY <1>7, <1>8, <2>1, SetInduction
<1>10. Sound(n)
  <2> HIDE DEF Sound
  <2>1. n \in S /\ n <= n
    BY <1>9
  <2> QED BY <2>1
<1> HIDE DEF S, Sound, first
<1>11. PICK end : end = Executed(calls)
  OBVIOUS
<1>12. end = after[n]
  BY <1>5, <1>11, Zenon
<1>13. /\ IsChain(end.chain) /\ MeterHolds(end.chain, end.meter)
       /\ chain.landed \subseteq end.chain.landed
       /\ first /\ n >= 1 => "vote" \in end.chain.landed
  BY <1>10, <1>12, Zenon DEF Sound
<1> QED BY <1>2, <1>11, <1>13, Zenon DEF first

\* What may happen around a press leaves it as payable as it was.
LEMMA BundleStays ==
  ASSUME BundleHolds, press' = press,
         meter \in Nat, meter' \in Nat, meter <= meter'
  PROVE  BundleHolds'
<1>1. \A k : HbdDrawn(k) \in Nat
  BY SignerAssumption DEF HbdDrawn
<1>2. ASSUME NEW i \in 1 .. Len(press.calls), press.calls[i].limit \in Nat, Payable(press.calls[i])
      PROVE  Payable(press.calls[i])'
  <2>1. PICK c : c = press.calls[i]
    OBVIOUS
  <2>2. c.limit \in Nat /\ (c.kind \in Kinds => c.limit + HbdDrawn(c.kind) <= meter)
    BY <1>2, <2>1 DEF Payable
  <2>3. HbdDrawn(c.kind) \in Nat
    BY <1>1
  <2>4. c.kind \in Kinds => c.limit + HbdDrawn(c.kind) <= meter'
    BY <2>2, <2>3
  <2>5. c.kind = press.calls[i].kind /\ c.limit = press.calls[i].limit /\ press'.calls[i] = press.calls[i]
    BY <2>1
  <2> QED BY <2>4, <2>5, Zenon DEF Payable
<1> QED BY <1>2, Zenon DEF BundleHolds

LEMMA WalletStart ==
  ASSUME WalletInit PROVE WalletInv
<1>1. IsChain(chain) /\ chain.landed = {}
  BY SignerAssumption DEF WalletInit, IsChain
<1>2. MeterHolds(chain, meter)
  BY <1>1, SignerAssumption DEF WalletInit, MeterHolds, Drawn
<1>3. rc.state # "read" /\ ahead.slices = 0
  BY DEF WalletInit, NotRead, NoPlan
<1>4. press = [op |-> "none", slices |-> 0, calls |-> <<>>, metered |-> FALSE]
  BY DEF WalletInit, NoPress
<1>5. /\ press = [op |-> press.op, slices |-> press.slices, calls |-> press.calls,
                  metered |-> press.metered]
      /\ press.slices = 0
  BY <1>4
<1>6. phase = "idle"
  BY DEF WalletInit
<1> QED BY <1>1, <1>2, <1>3, <1>5, <1>6 DEF WalletInv

\* The chain moves, the press does not.
LEMMA ChainMoves ==
  ASSUME WalletInv, IsChain(chain'), chain'.landed = chain.landed,
         UNCHANGED <<meter, rc, ahead, press, phase, faults>>
  PROVE  WalletInv'
<1>1. MeterHolds(chain, meter)'
  BY DEF WalletInv, MeterHolds, Drawn
<1>2. phase = "wallet" => BundleHolds'
  <2>1. meter \in Nat /\ meter' = meter
    BY DEF WalletInv, MeterHolds
  <2>2. phase = "wallet" => BundleHolds
    BY DEF WalletInv
  <2>3. meter' \in Nat /\ meter <= meter' /\ press' = press
    BY <2>1
  <2> QED BY <2>1, <2>2, <2>3, BundleStays
<1> QED BY <1>1, <1>2, Zenon DEF WalletInv

\* The press is over.
LEMMA PressEnds ==
  ASSUME IsChain(chain'), MeterHolds(chain', meter'),
         rc'.state = "read" => rc'.amount \in 0 .. meter', ahead'.slices \in Int,
         phase' = "idle", press' = NoPress
  PROVE  WalletInv'
<1>1. /\ press' = [op |-> press'.op, slices |-> press'.slices, calls |-> press'.calls,
                   metered |-> press'.metered]
      /\ press'.slices = 0
  BY DEF NoPress
<1> QED BY <1>1 DEF WalletInv, MeterHolds, Drawn, IsChain

LEMMA WalletStep ==
  ASSUME WalletInv, [WalletNext]_(walletVars)
  PROVE  WalletInv'
<1>1. /\ IsChain(chain) /\ MeterHolds(chain, meter) /\ meter \in Nat
      /\ rc.state = "read" => rc.amount \in 0 .. meter
      /\ ahead.slices \in Int
  BY DEF WalletInv, MeterHolds
<1>2. CASE WarmCatchUp
  <2>1. ahead'.slices \in Int
    BY <1>1, <1>2, SlicesIsInt DEF WarmCatchUp
  <2>2. UNCHANGED <<chain, meter, rc, press, phase>>
    BY <1>2 DEF WarmCatchUp
  <2> QED BY <2>1, <2>2 DEF WalletInv, IsChain, MeterHolds, Drawn, BundleHolds, Payable, VoteGoesFirst
<1>3. ASSUME NEW op \in Todo, Press(op) PROVE WalletInv'
  <2>1. UNCHANGED <<chain, meter, rc>> /\ ahead' = NoPlan /\ phase' = "sizing"
    BY <1>3 DEF Press
  <2>a. PICK blank : blank = NoPress
    OBVIOUS
  <2>b. blank = [op |-> blank.op, slices |-> blank.slices, calls |-> blank.calls,
                 metered |-> blank.metered]
    BY <2>a DEF NoPress
  <2>c. blank.slices = 0
    BY <2>a DEF NoPress
  <2> DEFINE Fresh(n) == [op |-> op, slices |-> n, calls |-> blank.calls, metered |-> blank.metered]
  <2>2. PICK n \in Int : press' = Fresh(n) /\ (op \notin PreCallOps => n = 0)
    <3>1. PICK plan \in Int : plan = IF ahead.planned THEN ahead.slices ELSE Slices(chain)
      BY <1>1, SlicesIsInt
    <3>2. PICK plain : plain = [blank EXCEPT !.op = op]
      OBVIOUS
    <3>3. PICK fresh : fresh = [blank EXCEPT !.op = op, !.slices = plan]
      OBVIOUS
    <3>4. \/ press' = plain
          \/ op \in PreCallOps /\ press' = fresh
      BY <1>3, <2>a, <3>1, <3>2, <3>3, Zenon DEF Press
    <3>5. plain = [op |-> op, slices |-> blank.slices, calls |-> blank.calls, metered |-> blank.metered]
      BY <2>b, <3>2
    <3>6. fresh = Fresh(plan)
      BY <2>b, <3>3
    <3>7. plain = Fresh(0)
      BY <2>c, <3>5, Zenon
    <3> HIDE DEF Fresh
    <3>8. 0 \in Int
      OBVIOUS
    <3> QED BY <3>4, <3>6, <3>7, <3>8, Zenon
  <2>3. /\ press' = [op |-> op, slices |-> n, calls |-> blank.calls, metered |-> blank.metered]
        /\ ahead'.slices = 0
    BY <2>1, <2>2 DEF NoPlan
  <2>4. /\ press'.op = op /\ press'.slices = n
        /\ press' = [op |-> press'.op, slices |-> press'.slices, calls |-> press'.calls,
                     metered |-> press'.metered]
    BY <2>3
  <2> QED BY <1>1, <2>1, <2>2, <2>3, <2>4 DEF WalletInv, IsChain, MeterHolds, Drawn
<1>4. CASE ReadMeter
  <2>1. UNCHANGED <<chain, meter, ahead, press, phase>>
    BY <1>4 DEF ReadMeter
  <2>2. rc'.state = "read" => rc'.amount \in 0 .. meter
    BY <1>1, <1>4 DEF ReadMeter, Reading, Unreadable
  <2> QED BY <2>1, <2>2 DEF WalletInv, IsChain, MeterHolds, Drawn, BundleHolds, Payable, VoteGoesFirst
<1>5. CASE Size
  <2>1. UNCHANGED <<chain, meter, rc, ahead>> /\ phase = "sizing"
    BY <1>5 DEF Size
  <2>2. PICK answered \in BOOLEAN :
          LET calls == Submit(press.op, press.slices, rc, answered)
          IN IF calls = <<>>
             THEN phase' = "idle" /\ press' = NoPress
             ELSE /\ phase' = "wallet"
                  /\ press' = [press EXCEPT !.calls = calls,
                                 !.metered = answered /\ rc.state = "read"]
    BY <1>5, Zenon DEF Size
  <2>3. PICK calls : calls = Submit(press.op, press.slices, rc, answered)
    OBVIOUS
  <2>4. CASE calls = <<>>
    BY <1>1, <2>1, <2>2, <2>3, <2>4, PressEnds DEF IsChain, MeterHolds, Drawn
  <2>5. CASE calls # <<>>
    <3>1. phase' = "wallet" /\ press' = [press EXCEPT !.calls = calls,
                                           !.metered = answered /\ rc.state = "read"]
      BY <2>2, <2>3, <2>5, Zenon
    <3>2. /\ press = [op |-> press.op, slices |-> press.slices, calls |-> press.calls,
                      metered |-> press.metered]
          /\ press.op \in Todo /\ press.slices \in Int
          /\ press.op \notin PreCallOps => press.slices = 0
      BY <2>1 DEF WalletInv
    <3>3. press' = [op |-> press.op, slices |-> press.slices, calls |-> calls,
                    metered |-> answered /\ rc.state = "read"]
      BY <3>1, <3>2
    <3>4. /\ Len(calls) \in 1 .. 5 /\ DOMAIN calls = 1 .. Len(calls)
          /\ \A i \in 1 .. Len(calls) : calls[i].limit \in Nat
          /\ answered /\ rc.state = "read" => \A i \in 1 .. Len(calls) : Payable(calls[i])
          /\ answered /\ press.op = "vote" /\ VoteIsCovered => VoteGoesFirst(calls)
      <4>1. PICK op, n, reading : op = press.op /\ n = press.slices /\ reading = rc
        OBVIOUS
      <4>2. /\ op \in Todo /\ n \in Int /\ (op \notin PreCallOps => n = 0)
            /\ reading.state = "read" => reading.amount \in 0 .. meter
        BY <1>1, <3>2, <4>1, Zenon
      <4>3. calls = Submit(op, n, reading, answered)
        BY <2>3, <4>1, Zenon
      <4>4. meter \in Nat /\ Submit(op, n, reading, answered) # <<>>
        BY <1>1, <2>5, <4>3
      <4>5. /\ Len(calls) \in 1 .. 5 /\ DOMAIN calls = 1 .. Len(calls)
            /\ \A i \in 1 .. Len(calls) : calls[i].limit \in Nat
            /\ answered /\ reading.state = "read" => \A i \in 1 .. Len(calls) : Payable(calls[i])
            /\ answered /\ op = "vote" /\ VoteIsCovered => VoteGoesFirst(calls)
        BY <4>2, <4>3, <4>4, SubmitIs
      <4> QED BY <4>1, <4>5, Zenon
    <3>5. BundleHolds'
      <4>1. /\ press'.calls = calls /\ press'.op = press.op
            /\ press'.metered = (answered /\ rc.state = "read")
        BY <3>3
      <4>2. \A c : Payable(c) => Payable(c)'
        BY <2>1 DEF Payable
      <4> QED BY <3>4, <4>1, <4>2 DEF BundleHolds, VoteGoesFirst, VoteIsCovered
    <3>6. /\ press'.op = press.op /\ press'.slices = press.slices
          /\ press' = [op |-> press'.op, slices |-> press'.slices, calls |-> press'.calls,
                       metered |-> press'.metered]
      BY <3>3
    <3> QED BY <1>1, <2>1, <3>1, <3>2, <3>5, <3>6 DEF WalletInv, IsChain, MeterHolds, Drawn
  <2> QED BY <2>4, <2>5
<1>6. CASE Include
  <2>1. /\ chain' = Executed(press.calls).chain /\ meter' = Executed(press.calls).meter
        /\ rc' = NotRead /\ phase' = "idle" /\ press' = NoPress /\ ahead' = ahead
        /\ phase = "wallet"
    BY <1>6 DEF Include, ForgetRc
  <2>2. Len(press.calls) \in Nat /\ \A i \in 1 .. Len(press.calls) : press.calls[i].limit \in Nat
    BY <2>1 DEF WalletInv, BundleHolds
  <2>3. IsChain(chain') /\ MeterHolds(chain', meter')
    BY <1>1, <2>1, <2>2, ExecutedIs, Zenon
  <2>4. rc'.state # "read"
    BY <2>1 DEF NotRead
  <2> QED BY <1>1, <2>1, <2>3, <2>4, PressEnds
<1>7. CASE Drop
  <2>1. /\ UNCHANGED <<chain, meter, ahead>> /\ rc' = NotRead
        /\ phase' = "idle" /\ press' = NoPress
    BY <1>7 DEF Drop, ForgetRc
  <2>2. rc'.state # "read"
    BY <2>1 DEF NotRead
  <2> QED BY <1>1, <2>1, <2>2, PressEnds
<1>8. CASE NewDay
  <2>1. IsChain(chain') /\ chain'.landed = chain.landed
    <3>1. chain' = [chain EXCEPT !.today = chain.today + 1] /\ chain.today < Days
      BY <1>8 DEF NewDay
    <3>2. chain.today + 1 \in 0 .. Days
      BY <1>1, <3>1, SignerAssumption, SMTT(60) DEF IsChain
    <3> QED BY <1>1, <3>1, <3>2 DEF IsChain
  <2> QED BY <1>8, <2>1, ChainMoves DEF NewDay
<1>9. CASE OthersWalk
  <2>1. PICK b \in Nat : chain' = Walk(chain, b)
    BY <1>9, SignerAssumption DEF OthersWalk
  <2>2. IsChain(chain') /\ chain'.landed = chain.landed
    BY <1>1, <2>1, WalkKeeps
  <2> QED BY <1>9, <2>2, ChainMoves DEF OthersWalk
<1>10. CASE OthersSettle
  <2>1. PICK p : chain' = [chain EXCEPT !.unpaid = chain.unpaid \ {p}]
    BY <1>10 DEF OthersSettle
  <2>2. IsChain(chain') /\ chain'.landed = chain.landed
    BY <1>1, <2>1 DEF IsChain
  <2> QED BY <1>10, <2>2, ChainMoves DEF OthersSettle
<1>11. CASE Thaw
  <2>1. meter' = Capacity - Drawn(chain) /\ UNCHANGED <<chain, rc, ahead, press, phase>>
    BY <1>11 DEF Thaw, Drawn, HBD_DRAW_OPS
  <2>2. meter' \in Nat /\ meter <= meter' /\ meter' + Drawn(chain) <= Capacity
    BY <1>1, <2>1, SignerAssumption DEF MeterHolds, Drawn
  <2>3. phase = "wallet" => BundleHolds'
    BY <1>1, <2>1, <2>2, BundleStays DEF WalletInv
  <2> QED BY <1>1, <2>1, <2>2, <2>3 DEF WalletInv, IsChain, MeterHolds, Drawn
<1>12. CASE RcExpires
  <2>1. UNCHANGED <<chain, meter, ahead, press, phase>> /\ rc'.state # "read"
    BY <1>12 DEF RcExpires, NotRead
  <2> QED BY <2>1 DEF WalletInv, IsChain, MeterHolds, Drawn, BundleHolds, Payable, VoteGoesFirst
<1>13. CASE PlanExpires
  <2>1. UNCHANGED <<chain, meter, rc, press, phase>> /\ ahead'.slices = 0
    BY <1>13 DEF PlanExpires, NoPlan
  <2> QED BY <2>1 DEF WalletInv, IsChain, MeterHolds, Drawn, BundleHolds, Payable, VoteGoesFirst
<1>14. CASE UNCHANGED walletVars
  BY <1>14 DEF walletVars, WalletInv, IsChain, MeterHolds, Drawn, BundleHolds, Payable, VoteGoesFirst
<1> QED BY <1>2, <1>3, <1>4, <1>5, <1>6, <1>7, <1>8, <1>9, <1>10, <1>11, <1>12, <1>13, <1>14 DEF WalletNext

\* Whatever a press has read of the meter is still there when it is signed: what
\* the cache holds is at most what the account has, and a draw that was promised
\* is counted off once (availableRc, forgetRc, broadcast).
THEOREM WalletHolds ==
  WalletSpec => []WalletInv
<1>1. WalletInit => WalletInv
  BY WalletStart
<1>2. WalletInv /\ [WalletNext]_(walletVars) => WalletInv'
  BY WalletStep
<1> QED BY <1>1, <1>2, PTL DEF WalletSpec

\* Whenever the wallet is asked to sign a press that was sized by a meter
\* reading, it is asked for at most five calls, and no call that was sized asks
\* for more credits than the account still holds, the draw included (sizeRc,
\* availableRc, forgetRc, submit), whatever the table, the ceiling, the gas and
\* the presses before it.
THEOREM EachCallPayable ==
  WalletSpec => []EachCallIsPayable
<1>1. WalletInv => EachCallIsPayable
  <2> SUFFICES ASSUME WalletInv, phase = "wallet", press.metered
               PROVE  /\ Len(press.calls) <= 5
                      /\ \A i \in DOMAIN press.calls :
                           press.calls[i].kind \in DOMAIN RC_LIMITS =>
                             press.calls[i].limit + HbdDrawn(press.calls[i].kind) <= meter
    BY DEF EachCallIsPayable, HiveCustomJsonPerBlock
  <2>1. BundleHolds
    BY DEF WalletInv
  <2>a. Len(press.calls) \in 1 .. 5 /\ DOMAIN press.calls = 1 .. Len(press.calls)
    BY <2>1, Zenon DEF BundleHolds
  <2>b. \A k \in 1 .. 5 : k <= 5
    OBVIOUS
  <2>2. Len(press.calls) <= 5 /\ DOMAIN press.calls = 1 .. Len(press.calls)
    BY <2>a, <2>b, Zenon
  <2>3. \A i \in 1 .. Len(press.calls) : Payable(press.calls[i])
    BY <2>1 DEF BundleHolds
  <2>4. DOMAIN RC_LIMITS = Kinds
    BY SignerAssumption
  <2> QED BY <2>2, <2>3, <2>4, Zenon DEF Payable
<1> QED BY <1>1, WalletHolds, PTL

\* A vote that costs no more than sizeRc's floor lands with the bundle that
\* carries it, whatever becomes of the settlements that ride along while the
\* transaction is under way (submit): it goes first, its limit pays for it, and
\* the account can afford that limit.
THEOREM VotesAreNeverBlocked ==
  ASSUME VoteIsCovered
  PROVE  WalletSpec => SettlementsNeverBlock
<1>1. WalletInv /\ [WalletNext]_(walletVars) =>
        [Include /\ press.metered /\ press.op \in SideCallOps
           => press.op \in chain'.landed]_(walletVars)
  <2> SUFFICES ASSUME WalletInv, Include, press.metered, press.op \in SideCallOps
               PROVE  press.op \in chain'.landed
    OBVIOUS
  <2>1. press.op = "vote" /\ phase = "wallet"
    BY DEF SideCallOps, Include
  <2>2. IsChain(chain) /\ MeterHolds(chain, meter) /\ "vote" \in Todo /\ BundleHolds
    BY <2>1 DEF WalletInv
  <2>3. PICK calls : calls = press.calls
    OBVIOUS
  <2>4. /\ Len(calls) \in 1 .. 5 /\ \A i \in 1 .. Len(calls) : calls[i].limit \in Nat
        /\ Payable(calls[1]) /\ calls[1].kind = "vote" /\ calls[1].limit >= Cost["vote"]
    BY <2>1, <2>2, <2>3 DEF BundleHolds, VoteGoesFirst
  <2>5. calls[1].limit <= meter
    <3>1. "vote" \in Kinds /\ HbdDrawn("vote") = 0
      BY DEF Kinds, HbdDrawn, HBD_DRAW_OPS
    <3>2. calls[1].limit + 0 <= meter /\ calls[1].limit \in Nat
      BY <2>4, <3>1 DEF Payable
    <3> QED BY <3>2
  <2>6. Len(calls) \in Nat /\ Len(calls) >= 1
    BY <2>4
  <2>7. "vote" \in Executed(calls).chain.landed
    BY <2>2, <2>4, <2>5, <2>6, ExecutedIs, Zenon
  <2>8. chain' = Executed(calls).chain
    BY <2>3 DEF Include
  <2> QED BY <2>1, <2>7, <2>8, Zenon
<1> QED BY <1>1, WalletHolds, PTL DEF WalletSpec, SettlementsNeverBlock
=============================================================================
