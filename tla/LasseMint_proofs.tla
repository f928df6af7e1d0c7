--------------------------- MODULE LasseMint_proofs ---------------------------
(***************************************************************************)
(* Theorems about LasseMint and what the site tells of it (MintViews), for *)
(* every value of the constants.                                           *)
(*                                                                         *)
(* In six parts: what the operators of the walk change and keep; types and *)
(* the schedule, which need no sum (SafetyInv); what the contract owes and *)
(* can pay (BooksInv); who votes, entry by entry (VotesInv); that a walk   *)
(* in slices is the walk; and that the cards and the dashboard tell the    *)
(* truth.                                                                  *)
(***************************************************************************)
EXTENDS MintViews, Engine_proofs, SequenceTheorems

-----------------------------------------------------------------------------
(* Days.                                                                   *)

\* What the proofs use of the constants; a day is no longer than an era.
LEMMA ConstantTypes ==
  /\ HeightsPerDay \in Nat \ {0}
  /\ HeightsPerDay <= HeightsPerEra
  /\ GenesisHeight \in Nat \ {0}
  /\ Heights \subseteq Nat
  /\ LastDay \in Nat
<1> DEFINE q == HeightsPerEra \div HeightsPerDay
<1>1. HeightsPerDay \in Nat \ {0} /\ HeightsPerEra \in Nat \ {0} /\ HeightsPerEra % HeightsPerDay = 0
  BY EngineAssumption
<1>2. q \in Nat /\ HeightsPerEra = HeightsPerDay * q + 0
  BY <1>1, DivMod
<1> HIDE DEF q
<1>3. HeightsPerDay <= HeightsPerEra
  <2>1. q # 0
    BY <1>1, <1>2
  <2>2. HeightsPerDay * 1 <= HeightsPerDay * q
    BY <1>1, <1>2, <2>1, ProductMono
  <2> QED BY <1>1, <1>2, <2>2
<1> QED BY <1>1, <1>3, EngineAssumption, LasseMintAssumption

\* A height lies on a day (DayOf).
LEMMA DayOfNat ==
  ASSUME NEW h \in Nat
  PROVE  DayOf(h) \in Nat
<1>1. CASE h <= GenesisHeight
  BY <1>1 DEF DayOf
<1>2. CASE h > GenesisHeight
  <2> DEFINE x == h - GenesisHeight
  <2>1. x \in Nat /\ DayOf(h) = x \div HeightsPerDay
    BY <1>2, ConstantTypes DEF DayOf
  <2> HIDE DEF x
  <2> QED BY <2>1, ConstantTypes, DivMod
<1> QED BY <1>1, <1>2, ConstantTypes

\* The height of a call lies on a modelled day.
LEMMA DayOfCall ==
  ASSUME NEW h \in Heights
  PROVE  DayOf(h) \in Days
<1>1. h \in Nat /\ DayOf(h) + MaxMintDays <= LastDay /\ MaxMintDays \in Nat
  BY LasseMintAssumption, EngineAssumption
<1>2. DayOf(h) \in Nat
  BY <1>1, DayOfNat
<1> QED BY <1>1, <1>2, ConstantTypes DEF Days

\* Days follow one another (heightOfDay).
LEMMA HeightOfDayNat ==
  ASSUME NEW d \in Nat
  PROVE  /\ HeightOfDay(d) \in Nat
         /\ HeightOfDay(d) >= GenesisHeight
         /\ HeightOfDay(d + 1) = HeightOfDay(d) + HeightsPerDay
<1>1. d * HeightsPerDay \in Nat
  BY ConstantTypes, ProductNat
<1>2. (d + 1) * HeightsPerDay = d * HeightsPerDay + HeightsPerDay
  BY ConstantTypes
<1> QED BY <1>1, <1>2, ConstantTypes DEF HeightOfDay

\* A mint made at a height of a call matures within the modelled days.
LEMMA MaturityInDays ==
  ASSUME NEW m, m.start \in Heights, m.days \in MinMintDays .. MaxMintDays
  PROVE  MaturityDay(m) \in Days
<1> DEFINE len == m.days * HeightsPerDay
           x   == m.start - GenesisHeight
<1>1. /\ m.start \in Nat /\ m.days \in Nat /\ m.days <= MaxMintDays /\ MaxMintDays \in Nat
      /\ DayOf(m.start) + MaxMintDays <= LastDay
  <2>1. MinMintDays \in Nat /\ MaxMintDays \in Nat
    BY EngineAssumption
  <2>2. m.start \in Nat /\ DayOf(m.start) + MaxMintDays <= LastDay
    BY LasseMintAssumption
  <2> QED BY <2>1, <2>2
<1>2. len \in Nat
  BY <1>1, ConstantTypes, ProductNat
<1>3. MaturityDay(m) = DayOf(m.start + len)
  BY DEF MaturityDay, MaturityHeight
<1> HIDE DEF len
<1>4. DayOf(m.start + len) \in Nat /\ DayOf(m.start) \in Nat
  BY <1>1, <1>2, DayOfNat
<1>5. DayOf(m.start + len) <= DayOf(m.start) + m.days
  <2>1. CASE m.start <= GenesisHeight
    <3>1. CASE m.start + len <= GenesisHeight
      BY <1>1, <1>4, <3>1 DEF DayOf
    <3>2. CASE m.start + len > GenesisHeight
      <4> DEFINE y == m.start + len - GenesisHeight
      <4>1. y \in Nat /\ y <= len /\ DayOf(m.start + len) = y \div HeightsPerDay
        BY <1>1, <1>2, <2>1, <3>2, ConstantTypes DEF DayOf
      <4>2. y \div HeightsPerDay <= m.days
        <5> HIDE DEF y
        <5>1. y \div HeightsPerDay \in Nat /\ HeightsPerDay * (y \div HeightsPerDay) <= y
          <6>1. /\ y \div HeightsPerDay \in Nat
                /\ y % HeightsPerDay \in 0 .. HeightsPerDay - 1
                /\ y = HeightsPerDay * (y \div HeightsPerDay) + (y % HeightsPerDay)
            BY <4>1, ConstantTypes, DivMod
          <6>2. HeightsPerDay * (y \div HeightsPerDay) \in Nat
            BY <6>1, ConstantTypes, ProductNat
          <6> QED BY <6>1, <6>2, ConstantTypes
        <5> DEFINE q == y \div HeightsPerDay
        <5>2. ASSUME q >= m.days + 1 PROVE FALSE
          <6> HIDE DEF q
          <6>1. HeightsPerDay * (m.days + 1) <= HeightsPerDay * q
            BY <1>1, <5>1, <5>2, ConstantTypes, ProductMono DEF q
          <6>2. HeightsPerDay * (m.days + 1) = len + HeightsPerDay
            BY <1>1, ConstantTypes DEF len
          <6> QED BY <1>2, <4>1, <5>1, <6>1, <6>2, ConstantTypes DEF q
        <5> QED BY <1>1, <5>1, <5>2
      <4>3. DayOf(m.start) \in Nat
        BY <1>4
      <4> QED BY <1>1, <1>4, <4>1, <4>2
    <3> QED BY <1>1, <1>2, <3>1, <3>2, ConstantTypes
  <2>2. CASE m.start > GenesisHeight
    <3>1. x \in Nat /\ m.start + len > GenesisHeight /\ (m.start + len) - GenesisHeight = x + len
      BY <1>1, <1>2, <2>2, ConstantTypes
    <3>2. DayOf(m.start) = x \div HeightsPerDay /\ DayOf(m.start + len) = (x + len) \div HeightsPerDay
      BY <1>1, <1>2, <2>2, <3>1, ConstantTypes DEF DayOf
    <3> HIDE DEF x
    <3> DEFINE q == x \div HeightsPerDay
               r == x % HeightsPerDay
    <3>3. q \in Nat /\ r \in 0 .. HeightsPerDay - 1 /\ x = HeightsPerDay * q + r
      BY <3>1, ConstantTypes, DivMod
    <3> HIDE DEF q, r
    <3>4. x + len = HeightsPerDay * (q + m.days) + r /\ x + len \in Nat /\ q + m.days \in Nat
      BY <1>1, <1>2, <3>1, <3>3, ConstantTypes DEF len
    <3>5. (x + len) \div HeightsPerDay = q + m.days
      BY <3>3, <3>4, ConstantTypes, QuotientIs
    <3> QED BY <1>1, <3>2, <3>3, <3>5 DEF q
  <2> QED BY <1>1, <2>1, <2>2, ConstantTypes
<1> QED BY <1>1, <1>3, <1>4, <1>5, ConstantTypes DEF Days

-----------------------------------------------------------------------------
(* The expiry list keeps its type.                                         *)

\* Retiring a chunk keeps every vote natural (drainExpiryList).
LEMMA RetireType ==
  ASSUME NEW shr \in [Accounts -> Nat], NEW chunk \in Seq(Entry)
  PROVE  Retire(shr, chunk) \in [Accounts -> Nat]
<1> DEFINE shares == [i \in DOMAIN chunk |-> chunk[i].shares]
           of(a)  == {i \in DOMAIN chunk : chunk[i].owner = a}
<1>1. DOMAIN chunk = 1 .. Len(chunk) /\ Len(chunk) \in Nat
  OBVIOUS
<1>2. IsFiniteSet(DOMAIN chunk)
  BY <1>1, FS_Interval
<1>3. \A i \in DOMAIN chunk : shares[i] \in Nat
  <2> TAKE i \in DOMAIN chunk
  <2>1. chunk[i] \in Entry
    OBVIOUS
  <2> QED BY <2>1 DEF Entry
<1>4. ASSUME NEW a \in Accounts PROVE Monus(shr[a], Total(shares, of(a))) \in Nat
  <2>1. of(a) \in SUBSET DOMAIN chunk
    OBVIOUS
  <2>2. IsFiniteSet(of(a))
    BY <1>2, <2>1, FS_Subset
  <2> HIDE DEF shares, of
  <2>3. Total(shares, of(a)) \in Nat
    BY <1>3, <2>1, <2>2, TotalIsNat
  <2> QED BY <2>3, MonusNat
<1> QED BY <1>4 DEF Retire

\* A list that received an entry is a list of chunks, and is not empty
\* (scheduleExpiryEntries).
LEMMA AddExpiryEntryType ==
  ASSUME NEW chunks \in Seq(Seq(Entry)), NEW e \in Entry
  PROVE  AddExpiryEntry(chunks, e) \in Seq(Seq(Entry)) \ {<<>>}
<1> DEFINE n == Len(chunks)
<1>1. n \in Nat /\ DOMAIN chunks = 1 .. n /\ \A i \in 1 .. n : chunks[i] \in Seq(Entry)
  OBVIOUS
<1>2. CASE n > 0 /\ chunks[n] # <<>> /\ Len(chunks[n]) < ExpiryChunkSize
  <2>1. Append(chunks[n], e) \in Seq(Entry)
    BY <1>1, <1>2
  <2>2. [chunks EXCEPT ![n] = Append(@, e)] \in Seq(Seq(Entry)) \ {<<>>}
    BY <1>1, <1>2, <2>1
  <2> QED BY <1>2, <2>2 DEF AddExpiryEntry
<1>3. CASE ~ (n > 0 /\ chunks[n] # <<>> /\ Len(chunks[n]) < ExpiryChunkSize)
  <2>1. Append(chunks, <<e>>) \in Seq(Seq(Entry)) \ {<<>>}
    <3>1. <<e>> \in Seq(Entry)
      OBVIOUS
    <3> QED BY <3>1, AppendProperties, SMTT(60)
  <2> QED BY <1>3, <2>1 DEF AddExpiryEntry
<1> QED BY <1>2, <1>3

\* A list that lost an entry is a list of chunks (removeExpiryEntry).
LEMMA RemoveExpiryEntryType ==
  ASSUME NEW chunks \in Seq(Seq(Entry)), NEW n, NEW e
  PROVE  RemoveExpiryEntry(chunks, n, e) \in Seq(Seq(Entry))
<1> DEFINE c    == chunks[n]
           hits == {j \in DOMAIN c : c[j] = e}
           hit  == CHOOSE j \in hits : \A k \in hits : j <= k
           rest == SubSeq(c, 1, hit - 1) \o SubSeq(c, hit + 1, Len(c))
<1>1. CASE n \notin DOMAIN chunks
  BY <1>1 DEF RemoveExpiryEntry
<1>2. CASE n \in DOMAIN chunks /\ hits = {}
  BY <1>2 DEF RemoveExpiryEntry
<1>3. CASE n \in DOMAIN chunks /\ hits # {}
  <2>1. c \in Seq(Entry)
    BY <1>3
  <2>2. hit \in hits
    <3>1. hits \subseteq Nat /\ hits # {}
      BY <1>3, <2>1
    <3>2. \E j \in hits : \A k \in hits : j <= k
      <4> HIDE DEF hits
      <4> QED BY <3>1, LeastExists
    <3> HIDE DEF hits
    <3> QED BY <3>2
  <2>3. hit \in 1 .. Len(c)
    <3>1. hits \subseteq 1 .. Len(c)
      BY <2>1
    <3> HIDE DEF hit, hits
    <3> QED BY <2>2, <3>1
  <2> HIDE DEF hit, hits
  <2>4. SubSeq(c, 1, hit - 1) \in Seq(Entry)
    <3>1. hit - 1 \in Int /\ \A i \in 1 .. hit - 1 : c[i] \in Entry
      BY <2>1, <2>3
    <3> HIDE DEF c
    <3> QED BY <2>1, <3>1, SubSeqProperties
  <2>5. SubSeq(c, hit + 1, Len(c)) \in Seq(Entry)
    <3>1. hit + 1 \in Int /\ Len(c) \in Int /\ \A i \in hit + 1 .. Len(c) : c[i] \in Entry
      BY <2>1, <2>3
    <3> HIDE DEF c
    <3> QED BY <2>1, <3>1, SubSeqProperties
  <2>6. rest \in Seq(Entry)
    BY <2>4, <2>5, ConcatProperties
  <2> HIDE DEF rest
  <2>7. [chunks EXCEPT ![n] = rest] \in Seq(Seq(Entry))
    BY <1>3, <2>6
  <2>8. RemoveExpiryEntry(chunks, n, e) = [chunks EXCEPT ![n] = rest]
    BY <1>3 DEF RemoveExpiryEntry, rest, hit, hits
  <2> QED BY <2>7, <2>8
<1> QED BY <1>1, <1>2, <1>3

-----------------------------------------------------------------------------
(* One turn of the walk.                                                   *)

\* What draining a list leaves alone.
SameBooks(s, t) ==
  /\ t.acc_per = s.acc_per /\ t.acc_held = s.acc_held /\ t.acc_day = s.acc_day
  /\ t.settled = s.settled /\ t.sup_emitted = s.sup_emitted
  /\ t.shares_total = s.shares_total /\ t.exp = s.exp /\ t.accAt = s.accAt
  /\ t.pool_lshare = s.pool_lshare /\ t.pool_viral = s.pool_viral
  /\ t.pool_deep = s.pool_deep /\ t.pool_liq = s.pool_liq

\* A drain, finished or not, writes votes and lists and nothing of the books
\* (drainExpiryList).
LEMMA DrainFrame ==
  ASSUME NEW w \in WalkState
  PROVE  /\ DrainExpiryList(w) \in WalkState
         /\ SameBooks(w.store, DrainExpiryList(w).store)
         /\ DrainExpiryList(w).emitted = w.emitted
         /\ DrainExpiryList(w).lshare = w.lshare
<1> DEFINE s      == w.store
           day    == s.acc_day
           chunks == s.expl[day]
           turn   == [r \in DrainState |->
                        IF r.cur >= Len(chunks) \/ r.budget < Len(chunks[r.cur + 1]) THEN r
                        ELSE [shr    |-> Retire(r.shr, chunks[r.cur + 1]),
                              budget |-> r.budget - Len(chunks[r.cur + 1]),
                              cur    |-> r.cur + 1]]
           first  == [shr |-> s.shr, budget |-> w.budget, cur |-> s.explCur[day]]
           last   == Iterate(turn, first, Len(chunks))
           done   == last.cur >= Len(chunks)
           rest   == IF done THEN <<>>
                     ELSE [i \in 1 .. Len(chunks) |-> IF i <= last.cur THEN <<>> ELSE chunks[i]]
           left   == [w EXCEPT !.store.shr = last.shr,
                               !.store.expl[day] = rest,
                               !.store.explCur[day] = IF done THEN 0 ELSE last.cur,
                               !.budget = last.budget,
                               !.stopped = ~ done]
<1>1. s \in Store /\ day \in Days /\ w.budget \in Nat
  BY DEF WalkState, Store
<1>2. chunks \in Seq(Seq(Entry)) /\ s.explCur[day] \in Nat /\ s.shr \in [Accounts -> Nat]
  BY <1>1 DEF Store
<1>3. Len(chunks) \in Nat /\ \A i \in 1 .. Len(chunks) : chunks[i] \in Seq(Entry)
  BY <1>2, SMTT(60)
<1>4. \A r \in DrainState : turn[r] \in DrainState
  <2> SUFFICES ASSUME NEW r \in DrainState PROVE turn[r] \in DrainState
    OBVIOUS
  <2> DEFINE chunk == chunks[r.cur + 1]
  <2>1. r.shr \in [Accounts -> Nat] /\ r.budget \in Nat /\ r.cur \in Nat
    BY DEF DrainState
  <2>2. CASE r.cur >= Len(chunks) \/ r.budget < Len(chunk)
    BY <2>2
  <2>3. CASE ~ (r.cur >= Len(chunks) \/ r.budget < Len(chunk))
    <3>1. chunk \in Seq(Entry) /\ Len(chunk) \in Nat
      BY <1>3, <2>1, <2>3, SMTT(60)
    <3>2. turn[r] = [shr |-> Retire(r.shr, chunk), budget |-> r.budget - Len(chunk),
                     cur |-> r.cur + 1]
      BY <2>3
    <3> HIDE DEF chunk, turn
    <3>3. Retire(r.shr, chunk) \in [Accounts -> Nat]
      BY <2>1, <3>1, RetireType
    <3>4. r.budget - Len(chunk) \in Nat /\ r.cur + 1 \in Nat
      BY <2>1, <2>3, <3>1
    <3> QED BY <3>2, <3>3, <3>4 DEF DrainState
  <2> QED BY <2>2, <2>3
<1>5. first \in DrainState
  BY <1>1, <1>2 DEF DrainState
<1>6. last \in DrainState
  <2> HIDE DEF turn, first, chunks
  <2> QED BY <1>3, <1>4, <1>5, IterateLoop
<1>7. DrainExpiryList(w) = left
  <2> DEFINE leave == [r \in DrainState |->
                   LET fin == r.cur >= Len(chunks)
                   IN  [w EXCEPT
                          !.store.shr = r.shr,
                          !.store.expl[day] =
                             IF fin THEN <<>>
                             ELSE [i \in 1 .. Len(chunks) |->
                                     IF i <= r.cur THEN <<>> ELSE chunks[i]],
                          !.store.explCur[day] = IF fin THEN 0 ELSE r.cur,
                          !.budget = r.budget,
                          !.stopped = ~ fin]]
  <2>1. DrainExpiryList(w) = leave[last]
    BY DEF DrainExpiryList
  <2> HIDE DEF last
  <2>2. leave[last] = left
    BY <1>6
  <2> QED BY <2>1, <2>2
<1> HIDE DEF last
<1>8. rest \in Seq(Seq(Entry))
  <2>1. CASE done
    BY <2>1
  <2>2. CASE ~ done
    <3>1. <<>> \in Seq(Entry)
      OBVIOUS
    <3> QED BY <1>3, <2>2, <3>1
  <2> QED BY <2>1, <2>2
<1>9. last.shr \in [Accounts -> Nat] /\ last.budget \in Nat /\ last.cur \in Nat
  BY <1>6 DEF DrainState
<1> DEFINE t == [s EXCEPT !.shr = last.shr, !.expl[day] = rest,
                          !.explCur[day] = IF done THEN 0 ELSE last.cur]
<1>10. t \in Store /\ SameBooks(s, t)
  <2> HIDE DEF rest, done
  <2> QED BY <1>1, <1>8, <1>9 DEF Store, SameBooks
<1>11. left = [w EXCEPT !.store = t, !.budget = last.budget, !.stopped = ~ done]
  <2> HIDE DEF rest, done
  <2> QED BY DEF WalkState, Store
<1> HIDE DEF t, left, rest
<1>12. left \in WalkState /\ left.store = t /\ left.emitted = w.emitted /\ left.lshare = w.lshare
  BY <1>9, <1>10, <1>11 DEF WalkState
<1> QED BY <1>7, <1>10, <1>12

\* Expiring a day writes the denominator, the schedule and at most the
\* checkpoint of that day (accrueWalk).
LEMMA ExpireDayFrame ==
  ASSUME NEW s \in Store, NEW day \in Days
  PROVE  LET t == ExpireDay(s, day)
         IN  /\ t \in Store
             /\ SameBooks(s, [t EXCEPT !.shares_total = s.shares_total,
                                       !.exp = s.exp, !.accAt = s.accAt])
             /\ \A d \in Days \ {day} : t.accAt[d] = s.accAt[d]
             /\ t.accAt[day] = IF s.exp[day] = 0 THEN s.accAt[day] ELSE s.acc_per
<1>1. CASE s.exp[day] = 0
  BY <1>1 DEF ExpireDay, SameBooks, Store
<1>2. CASE s.exp[day] # 0
  <2> DEFINE n == Monus(s.shares_total, s.exp[day])
             t == [s EXCEPT !.shares_total = n, !.exp[day] = 0, !.accAt[day] = s.acc_per]
  <2>1. ExpireDay(s, day) = t
    BY <1>2 DEF ExpireDay
  <2>2. n \in Int
    BY SMTT(60) DEF Monus, Store
  <2> HIDE DEF n
  <2>3. t \in Store
    BY <2>2 DEF Store
  <2>4. SameBooks(s, [t EXCEPT !.shares_total = s.shares_total,
                              !.exp = s.exp, !.accAt = s.accAt])
    BY DEF SameBooks, Store
  <2>5. t.accAt[day] = s.acc_per /\ \A d \in Days \ {day} : t.accAt[d] = s.accAt[d]
    BY DEF Store
  <2> QED BY <1>2, <2>1, <2>3, <2>4, <2>5
<1> QED BY <1>1, <1>2

\* The height of a block, counted from genesis, gives the schedule.
LEMMA EmittedFromGenesis ==
  ASSUME NEW k \in Nat
  PROVE  TotalEmittedAt(GenesisHeight + k) = EmittedAfter(k)
<1>1. CASE k = 0
  <2>1. TotalEmittedAt(GenesisHeight + k) = 0
    BY <1>1, ConstantTypes DEF TotalEmittedAt
  <2>2. HeightsPerEra \in Nat \ {0} /\ k = HeightsPerEra * 0 + 0
    BY <1>1, EngineAssumption
  <2>3. k \div HeightsPerEra = 0 /\ k % HeightsPerEra = 0
    BY <1>1, <2>2
  <2>4. Eras(0).total = 0
    <3> DEFINE first == [budget |-> MulDiv(EmissionCap, 1, 2), total |-> 0]
    <3>1. first \in EraState
      <4>1. MulDiv(EmissionCap, 1, 2) \in Nat
        BY EngineAssumption, MulDivBounds
      <4> QED BY <4>1 DEF EraState
    <3>2. Eras(0) = Iterate(NextEra, first, 0) /\ first.total = 0
      BY DEF Eras
    <3> HIDE DEF first
    <3> QED BY <3>1, <3>2, NextEraType, IterateLoop
  <2>5. RewardPerHeight(0) * 0 = 0
    BY RewardPerHeightNat
  <2> QED BY <2>1, <2>3, <2>4, <2>5 DEF EmittedAfter
<1>2. CASE k # 0
  <2> DEFINE h == GenesisHeight + k
  <2>1. ~ (h <= GenesisHeight) /\ h - GenesisHeight = k
    BY <1>2, ConstantTypes
  <2> HIDE DEF h
  <2>2. TotalEmittedAt(h) = EmittedAfter(k)
    BY <2>1, Zenon DEF TotalEmittedAt, EmittedAfter
  <2> QED BY <2>2 DEF h
<1> QED BY <1>1, <1>2

\* A day's emission is what the schedule adds between its two ends.
LEMMA DayEmission ==
  ASSUME NEW d \in Nat
  PROVE  /\ TotalEmittedAt(HeightOfDay(d)) \in Nat
         /\ EmissionBetween(HeightOfDay(d), HeightOfDay(d + 1)) \in Nat
         /\ EmissionBetween(HeightOfDay(d), HeightOfDay(d + 1))
              = TotalEmittedAt(HeightOfDay(d + 1)) - TotalEmittedAt(HeightOfDay(d))
<1> DEFINE from == HeightOfDay(d)
           to   == HeightOfDay(d + 1)
           x    == d * HeightsPerDay
<1>1. x \in Nat
  BY ConstantTypes, ProductNat
<1>2. from = GenesisHeight + x /\ to = GenesisHeight + (x + HeightsPerDay)
  BY <1>1, HeightOfDayNat, ConstantTypes DEF HeightOfDay
<1> HIDE DEF x, from, to
<1>3. x + HeightsPerDay \in Nat /\ HeightsPerDay \in 0 .. HeightsPerEra
  BY <1>1, ConstantTypes, EngineAssumption
<1>4. TotalEmittedAt(from) = EmittedAfter(x) /\ TotalEmittedAt(to) = EmittedAfter(x + HeightsPerDay)
  BY <1>1, <1>2, <1>3, EmittedFromGenesis
<1>5. /\ EmittedAfter(x) \in Nat /\ EmittedAfter(x + HeightsPerDay) \in Nat
      /\ EmittedAfter(x) <= EmittedAfter(x + HeightsPerDay)
  BY <1>1, <1>3, EmittedAfterNat, EmittedAfterMono
<1>6. ~ (to <= from)
  BY <1>1, <1>2, ConstantTypes
<1>7. EmissionBetween(from, to) = TotalEmittedAt(to) - TotalEmittedAt(from)
  BY <1>6 DEF EmissionBetween
<1> QED BY <1>4, <1>5, <1>7 DEF from, to

\* What closing a day does to the walk.
LEMMA CloseDayFrame ==
  ASSUME NEW w \in WalkState, w.store.acc_day + 1 \in Days
  PROVE  LET s == w.store
             v == CloseDay(w)
             t == v.store
         IN  /\ v \in WalkState
             /\ t.acc_day = s.acc_day + 1
             /\ t.acc_per >= s.acc_per
             /\ t.settled = s.settled /\ t.sup_emitted = s.sup_emitted
             /\ t.pool_lshare = s.pool_lshare /\ t.pool_viral = s.pool_viral
             /\ t.pool_deep = s.pool_deep /\ t.pool_liq = s.pool_liq
             /\ v.emitted = w.emitted + TotalEmittedAt(HeightOfDay(s.acc_day + 1))
                                      - TotalEmittedAt(HeightOfDay(s.acc_day))
             /\ \A d \in Days \ {s.acc_day} : t.accAt[d] = s.accAt[d]
             /\ t.accAt[s.acc_day] \in {s.accAt[s.acc_day], t.acc_per}
<1> DEFINE s      == w.store
           day    == s.acc_day
           amount == EmissionBetween(HeightOfDay(day), HeightOfDay(day + 1))
           lshare == Split(amount).lshare
           step   == AccumulatorStep(s.acc_per, lshare, s.acc_held, s.shares_total)
           paid   == [s EXCEPT !.acc_per = step.acc, !.acc_held = step.held]
           x      == ExpireDay(paid, day)
<1>1. s \in Store /\ day \in Days /\ day \in Nat
  <2>1. s \in Store
    BY DEF WalkState
  <2>2. day \in Days
    BY <2>1 DEF Store
  <2> QED BY <2>1, <2>2, ConstantTypes DEF Days
<1>2. /\ amount \in Nat
      /\ amount = TotalEmittedAt(HeightOfDay(day + 1)) - TotalEmittedAt(HeightOfDay(day))
  BY <1>1, DayEmission
<1>3. TotalEmittedAt(HeightOfDay(day)) \in Nat /\ TotalEmittedAt(HeightOfDay(day + 1)) \in Nat
  BY <1>1, DayEmission
<1> HIDE DEF amount
<1>4. lshare \in Nat
  BY <1>2, SplitExact
<1> HIDE DEF lshare
<1>5. step.acc \in Nat /\ step.held \in Nat /\ step.acc >= s.acc_per
  <2>1. s.acc_per \in Nat /\ s.acc_held \in Nat /\ s.shares_total \in Int
    BY <1>1 DEF Store
  <2> QED BY <1>4, <2>1, AccumulatorStepSound
<1> HIDE DEF step
<1>6. /\ paid \in Store
      /\ SameBooks(s, [paid EXCEPT !.acc_per = s.acc_per, !.acc_held = s.acc_held])
      /\ paid.acc_per = step.acc /\ paid.accAt = s.accAt
  BY <1>1, <1>5 DEF Store, SameBooks
<1> HIDE DEF paid
<1>7. /\ x \in Store
      /\ SameBooks(paid, [x EXCEPT !.shares_total = paid.shares_total,
                                   !.exp = paid.exp, !.accAt = paid.accAt])
      /\ \A d \in Days \ {day} : x.accAt[d] = paid.accAt[d]
      /\ x.accAt[day] = IF paid.exp[day] = 0 THEN paid.accAt[day] ELSE paid.acc_per
  BY <1>1, <1>6, ExpireDayFrame
<1> DEFINE t == [x EXCEPT !.acc_day = day + 1]
<1>8. CloseDay(w) = [store   |-> t,
                     emitted |-> w.emitted + amount,
                     lshare  |-> w.lshare + lshare,
                     budget  |-> w.budget,
                     stopped |-> FALSE]
  BY DEF CloseDay, amount, lshare, step, paid
<1> HIDE DEF x
<1>9. t \in Store /\ SameBooks(x, [t EXCEPT !.acc_day = x.acc_day]) /\ t.acc_day = day + 1
  BY <1>1, <1>7 DEF Store, SameBooks
<1> HIDE DEF t
<1>10. CloseDay(w) \in WalkState
  <2>1. w.emitted \in Nat /\ w.lshare \in Nat /\ w.budget \in Nat
    BY DEF WalkState
  <2> QED BY <1>2, <1>4, <1>8, <1>9, <2>1 DEF WalkState
<1>11. /\ t.acc_per = step.acc /\ t.accAt = x.accAt
       /\ t.settled = s.settled /\ t.sup_emitted = s.sup_emitted
       /\ t.pool_lshare = s.pool_lshare /\ t.pool_viral = s.pool_viral
       /\ t.pool_deep = s.pool_deep /\ t.pool_liq = s.pool_liq
  BY <1>1, <1>6, <1>7, <1>9 DEF SameBooks, Store
<1>12. CloseDay(w).emitted = w.emitted + TotalEmittedAt(HeightOfDay(day + 1))
                                       - TotalEmittedAt(HeightOfDay(day))
  <2>1. w.emitted \in Nat
    BY DEF WalkState
  <2> QED BY <1>2, <1>3, <1>8, <2>1
<1>13. /\ \A d \in Days \ {day} : t.accAt[d] = s.accAt[d]
       /\ t.accAt[day] \in {s.accAt[day], t.acc_per}
  BY <1>6, <1>7, <1>11
<1>14. CloseDay(w).store = t
  BY <1>8
<1> QED BY <1>5, <1>9, <1>10, <1>11, <1>12, <1>13, <1>14

-----------------------------------------------------------------------------
(* The walk.                                                               *)

\* Checkpoints written since s: of days not closed in s, between the
\* accumulator of s and the present one.
NewCheckpoints(s, t) ==
  \A d \in Days :
    \/ t.accAt[d] = s.accAt[d]
    \/ d >= s.acc_day /\ t.accAt[d] \in s.acc_per .. t.acc_per

\* The states a walk from s to the target day goes through.
LoopStates(s, target) ==
  {w \in WalkState :
     /\ s.acc_day <= w.store.acc_day /\ w.store.acc_day <= target
     /\ s.acc_per <= w.store.acc_per
     /\ w.store.settled = s.settled /\ w.store.sup_emitted = s.sup_emitted
     /\ w.store.pool_lshare = s.pool_lshare /\ w.store.pool_viral = s.pool_viral
     /\ w.store.pool_deep = s.pool_deep /\ w.store.pool_liq = s.pool_liq
     /\ w.emitted = TotalEmittedAt(HeightOfDay(w.store.acc_day))
                      - TotalEmittedAt(HeightOfDay(s.acc_day))
     /\ NewCheckpoints(s, w.store)}

\* Whatever the budget, the loop of the walk ends in one of these states:
\* what it found is the schedule's difference between the days it crossed.
LEMMA WalkDaysFrame ==
  ASSUME NEW s \in Store, NEW target \in Days, s.acc_day <= target,
         NEW n \in Nat, NEW budget \in Nat
  PROVE  WalkDays(s, target, n, budget) \in LoopStates(s, target)
<1> DEFINE close == [w \in WalkState |-> IF w.stopped THEN w ELSE CloseDay(w)]
           turn  == [w \in WalkState |->
                       IF w.stopped \/ w.store.acc_day >= target THEN w
                       ELSE close[DrainExpiryList(w)]]
           first == [store |-> s, emitted |-> 0, lshare |-> 0, budget |-> budget,
                     stopped |-> FALSE]
           X     == LoopStates(s, target)
<1>1. WalkDays(s, target, n, budget) = Iterate(turn, first, n)
  BY DEF WalkDays
<1>2. s.acc_day \in Days /\ s.acc_day \in Nat /\ s.acc_per \in Nat /\ target \in Nat
  <2>1. s.acc_day \in Days /\ s.acc_per \in Nat
    BY DEF Store
  <2> QED BY <2>1, ConstantTypes DEF Days
<1>3. first \in X
  <2>1. first \in WalkState
    BY DEF WalkState
  <2>2. TotalEmittedAt(HeightOfDay(s.acc_day)) \in Nat
    BY <1>2, DayEmission
  <2> QED BY <1>2, <2>1, <2>2 DEF LoopStates, NewCheckpoints
<1>4. \A w \in X : turn[w] \in X
  <2> SUFFICES ASSUME NEW w \in X PROVE turn[w] \in X
    OBVIOUS
  <2> DEFINE u == DrainExpiryList(w)
             v == CloseDay(u)
  <2>1. w \in WalkState
    BY DEF LoopStates
  <2>2. CASE w.stopped \/ w.store.acc_day >= target
    BY <2>1, <2>2
  <2>3. CASE ~ (w.stopped \/ w.store.acc_day >= target)
    <3>1. /\ u \in WalkState /\ SameBooks(w.store, u.store) /\ u.emitted = w.emitted
      BY <2>1, DrainFrame
    <3>2. turn[w] = IF u.stopped THEN u ELSE v
      BY <2>1, <2>3, <3>1
    <3> HIDE DEF u, turn, close
    <3>3. u \in X
      BY <3>1 DEF LoopStates, SameBooks, NewCheckpoints
    <3>4. CASE u.stopped
      BY <3>2, <3>3, <3>4
    <3>5. CASE ~ u.stopped
      <4>1. /\ u.store.acc_day = w.store.acc_day /\ u.store.acc_day \in Nat
            /\ u.store.acc_day >= s.acc_day /\ u.store.acc_day < target
            /\ u.store.acc_day + 1 \in Days /\ u.store.acc_day \in Days
        <5>1. u.store \in Store
          BY <3>1 DEF WalkState
        <5>2. u.store.acc_day \in Days
          BY <5>1 DEF Store
        <5>3. u.store.acc_day = w.store.acc_day
          BY <3>1 DEF SameBooks
        <5>4. u.store.acc_day >= s.acc_day
          BY <1>2, <3>3, <5>2, ConstantTypes DEF LoopStates, Days
        <5> QED BY <1>2, <2>3, <5>2, <5>3, <5>4, ConstantTypes DEF Days
      <4>2. /\ v \in WalkState
            /\ v.store.acc_day = u.store.acc_day + 1
            /\ v.store.acc_per >= u.store.acc_per
            /\ v.store.settled = u.store.settled /\ v.store.sup_emitted = u.store.sup_emitted
            /\ v.store.pool_lshare = u.store.pool_lshare
            /\ v.store.pool_viral = u.store.pool_viral
            /\ v.store.pool_deep = u.store.pool_deep /\ v.store.pool_liq = u.store.pool_liq
            /\ v.emitted = u.emitted + TotalEmittedAt(HeightOfDay(u.store.acc_day + 1))
                                     - TotalEmittedAt(HeightOfDay(u.store.acc_day))
            /\ \A d \in Days \ {u.store.acc_day} : v.store.accAt[d] = u.store.accAt[d]
            /\ v.store.accAt[u.store.acc_day] \in {u.store.accAt[u.store.acc_day], v.store.acc_per}
        BY <3>1, <4>1, CloseDayFrame
      <4> HIDE DEF v
      <4>3. v.store.acc_per \in Nat /\ u.store.acc_per \in Nat /\ u.store.acc_per >= s.acc_per
        BY <3>1, <3>3, <4>2 DEF LoopStates, WalkState, Store
      <4>4. v.emitted = TotalEmittedAt(HeightOfDay(v.store.acc_day))
                         - TotalEmittedAt(HeightOfDay(s.acc_day))
        <5>1. /\ TotalEmittedAt(HeightOfDay(u.store.acc_day)) \in Nat
              /\ TotalEmittedAt(HeightOfDay(s.acc_day)) \in Nat
              /\ TotalEmittedAt(HeightOfDay(u.store.acc_day + 1)) \in Nat
          BY <1>2, <4>1, DayEmission
        <5>2. u.emitted = TotalEmittedAt(HeightOfDay(u.store.acc_day))
                           - TotalEmittedAt(HeightOfDay(s.acc_day))
          BY <3>3 DEF LoopStates
        <5> QED BY <4>2, <5>1, <5>2
      <4>5. NewCheckpoints(s, v.store)
        <5> SUFFICES ASSUME NEW d \in Days
                     PROVE  \/ v.store.accAt[d] = s.accAt[d]
                            \/ d >= s.acc_day /\ v.store.accAt[d] \in s.acc_per .. v.store.acc_per
          BY DEF NewCheckpoints
        <5>1. \/ u.store.accAt[d] = s.accAt[d]
              \/ d >= s.acc_day /\ u.store.accAt[d] \in s.acc_per .. u.store.acc_per
          BY <3>3 DEF LoopStates, NewCheckpoints
        <5>2. CASE v.store.accAt[d] = u.store.accAt[d]
          BY <1>2, <4>2, <4>3, <5>1, <5>2
        <5>3. CASE d = u.store.acc_day /\ v.store.accAt[d] = v.store.acc_per
          BY <1>2, <4>1, <4>2, <4>3, <5>3
        <5> QED BY <4>2, <5>2, <5>3
      <4>6. v \in X
        BY <1>2, <3>3, <4>1, <4>2, <4>3, <4>4, <4>5 DEF LoopStates
      <4> QED BY <3>2, <3>5, <4>6
    <3> QED BY <3>4, <3>5
  <2> QED BY <2>2, <2>3
<1> HIDE DEF turn, first, X
<1>5. Iterate(turn, first, n) \in X
  BY <1>3, <1>4, IterateLoop
<1> QED BY <1>1, <1>5 DEF X

-----------------------------------------------------------------------------
(***************************************************************************)
(* Types and the schedule.  Settled is the part of the inductive invariant *)
(* that speaks of the store; each operator of LasseMint keeps it, and each *)
(* action is one or more of these operators.                               *)
(***************************************************************************)
\* A store whose walk has not passed height h and whose supply counter is
\* the schedule at the day the walk has reached.
Settled(s, h) ==
  /\ s \in Store
  /\ s.acc_day <= DayOf(h)
  /\ s.settled = HeightOfDay(s.acc_day)
  /\ s.sup_emitted = TotalEmittedAt(s.settled)

\* A mint made at the height of a call, for a duration within the bounds.
Placed(m) == m.start \in Heights /\ m.days \in MinMintDays .. MaxMintDays

\* What every operator on the store leaves of an earlier store.
Later(s, t) ==
  /\ t.acc_per >= s.acc_per
  /\ t.acc_day >= s.acc_day
  /\ NewCheckpoints(s, t)

-----------------------------------------------------------------------------
(* The operators on the store.                                             *)

\* The fields of a store, one by one.
LEMMA StoreFields ==
  ASSUME NEW s \in Store
  PROVE  /\ s.acc_per \in Nat /\ s.acc_held \in Nat /\ s.acc_day \in Days /\ s.acc_day \in Nat
         /\ s.settled \in Nat /\ s.sup_emitted \in Nat /\ s.shares_total \in Int
         /\ s.shr \in [Accounts -> Nat] /\ s.exp \in [Days -> Nat]
         /\ s.accAt \in [Days -> Nat] /\ s.explCur \in [Days -> Nat]
         /\ s.expl \in [Days -> Seq(Seq(Entry))]
         /\ s.pool_lshare \in Nat /\ s.pool_viral \in Nat
         /\ s.pool_deep \in Nat /\ s.pool_liq \in Nat
<1>1. s.acc_day \in Days
  BY DEF Store
<1>2. s.acc_day \in Nat
  BY <1>1, ConstantTypes DEF Days
<1> QED BY <1>1, <1>2 DEF Store

\* Days do not run backwards (DayOf).
LEMMA DayOfMono ==
  ASSUME NEW g \in Nat, NEW h \in Nat, g <= h
  PROVE  DayOf(g) <= DayOf(h)
<1>1. DayOf(g) \in Nat /\ DayOf(h) \in Nat
  BY DayOfNat
<1>2. CASE g <= GenesisHeight
  <2>1. DayOf(g) = 0
    BY <1>2 DEF DayOf
  <2> QED BY <1>1, <2>1
<1>3. CASE g > GenesisHeight
  <2> DEFINE x == g - GenesisHeight
             y == h - GenesisHeight
             p == x \div HeightsPerDay
             q == y \div HeightsPerDay
  <2>1. x \in Nat /\ y \in Nat /\ x <= y /\ DayOf(g) = p /\ DayOf(h) = q
    BY <1>3, ConstantTypes DEF DayOf
  <2> HIDE DEF x, y
  <2>2. /\ p \in Nat /\ x % HeightsPerDay \in 0 .. HeightsPerDay - 1
        /\ x = HeightsPerDay * p + (x % HeightsPerDay)
    BY <2>1, ConstantTypes, DivMod
  <2>3. /\ q \in Nat /\ y % HeightsPerDay \in 0 .. HeightsPerDay - 1
        /\ y = HeightsPerDay * q + (y % HeightsPerDay)
    BY <2>1, ConstantTypes, DivMod
  <2> HIDE DEF p, q
  <2>4. ASSUME q + 1 <= p PROVE FALSE
    <3>1. HeightsPerDay * (q + 1) <= HeightsPerDay * p
      BY <2>2, <2>3, <2>4, ConstantTypes, ProductMono
    <3>2. HeightsPerDay * (q + 1) = HeightsPerDay * q + HeightsPerDay
      BY <2>3, ConstantTypes
    <3>3. HeightsPerDay * q \in Nat /\ HeightsPerDay * p \in Nat
      BY <2>2, <2>3, ConstantTypes, ProductNat
    <3> QED BY <2>1, <2>2, <2>3, <3>1, <3>2, <3>3, ConstantTypes
  <2> QED BY <2>1, <2>2, <2>3, <2>4
<1> QED BY <1>2, <1>3, ConstantTypes

\* A walk of any length and any budget keeps the supply on the schedule
\* (accrueWalk).
LEMMA AccrueFrame ==
  ASSUME NEW s, NEW h \in Heights, Settled(s, h), NEW n \in Int, NEW budget \in Nat
  PROVE  Settled(AccrueWalk(s, h, n, budget), h) /\ Later(s, AccrueWalk(s, h, n, budget))
<1> DEFINE limit  == IF n <= 0 \/ n > MaxAccrualDays THEN MaxAccrualDays ELSE n
           target == DayOf(h)
           w      == WalkDays(s, target, limit, budget)
           alloc  == Split(w.emitted)
           pob    == SplitPoB(alloc.pob)
           t      == AccrueWalk(s, h, n, budget)
<1>1. s \in Store /\ target \in Days /\ target \in Nat /\ limit \in Nat
  <2>1. target \in Days
    BY DayOfCall
  <2> QED BY <2>1, LasseMintAssumption, ConstantTypes DEF Settled, Days
<1>2. s.acc_day \in Days /\ s.acc_day \in Nat /\ s.acc_per \in Nat /\ s.acc_day <= target
  BY <1>1, ConstantTypes DEF Settled, Store, Days
<1>3. CASE s.acc_day >= target
  <2>1. t = s
    BY <1>3 DEF AccrueWalk
  <2> QED BY <1>2, <2>1 DEF Later, NewCheckpoints
<1>4. CASE s.acc_day < target
  <2>1. t = CreditWalk[w]
    <3>1. ~ (s.acc_day >= target)
      BY <1>1, <1>2, <1>4
    <3> QED BY <3>1, Zenon DEF AccrueWalk
  <2> HIDE DEF limit, target, t
  <2>2. w \in LoopStates(s, target)
    BY <1>1, <1>2, WalkDaysFrame
  <2> HIDE DEF w
  <2>3. w \in WalkState
    BY <2>2 DEF LoopStates
  <2>4. w.store \in Store /\ w.emitted \in Nat /\ w.lshare \in Nat
    BY <2>3 DEF WalkState
  <2>5. /\ w.store.acc_day \in Days /\ w.store.acc_day \in Nat
        /\ s.acc_day <= w.store.acc_day /\ w.store.acc_day <= target
    BY <2>2, <2>4, ConstantTypes DEF LoopStates, Store, Days
  <2>6. alloc.lshare \in Nat /\ alloc.liquidity \in Nat /\ alloc.pob \in Nat
    BY <2>4, SplitExact
  <2> HIDE DEF alloc
  <2>7. pob.viral \in Nat /\ pob.deep \in Nat
    BY <2>6, SplitPoBExact
  <2> HIDE DEF pob
  <2>8. t = [w.store EXCEPT !.sup_emitted = @ + w.emitted,
                            !.pool_viral  = @ + pob.viral,
                            !.pool_deep   = @ + pob.deep,
                            !.pool_liq    = @ + alloc.liquidity,
                            !.pool_lshare = @ + w.lshare,
                            !.settled     = HeightOfDay(w.store.acc_day)]
    BY <2>1, <2>3 DEF CreditWalk, alloc, pob
  <2>9. HeightOfDay(w.store.acc_day) \in Nat
    BY <2>5, HeightOfDayNat
  <2>10. t \in Store
    <3> DEFINE a == w.store.sup_emitted + w.emitted
               b == w.store.pool_viral + pob.viral
               c == w.store.pool_deep + pob.deep
               d == w.store.pool_liq + alloc.liquidity
               e == w.store.pool_lshare + w.lshare
    <3>1. a \in Nat /\ b \in Nat /\ c \in Nat /\ d \in Nat /\ e \in Nat
      <4>1. /\ w.store.sup_emitted \in Nat /\ w.store.pool_viral \in Nat
            /\ w.store.pool_deep \in Nat /\ w.store.pool_liq \in Nat
            /\ w.store.pool_lshare \in Nat
        BY <2>4, StoreFields
      <4> QED BY <2>4, <2>6, <2>7, <4>1
    <3>2. t = [w.store EXCEPT !.sup_emitted = a, !.pool_viral = b, !.pool_deep = c,
                              !.pool_liq = d, !.pool_lshare = e,
                              !.settled = HeightOfDay(w.store.acc_day)]
      BY <2>8
    <3> HIDE DEF a, b, c, d, e
    <3> QED BY <2>4, <2>9, <3>1, <3>2 DEF Store
  <2>11. /\ t.acc_day = w.store.acc_day /\ t.acc_per = w.store.acc_per
         /\ t.accAt = w.store.accAt
         /\ t.settled = HeightOfDay(w.store.acc_day)
         /\ t.sup_emitted = w.store.sup_emitted + w.emitted
    BY <2>4, <2>8 DEF Store
  <2>12. t.sup_emitted = TotalEmittedAt(t.settled)
    <3>1. /\ w.store.sup_emitted = TotalEmittedAt(HeightOfDay(s.acc_day))
          /\ w.emitted = TotalEmittedAt(HeightOfDay(w.store.acc_day))
                           - TotalEmittedAt(HeightOfDay(s.acc_day))
      BY <2>2 DEF LoopStates, Settled
    <3>2. /\ TotalEmittedAt(HeightOfDay(s.acc_day)) \in Nat
          /\ TotalEmittedAt(HeightOfDay(w.store.acc_day)) \in Nat
      BY <1>2, <2>5, DayEmission
    <3> QED BY <2>11, <3>1, <3>2
  <2>13. Later(s, t)
    BY <2>2, <2>11 DEF Later, NewCheckpoints, LoopStates
  <2> QED BY <2>5, <2>10, <2>11, <2>12, <2>13 DEF Settled, target, t
<1> QED BY <1>1, <1>2, <1>3, <1>4

\* Recycling adds to the pool and raises the accumulator, and no more
\* (RecycleThroughAccumulator).
LEMMA RecycleFrame ==
  ASSUME NEW h, NEW s, Settled(s, h), NEW amount \in Nat
  PROVE  /\ Settled(Recycle(s, amount), h) /\ Later(s, Recycle(s, amount))
         /\ Recycle(s, amount).accAt = s.accAt
         /\ Recycle(s, amount).acc_day = s.acc_day
<1> DEFINE step == AccumulatorStep(s.acc_per, amount, s.acc_held, s.shares_total)
           pool == s.pool_lshare + amount
           t    == [s EXCEPT !.pool_lshare = pool, !.acc_per = step.acc,
                             !.acc_held = step.held]
<1>1. s \in Store /\ s.acc_per \in Nat /\ s.acc_held \in Nat /\ s.shares_total \in Int
      /\ s.acc_day \in Nat /\ pool \in Nat
  <2>1. s \in Store
    BY DEF Settled
  <2> HIDE DEF t, step
  <2> QED BY <2>1, StoreFields
<1>2. step.acc \in Nat /\ step.held \in Nat /\ step.acc >= s.acc_per
  BY <1>1, AccumulatorStepSound
<1>3. Recycle(s, amount) = IF amount = 0 THEN s ELSE t
  BY DEF Recycle
<1> HIDE DEF step, pool
<1>4. /\ t \in Store /\ t.acc_per = step.acc /\ t.acc_day = s.acc_day /\ t.accAt = s.accAt
      /\ t.settled = s.settled /\ t.sup_emitted = s.sup_emitted
  BY <1>1, <1>2 DEF Store
<1> HIDE DEF t
<1> QED BY <1>1, <1>2, <1>3, <1>4 DEF Settled, Later, NewCheckpoints

\* What registering, releasing and unscheduling a mint leave alone.
SameYield(s, t) ==
  /\ t.acc_per = s.acc_per /\ t.acc_day = s.acc_day /\ t.accAt = s.accAt
  /\ t.settled = s.settled /\ t.sup_emitted = s.sup_emitted

\* A step that leaves the yield rows alone keeps the supply on the schedule.
LEMMA SameYieldFrame ==
  ASSUME NEW h, NEW s, Settled(s, h), NEW t \in Store, SameYield(s, t)
  PROVE  Settled(t, h) /\ Later(s, t)
<1>1. s.acc_per \in Nat /\ s.acc_day \in Nat
  BY ConstantTypes DEF Settled, Store, Days
<1> QED BY <1>1 DEF Settled, Later, SameYield, NewCheckpoints

\* registerMints writes the vote, the denominator and the schedule.
LEMMA RegisterMintFrame ==
  ASSUME NEW s \in Store, NEW a \in Accounts, NEW m, m.shares \in Nat, Placed(m)
  PROVE  RegisterMint(s, a, m) \in Store /\ SameYield(s, RegisterMint(s, a, m))
<1> DEFINE day == MaturityDay(m)
           e   == [owner |-> a, shares |-> m.shares]
           l   == AddExpiryEntry(s.expl[day], e)
<1>1. day \in Days
  BY MaturityInDays DEF Placed
<1>2. e \in Entry /\ s.expl[day] \in Seq(Seq(Entry))
  BY <1>1 DEF Entry, Store
<1> HIDE DEF e
<1>3. l \in Seq(Seq(Entry))
  BY <1>2, AddExpiryEntryType
<1>4. RegisterMint(s, a, m) = [s EXCEPT !.shr[a] = @ + m.shares,
                !.shares_total = @ + m.shares,
                !.exp[day] = @ + m.shares,
                !.expl[day] = l]
  <2>1. s.expl \in [Days -> Seq(Seq(Entry))]
    BY DEF Store
  <2> QED BY <1>1, <2>1 DEF RegisterMint, e
<1> DEFINE v == s.shr[a] + m.shares
           n == s.shares_total + m.shares
           x == s.exp[day] + m.shares
<1>5. v \in Nat /\ n \in Int /\ x \in Nat
  <2> HIDE DEF l, day
  <2>1. /\ s.shr[a] \in Nat /\ s.shares_total \in Int /\ s.exp[day] \in Nat
    BY <1>1, StoreFields
  <2> QED BY <2>1
<1>6. RegisterMint(s, a, m)
        = [s EXCEPT !.shr[a] = v, !.shares_total = n, !.exp[day] = x, !.expl[day] = l]
  <2> HIDE DEF l, day
  <2> QED BY <1>1, <1>4 DEF Store
<1> HIDE DEF l, day, v, n, x
<1> DEFINE u == [s EXCEPT !.shr[a] = v, !.shares_total = n]
           t == [u EXCEPT !.exp[day] = x, !.expl[day] = l]
<1>7. u \in Store /\ SameYield(s, u)
  BY <1>5 DEF Store, SameYield
<1>8. RegisterMint(s, a, m) = t
  BY <1>6
<1> HIDE DEF u
<1>9. t \in Store /\ SameYield(u, t)
  BY <1>1, <1>3, <1>5, <1>7 DEF Store, SameYield
<1> QED BY <1>7, <1>8, <1>9 DEF SameYield

\* A new position starts at the accumulator of its store and records a chunk
\* of the list it was appended to (registerMints).
LEMMA NewMintType ==
  ASSUME NEW s \in Store, NEW a \in Accounts, NEW principal \in Nat, NEW shares \in Nat,
         NEW start \in Heights, NEW days \in MinMintDays .. MaxMintDays
  PROVE  LET m == NewMint(s, a, principal, shares, start, days)
         IN  /\ m \in Mint /\ Placed(m)
             /\ m.shares = shares /\ m.accStart = s.acc_per
             /\ m.start = start /\ m.days = days /\ ~ m.ended
<1> DEFINE m == [principal |-> principal, shares |-> shares, start |-> start, days |-> days,
                 goodAccounting |-> FALSE, ended |-> FALSE, accStart |-> s.acc_per,
                 expChunk |-> 0]
           day == MaturityDay(m)
           l   == RegisterMint(s, a, m).expl[day]
<1>1. /\ NewMint(s, a, principal, shares, start, days) = [m EXCEPT !.expChunk = Len(l)]
  BY DEF NewMint
<1>2. start \in Nat /\ days \in Nat /\ s.acc_per \in Nat
  BY ConstantTypes, EngineAssumption DEF Store
<1>3. m.shares \in Nat /\ Placed(m)
  BY DEF Placed
<1>4. day \in Days
  <2> HIDE DEF m
  <2> QED BY <1>3, MaturityInDays DEF Placed
<1>5. RegisterMint(s, a, m) \in Store
  <2> HIDE DEF m
  <2> QED BY <1>3, RegisterMintFrame
<1> HIDE DEF day
<1>6. Len(l) \in Nat
  BY <1>4, <1>5 DEF Store
<1> HIDE DEF l
<1>7. [m EXCEPT !.expChunk = Len(l)] \in Mint
  BY <1>2, <1>6 DEF Mint
<1> QED BY <1>1, <1>7 DEF Placed

\* The vote and the entry of a mint closed before it was retired
\* (removeExpiryEntry).
LEMMA ReleaseVotesFrame ==
  ASSUME NEW s \in Store, NEW a \in Accounts, NEW m \in Mint, Placed(m)
  PROVE  ReleaseVotes(s, a, m) \in Store /\ SameYield(s, ReleaseVotes(s, a, m))
<1> DEFINE day == MaturityDay(m)
           e   == [owner |-> a, shares |-> m.shares]
           l   == RemoveExpiryEntry(s.expl[day], m.expChunk, e)
           v   == Monus(s.shr[a], m.shares)
           t   == [s EXCEPT !.shr[a] = v, !.expl[day] = l]
<1>1. day \in Days
  BY MaturityInDays DEF Placed
<1>2. s.shr \in [Accounts -> Nat] /\ s.expl \in [Days -> Seq(Seq(Entry))] /\ m.shares \in Nat
  BY StoreFields DEF Mint
<1> HIDE DEF day, e
<1>3. l \in Seq(Seq(Entry)) /\ v \in Nat
  BY <1>1, <1>2, RemoveExpiryEntryType, MonusNat
<1>4. ReleaseVotes(s, a, m) = t
  BY <1>1, <1>2 DEF ReleaseVotes, day, e
<1> HIDE DEF l, v
<1>5. t \in Store /\ SameYield(s, t)
  BY <1>1, <1>3 DEF Store, SameYield
<1> QED BY <1>4, <1>5

\* The schedule of a mint closed before its maturity day (unscheduleExpiry).
LEMMA UnscheduleExpiryFrame ==
  ASSUME NEW s \in Store, NEW day \in Days, NEW shares \in Nat
  PROVE  /\ UnscheduleExpiry(s, day, shares) \in Store
         /\ SameYield(s, UnscheduleExpiry(s, day, shares))
<1> DEFINE x == Monus(s.exp[day], shares)
           t == [s EXCEPT !.exp[day] = x]
<1>1. s.exp \in [Days -> Nat]
  BY StoreFields
<1>2. x \in Nat /\ UnscheduleExpiry(s, day, shares) = t
  BY <1>1, MonusNat DEF UnscheduleExpiry
<1> HIDE DEF x
<1>3. t \in Store /\ SameYield(s, t)
  BY <1>2 DEF Store, SameYield
<1> QED BY <1>2, <1>3

-----------------------------------------------------------------------------
(* The inductive invariant.  TypeOK alone is not inductive: the walk reads *)
(* lists and checkpoints at the maturity day of a mint, which is a modelled *)
(* day only because a mint starts at the height of a call, and at a day    *)
(* that the walk has not passed.                                           *)
SafetyInv ==
  /\ TypeOK
  /\ Settled(store, height)
  /\ \A a \in Accounts : \A i \in DOMAIN mint[a] : Placed(mint[a][i])

\* Nothing is emitted, minted or scheduled before the first call.
LEMMA InitSafety == Init => SafetyInv
<1> SUFFICES ASSUME Init PROVE SafetyInv
  OBVIOUS
<1> USE DEF Init
<1>1. 0 \in Days /\ GenesisHeight \in Heights /\ GenesisHeight \in Nat
  BY ConstantTypes, LasseMintAssumption DEF Days
<1>2. store \in Store
  <2>1. <<>> \in Seq(Seq(Entry))
    OBVIOUS
  <2> DEFINE x == [d \in Days |-> 0]
             y == [d \in Days |-> <<>>]
             z == [a \in Accounts |-> 0]
  <2>2. x \in [Days -> Nat] /\ y \in [Days -> Seq(Seq(Entry))] /\ z \in [Accounts -> Nat]
    BY <2>1
  <2>3. store = [acc_per |-> 0, acc_held |-> 0, acc_day |-> 0, settled |-> GenesisHeight,
              shares_total |-> 0, shr |-> z, exp |-> x, accAt |-> x,
              expl |-> y, explCur |-> x, sup_emitted |-> 0,
              pool_lshare |-> 0, pool_viral |-> 0, pool_deep |-> 0, pool_liq |-> 0]
    OBVIOUS
  <2> HIDE DEF x, y, z, Init
  <2> QED BY <1>1, <2>2, <2>3 DEF Store
<1>3. Settled(store, height)
  <2>1. store.acc_day = 0 /\ store.settled = GenesisHeight /\ store.sup_emitted = 0
    OBVIOUS
  <2>2. HeightOfDay(0) = GenesisHeight /\ TotalEmittedAt(GenesisHeight) = 0
        /\ DayOf(GenesisHeight) = 0
    BY <1>1, ConstantTypes DEF HeightOfDay, TotalEmittedAt, DayOf
  <2> QED BY <1>2, <2>1, <2>2 DEF Settled
<1>4. mint \in [Accounts -> Seq(Mint)]
  OBVIOUS
<1>5. bal \in [Accounts -> Nat] /\ supMigrated \in Nat /\ migDone \subseteq Accounts
  OBVIOUS
<1> QED BY <1>1, <1>2, <1>3, <1>4, <1>5 DEF SafetyInv, TypeOK

\* Every position in p starts and lasts as a call can make it.
AllPlaced(p) == \A a \in Accounts : \A i \in DOMAIN p[a] : Placed(p[a][i])

\* Appending a position keeps the positions of every account.
LEMMA AppendPlaced ==
  ASSUME NEW p \in [Accounts -> Seq(Mint)], AllPlaced(p), NEW a \in Accounts,
         NEW m \in Mint, Placed(m), NEW new, new = [p EXCEPT ![a] = Append(@, m)]
  PROVE  new \in [Accounts -> Seq(Mint)] /\ AllPlaced(new)
<1>1. p[a] \in Seq(Mint)
  OBVIOUS
<1> DEFINE l == Append(p[a], m)
<1>2. l \in Seq(Mint) /\ DOMAIN l = 1 .. Len(p[a]) + 1 /\ DOMAIN p[a] = 1 .. Len(p[a])
      /\ Len(p[a]) \in Nat
  BY <1>1
<1>3. \A i \in DOMAIN l : Placed(l[i])
  <2> SUFFICES ASSUME NEW i \in DOMAIN l PROVE Placed(l[i])
    OBVIOUS
  <2>1. CASE i = Len(p[a]) + 1
    BY <1>1, <2>1
  <2>2. CASE i \in DOMAIN p[a]
    <3>1. l[i] = p[a][i]
      BY <1>1, <2>2
    <3> QED BY <2>2, <3>1 DEF AllPlaced
  <2> QED BY <1>2, <2>1, <2>2
<1>4. new[a] = l /\ \A b \in Accounts \ {a} : new[b] = p[b]
  OBVIOUS
<1>5. new \in [Accounts -> Seq(Mint)]
  BY <1>2
<1> HIDE DEF l
<1> QED BY <1>3, <1>4, <1>5 DEF AllPlaced

LEMMA AppendMint ==
  ASSUME SafetyInv, NEW a \in Accounts, NEW m \in Mint, Placed(m),
         NEW new, new = [mint EXCEPT ![a] = Append(@, m)]
  PROVE  /\ new \in [Accounts -> Seq(Mint)]
         /\ \A b \in Accounts : \A i \in DOMAIN new[b] : Placed(new[b][i])
<1>1. mint \in [Accounts -> Seq(Mint)] /\ AllPlaced(mint)
  BY DEF SafetyInv, TypeOK, AllPlaced
<1> QED BY <1>1, AppendPlaced DEF AllPlaced

\* Replacing a position by one with the same start and duration.
LEMMA ReplaceMint ==
  ASSUME SafetyInv, NEW a \in Accounts, NEW id \in DOMAIN mint[a], NEW m \in Mint,
         m.start = mint[a][id].start, m.days = mint[a][id].days,
         NEW new, new = [mint EXCEPT ![a][id] = m]
  PROVE  /\ new \in [Accounts -> Seq(Mint)]
         /\ \A b \in Accounts : \A i \in DOMAIN new[b] : Placed(new[b][i])
<1>1. mint \in [Accounts -> Seq(Mint)] /\ mint[a] \in Seq(Mint)
  BY DEF SafetyInv, TypeOK
<1>2. Placed(m)
  BY DEF SafetyInv, Placed
<1> DEFINE l == [mint[a] EXCEPT ![id] = m]
<1>3. l \in Seq(Mint) /\ DOMAIN l = DOMAIN mint[a]
  BY <1>1
<1>4. \A i \in DOMAIN l : Placed(l[i])
  BY <1>1, <1>2, <1>3 DEF SafetyInv
<1>5. new[a] = l /\ \A b \in Accounts \ {a} : new[b] = mint[b]
  BY <1>1
<1>6. new \in [Accounts -> Seq(Mint)]
  BY <1>1, <1>3
<1> HIDE DEF l
<1> QED BY <1>4, <1>5, <1>6 DEF SafetyInv

-----------------------------------------------------------------------------
(* The actions.                                                            *)

\* Time passes: the walk only falls further behind.
LEMMA TickSafety == SafetyInv /\ Tick => SafetyInv'
<1> SUFFICES ASSUME SafetyInv, Tick PROVE SafetyInv'
  OBVIOUS
<1>1. /\ height' \in Heights /\ height \in Heights /\ height' > height
      /\ UNCHANGED <<store, mint, bal, migDone, supMigrated>>
  BY DEF Tick, SafetyInv, TypeOK
<1>2. DayOf(height) \in Nat /\ DayOf(height') \in Nat /\ DayOf(height) <= DayOf(height')
  BY <1>1, ConstantTypes, DayOfNat, DayOfMono
<1>3. store.acc_day \in Nat
  BY StoreFields DEF SafetyInv, TypeOK
<1>4. Settled(store', height')
  BY <1>1, <1>2, <1>3 DEF SafetyInv, Settled
<1> QED BY <1>1, <1>4 DEF SafetyInv, TypeOK

\* A call that only walks (`settle' and `advance').
LEMMA WalkSafety ==
  ASSUME SafetyInv, NEW n \in Int, NEW budget \in Nat,
         store' = AccrueWalk(store, height, n, budget),
         UNCHANGED <<height, mint, bal, migDone, supMigrated>>
  PROVE  SafetyInv'
<1>1. height \in Heights /\ Settled(store, height)
  BY DEF SafetyInv, TypeOK
<1>2. Settled(store', height)
  BY <1>1, AccrueFrame
<1> QED BY <1>2 DEF SafetyInv, TypeOK, Settled

\* Every ordinary call walks first.
LEMMA AccrueSettled ==
  ASSUME SafetyInv
  PROVE  Settled(Accrue(store, height), height) /\ Later(store, Accrue(store, height))
<1>1. height \in Heights /\ Settled(store, height)
  BY DEF SafetyInv, TypeOK
<1>2. MaxAccrualDays \in Int /\ UserRetireBudget \in Nat
  BY LasseMintAssumption
<1> QED BY <1>1, <1>2, AccrueFrame DEF Accrue

\* The owner's migration of one account.
LEMMA CreditMigrationSafety ==
  ASSUME SafetyInv, NEW a \in Accounts, CreditMigration(a)
  PROVE  SafetyInv'
<1> DEFINE liquid == Snapshot[a].liquid
           staked == Snapshot[a].staked
           m      == NewMint(store, a, staked, staked, GenesisHeight, MigrationMintDays)
<1>1. liquid \in Nat /\ staked \in Nat /\ GenesisHeight \in Heights
      /\ MigrationMintDays \in MinMintDays .. MaxMintDays
  BY LasseMintAssumption
<1>2. store \in Store /\ Settled(store, height)
  BY DEF SafetyInv, TypeOK
<1>3. m \in Mint /\ Placed(m) /\ m.shares \in Nat
  BY <1>1, <1>2, NewMintType
<1>4. /\ supMigrated' = supMigrated + liquid + staked
      /\ bal' = [bal EXCEPT ![a] = @ + liquid]
      /\ IF staked > 0
         THEN /\ mint' = [mint EXCEPT ![a] = Append(@, m)]
              /\ store' = RegisterMint(store, a, m)
         ELSE UNCHANGED <<mint, store>>
      /\ migDone' = migDone \union {a}
      /\ UNCHANGED height
  BY DEF CreditMigration
<1> HIDE DEF m
<1>5. supMigrated' \in Nat /\ bal' \in [Accounts -> Nat] /\ migDone' \subseteq Accounts
      /\ height' = height /\ height \in Heights
  <2>1. /\ supMigrated \in Nat /\ bal \in [Accounts -> Nat] /\ migDone \subseteq Accounts
        /\ height \in Heights
    BY DEF SafetyInv, TypeOK
  <2> HIDE DEF liquid, staked
  <2>2. supMigrated + liquid + staked \in Nat /\ bal[a] + liquid \in Nat
    BY <1>1, <2>1
  <2>3. [bal EXCEPT ![a] = @ + liquid] \in [Accounts -> Nat]
    BY <2>1, <2>2
  <2> QED BY <1>4, <2>1, <2>2, <2>3
<1>6. CASE staked > 0
  <2>1. RegisterMint(store, a, m) \in Store /\ SameYield(store, RegisterMint(store, a, m))
    BY <1>2, <1>3, RegisterMintFrame
  <2>2. Settled(RegisterMint(store, a, m), height)
    BY <1>2, <2>1, SameYieldFrame
  <2>3. /\ mint' \in [Accounts -> Seq(Mint)]
        /\ \A b \in Accounts : \A i \in DOMAIN mint'[b] : Placed(mint'[b][i])
    BY <1>3, <1>4, <1>6, AppendMint
  <2>4. store' \in Store /\ Settled(store', height)
    BY <1>4, <1>6, <2>1, <2>2
  <2> QED BY <1>5, <2>3, <2>4 DEF SafetyInv, TypeOK, Settled
<1>7. CASE ~ (staked > 0)
  <2>1. mint' = mint /\ store' = store
    BY <1>4, <1>7
  <2> QED BY <1>5, <2>1 DEF SafetyInv, TypeOK, Settled
<1> QED BY <1>6, <1>7

\* A mint: the walk first, then the position.
LEMMA CreateMintSafety ==
  ASSUME SafetyInv, NEW a \in Accounts, NEW p \in Principals, NEW d \in Durations,
         CreateMint(a, p, d)
  PROVE  SafetyInv'
<1> DEFINE s      == Accrue(store, height)
           params == [volumeStart |-> VolumeStart, volumeEnd |-> VolumeEnd,
                      shareRate |-> ShareRate(height)]
           shares == ComputeShares(p, d, params)
           m      == NewMint(s, a, p, shares, height, d)
<1>1. /\ p \in Nat /\ d \in MinMintDays .. MaxMintDays /\ bal[a] >= p
      /\ bal' = [bal EXCEPT ![a] = @ - p]
      /\ mint' = [mint EXCEPT ![a] = Append(@, m)]
      /\ store' = RegisterMint(s, a, m)
      /\ UNCHANGED <<height, migDone, supMigrated>>
  BY LasseMintAssumption DEF CreateMint, MayMint
<1>2. Settled(s, height) /\ height \in Heights /\ height \in Nat
  BY AccrueSettled, ConstantTypes DEF SafetyInv, TypeOK
<1>3. s \in Store
  BY <1>2 DEF Settled
<1>4. shares \in Nat
  <2>1. params.volumeStart \in Nat /\ params.volumeEnd \in Nat
        /\ params.shareRate \in Nat \ {0}
    BY <1>2, LasseMintAssumption, ShareRatePositive
  <2>2. d \in Nat
    BY <1>1, EngineAssumption
  <2> HIDE DEF params
  <2> QED BY <1>1, <2>1, <2>2, ComputeSharesNat
<1> HIDE DEF s, shares
<1>5. m \in Mint /\ Placed(m) /\ m.shares \in Nat
  BY <1>1, <1>2, <1>3, <1>4, NewMintType
<1> HIDE DEF m
<1>6. store' \in Store /\ SameYield(s, store')
  BY <1>1, <1>3, <1>5, RegisterMintFrame
<1>7. Settled(store', height)
  BY <1>2, <1>6, SameYieldFrame
<1>8. /\ mint' \in [Accounts -> Seq(Mint)]
      /\ \A b \in Accounts : \A i \in DOMAIN mint'[b] : Placed(mint'[b][i])
  BY <1>1, <1>5, AppendMint
<1>9. bal' \in [Accounts -> Nat]
  BY <1>1 DEF SafetyInv, TypeOK
<1> QED BY <1>1, <1>6, <1>7, <1>8, <1>9 DEF SafetyInv, TypeOK, Settled

\* A claim, an early end or a sweep: the walk, the settlement, the release of
\* what the walk had not retired, the recycling (endMint).
LEMMA EndMintSafety ==
  ASSUME SafetyInv, NEW a \in Accounts, NEW id \in DOMAIN mint[a], NEW sweep,
         EndMint(a, id, sweep)
  PROVE  SafetyInv'
<1> DEFINE m         == mint[a][id]
           s         == Accrue(store, height)
           day       == MaturityDay(m)
           retired   == s.acc_day > day
           accEnd    == IF IsMature(m, height) THEN s.accAt[day] ELSE s.acc_per
           accrued   == AtMost(Entitlement(m.shares, m.accStart, accEnd), s.pool_lshare)
           payout    == SettleMint(m, height, accrued)
           paid      == [s EXCEPT !.pool_lshare = @ - accrued]
           unvoted   == IF retired \/ s.explCur[day] >= m.expChunk THEN paid
                        ELSE ReleaseVotes(paid, a, m)
           uncounted == [unvoted EXCEPT !.shares_total = @ - m.shares]
           released  == IF retired THEN unvoted
                        ELSE UnscheduleExpiry(uncounted, day, m.shares)
           ended     == [m EXCEPT !.ended = TRUE]
<1>1. /\ mint' = [mint EXCEPT ![a][id].ended = TRUE]
      /\ bal' = [bal EXCEPT ![a] = @ + payout.toOwner]
      /\ store' = Recycle(released, payout.toRewardPool)
      /\ UNCHANGED <<height, migDone, supMigrated>>
  BY DEF EndMint
<1>2. /\ mint[a] \in Seq(Mint) /\ m \in Mint /\ Placed(m) /\ day \in Days
      /\ m.shares \in Nat /\ m.principal \in Nat /\ m.accStart \in Nat
      /\ m.start \in Nat /\ m.days \in Nat /\ m.goodAccounting \in BOOLEAN
  <2>1. mint[a] \in Seq(Mint) /\ Placed(m)
    BY DEF SafetyInv, TypeOK
  <2>2. m \in Mint
    BY <2>1
  <2> HIDE DEF m, day
  <2>3. day \in Days
    BY <2>1, MaturityInDays DEF Placed, day
  <2> QED BY <2>1, <2>2, <2>3 DEF Mint
<1>3. s \in Store /\ Settled(s, height) /\ height \in Heights /\ height \in Nat
  BY AccrueSettled, ConstantTypes DEF SafetyInv, TypeOK, Settled
<1> HIDE DEF m, s, day
<1>4. accrued \in Nat /\ accrued <= s.pool_lshare
  <2>1. accEnd \in Nat
    BY <1>2, <1>3, StoreFields
  <2> DEFINE e == Entitlement(m.shares, m.accStart, accEnd)
  <2>2. e \in Nat
    <3> HIDE DEF accEnd
    <3>1. accEnd <= accEnd
      BY <2>1
    <3> QED BY <1>2, <2>1, <3>1, EntitlementMono
  <2>3. s.pool_lshare \in Nat
    BY <1>3, StoreFields
  <2> HIDE DEF e, accEnd
  <2>4. accrued = AtMost(e, s.pool_lshare)
    BY DEF e
  <2> QED BY <2>2, <2>3, <2>4 DEF AtMost
<1> HIDE DEF accrued
<1>5. payout.toOwner \in Nat /\ payout.toRewardPool \in Nat
  BY <1>2, <1>3, <1>4, SettlementExact
<1> HIDE DEF payout
<1>6. paid \in Store /\ SameYield(s, paid)
  <2> DEFINE pool == s.pool_lshare - accrued
  <2>1. pool \in Nat /\ paid = [s EXCEPT !.pool_lshare = pool]
    <3>1. s.pool_lshare \in Nat
      BY <1>3, StoreFields
    <3> QED BY <1>4, <3>1
  <2> HIDE DEF pool, paid
  <2> QED BY <1>3, <2>1 DEF Store, SameYield
<1> HIDE DEF paid
<1>7. unvoted \in Store /\ SameYield(s, unvoted)
  <2>1. ReleaseVotes(paid, a, m) \in Store /\ SameYield(paid, ReleaseVotes(paid, a, m))
    BY <1>2, <1>6, ReleaseVotesFrame
  <2>2. unvoted \in {paid, ReleaseVotes(paid, a, m)}
    OBVIOUS
  <2> HIDE DEF unvoted
  <2> QED BY <1>6, <2>1, <2>2 DEF SameYield
<1> HIDE DEF unvoted
<1>8. uncounted \in Store /\ SameYield(s, uncounted)
  <2> DEFINE n == unvoted.shares_total - m.shares
  <2>1. n \in Int /\ uncounted = [unvoted EXCEPT !.shares_total = n]
    <3>1. unvoted.shares_total \in Int
      BY <1>7, StoreFields
    <3> QED BY <1>2, <3>1
  <2> HIDE DEF n, uncounted
  <2> QED BY <1>7, <2>1 DEF Store, SameYield
<1> HIDE DEF uncounted
<1>9. released \in Store /\ SameYield(s, released)
  <2>1. /\ UnscheduleExpiry(uncounted, day, m.shares) \in Store
        /\ SameYield(uncounted, UnscheduleExpiry(uncounted, day, m.shares))
    BY <1>2, <1>8, UnscheduleExpiryFrame
  <2> QED BY <1>7, <1>8, <2>1 DEF SameYield
<1> HIDE DEF released
<1>10. Settled(released, height)
  BY <1>3, <1>9, SameYieldFrame
<1>11. Settled(store', height)
  BY <1>1, <1>5, <1>10, RecycleFrame
<1>12. ended \in Mint /\ ended.start = m.start /\ ended.days = m.days
       /\ mint' = [mint EXCEPT ![a][id] = ended]
  <2>1. ended \in Mint /\ ended.start = m.start /\ ended.days = m.days
    BY <1>2 DEF Mint
  <2> QED BY <1>1, <2>1 DEF m
<1> HIDE DEF ended
<1>13. /\ mint' \in [Accounts -> Seq(Mint)]
       /\ \A b \in Accounts : \A i \in DOMAIN mint'[b] : Placed(mint'[b][i])
  BY <1>12, ReplaceMint DEF m
<1>14. bal' \in [Accounts -> Nat]
  BY <1>1, <1>5 DEF SafetyInv, TypeOK
<1> QED BY <1>1, <1>11, <1>13, <1>14 DEF SafetyInv, TypeOK, Settled

\* Arming changes one flag of one position.
LEMMA ArmSafety ==
  ASSUME SafetyInv, NEW a \in Accounts, NEW id \in DOMAIN mint[a], ArmGoodAccounting(a, id)
  PROVE  SafetyInv'
<1> DEFINE m     == mint[a][id]
           armed == [m EXCEPT !.goodAccounting = TRUE]
<1>1. /\ mint' = [mint EXCEPT ![a][id].goodAccounting = TRUE]
      /\ UNCHANGED <<height, store, bal, migDone, supMigrated>>
  BY DEF ArmGoodAccounting
<1>2. m \in Mint
  <2>1. mint[a] \in Seq(Mint)
    BY DEF SafetyInv, TypeOK
  <2> QED BY <2>1
<1>3. armed \in Mint /\ armed.start = m.start /\ armed.days = m.days
      /\ mint' = [mint EXCEPT ![a][id] = armed]
  <2>1. armed \in Mint /\ armed.start = m.start /\ armed.days = m.days
    <3> HIDE DEF m
    <3> QED BY <1>2 DEF Mint
  <2> QED BY <1>1, <2>1
<1> HIDE DEF armed
<1>4. /\ mint' \in [Accounts -> Seq(Mint)]
      /\ \A b \in Accounts : \A i \in DOMAIN mint'[b] : Placed(mint'[b][i])
  BY <1>3, ReplaceMint
<1> QED BY <1>1, <1>4 DEF SafetyInv, TypeOK, Settled

\* A gift moves value from a balance into the pools (FundPool).
LEMMA FundPoolSafety ==
  ASSUME SafetyInv, NEW a \in Accounts, NEW f \in Funding, FundPool(a, f[1], f[2])
  PROVE  SafetyInv'
<1> DEFINE target == f[1]
           amount == f[2]
           all    == Split(amount)
           pob    == CASE target = "pob" -> amount [] target = "all" -> all.pob [] OTHER -> 0
           viral  == SplitPoB(pob).viral
           recycled == CASE target = "lshare" -> amount [] target = "all" -> all.lshare
                         [] OTHER -> 0
           x      == store.pool_viral + viral + (IF target = "viral" THEN amount ELSE 0)
           y      == store.pool_deep + (pob - viral) + (IF target = "deep" THEN amount ELSE 0)
           z      == store.pool_liq + (CASE target = "liquidity" -> amount
                                         [] target = "all" -> all.liquidity [] OTHER -> 0)
           given  == [store EXCEPT !.pool_viral = x, !.pool_deep = y, !.pool_liq = z]
<1>1. amount \in Nat
  BY LasseMintAssumption
<1>2. /\ bal[a] >= amount
      /\ bal' = [bal EXCEPT ![a] = @ - amount]
      /\ store' = Recycle(given, recycled)
      /\ UNCHANGED <<height, mint, migDone, supMigrated>>
  BY DEF FundPool
<1> HIDE DEF target, amount
<1>3. all.lshare \in Nat /\ all.liquidity \in Nat /\ all.pob \in Nat
  BY <1>1, SplitExact
<1> HIDE DEF all
<1>4. pob \in Nat /\ recycled \in Nat
  BY <1>1, <1>3
<1> HIDE DEF pob, recycled
<1>5. viral \in Nat /\ pob - viral \in Nat
  BY <1>4, SplitPoBExact
<1> HIDE DEF viral
<1>6. x \in Nat /\ y \in Nat /\ z \in Nat
  <2>1. store.pool_viral \in Nat /\ store.pool_deep \in Nat /\ store.pool_liq \in Nat
    BY StoreFields DEF SafetyInv, TypeOK
  <2> QED BY <1>1, <1>3, <1>5, <2>1
<1> HIDE DEF x, y, z
<1>7. store \in Store /\ Settled(store, height)
  BY DEF SafetyInv, TypeOK
<1>8. given \in Store /\ SameYield(store, given)
  BY <1>6, <1>7 DEF Store, SameYield
<1> HIDE DEF given
<1>9. Settled(given, height)
  BY <1>7, <1>8, SameYieldFrame
<1>10. Settled(store', height)
  BY <1>2, <1>4, <1>9, RecycleFrame
<1>11. bal' \in [Accounts -> Nat]
  BY <1>1, <1>2 DEF SafetyInv, TypeOK
<1> QED BY <1>2, <1>10, <1>11 DEF SafetyInv, TypeOK, Settled

\* Every step keeps the invariant.
LEMMA NextSafety == SafetyInv /\ [Next]_vars => SafetyInv'
<1> SUFFICES ASSUME SafetyInv, [Next]_vars PROVE SafetyInv'
  OBVIOUS
<1>1. CASE Tick
  BY <1>1, TickSafety
<1>2. CASE Settle
  <2>1. MaxAccrualDays \in Int /\ UserRetireBudget \in Nat
    BY LasseMintAssumption
  <2> QED BY <1>2, <2>1, WalkSafety DEF Settle, Accrue
<1>3. ASSUME NEW n \in AdvanceSteps, Advance(n) PROVE SafetyInv'
  <2>1. n \in Int /\ MaxRetirePerWalk \in Nat
    BY LasseMintAssumption
  <2> QED BY <1>3, <2>1, WalkSafety DEF Advance, AccrueSteps
<1>4. ASSUME NEW a \in Accounts, CreditMigration(a) PROVE SafetyInv'
  BY <1>4, CreditMigrationSafety
<1>5. ASSUME NEW a \in Accounts, NEW p \in Principals, NEW d \in Durations, CreateMint(a, p, d)
      PROVE  SafetyInv'
  BY <1>5, CreateMintSafety
<1>6. ASSUME NEW a \in Accounts, NEW id \in DOMAIN mint[a], ClaimMint(a, id) \/ SweepMint(a, id)
      PROVE  SafetyInv'
  BY <1>6, EndMintSafety DEF ClaimMint, SweepMint
<1>7. ASSUME NEW a \in Accounts, NEW id \in DOMAIN mint[a], ArmGoodAccounting(a, id)
      PROVE  SafetyInv'
  BY <1>7, ArmSafety
<1>8. ASSUME NEW a \in Accounts, NEW f \in Funding, FundPool(a, f[1], f[2])
      PROVE  SafetyInv'
  BY <1>8, FundPoolSafety
<1>9. CASE UNCHANGED vars
  BY <1>9 DEF vars, SafetyInv, TypeOK, Settled
<1> QED BY <1>1, <1>2, <1>3, <1>4, <1>5, <1>6, <1>7, <1>8, <1>9 DEF Next

\* The inductive invariant holds in every reachable state: rows are typed, the
\* walk is never ahead of the chain, and supply is on the schedule.
THEOREM Safety == Spec => []SafetyInv
BY InitSafety, NextSafety, PTL DEF Spec

\* Every row holds a value of its kind in every reachable state.
THEOREM TypeCorrect == Spec => []TypeOK
<1>1. SafetyInv => TypeOK
  BY DEF SafetyInv
<1> QED BY <1>1, Safety, PTL

\* The supply counter never leaves the closed-form schedule, however late,
\* sliced or interrupted the walk is (accrueWalk).
THEOREM EmissionExact == Spec => []EmissionMatchesWalk
<1>1. SafetyInv => EmissionMatchesWalk
  BY DEF SafetyInv, Settled, EmissionMatchesWalk
<1> QED BY <1>1, Safety, PTL

-----------------------------------------------------------------------------
(***************************************************************************)
(* The books: no unit is lost or made, the L-Share pool covers the yield   *)
(* of all open positions, the denominator of that yield is exactly the     *)
(* open positions, and no call lowers the yield of another's.              *)
(*                                                                         *)
(* The floored yields do not add up in an induction: a step of the         *)
(* accumulator pays over all active shares at once.  The invariant Sound   *)
(* therefore speaks of the shares times the rise of the accumulator, and   *)
(* of the walk's own inflow that is not yet in the pool.                   *)
(***************************************************************************)
\* The open positions, and the position of each.
LiveOf(p) == UNION {{<<a, id>> : id \in {i \in DOMAIN p[a] : ~ p[a][i].ended}} : a \in Accounts}

Positions(p) == [k \in LiveOf(p) |-> p[k[1]][k[2]]]

\* The walk has not closed the maturity day.
Earns(s, m) == s.acc_day <= MaturityDay(m)

\* The accumulator a position is paid up to.
EndOf(s, m) == IF Earns(s, m) THEN s.acc_per ELSE s.accAt[MaturityDay(m)]

\* The shares that earn, those of them that mature on a day, and what has been
\* earned, before any flooring.
Earning(s, q) == [k \in DOMAIN q |-> IF Earns(s, q[k]) THEN q[k].shares ELSE 0]

EarningOn(s, q, d) ==
  [k \in DOMAIN q |-> IF Earns(s, q[k]) /\ MaturityDay(q[k]) = d THEN q[k].shares ELSE 0]

Owed(s, q) == [k \in DOMAIN q |-> q[k].shares * (EndOf(s, q[k]) - q[k].accStart)]

Locked(q) == [k \in DOMAIN q |-> q[k].principal]

\* A position that was registered: it has shares and matures on a modelled day.
Staked(m) == m \in Mint /\ Placed(m) /\ m.shares # 0

\* Where a position's yield starts and ends: its end is a checkpoint once the
\* day is closed.
Started(s, m) ==
  /\ m.accStart <= s.acc_per
  /\ ~ Earns(s, m) => s.accAt[MaturityDay(m)] \in m.accStart .. s.acc_per

(***************************************************************************)
(* The store s agrees with the positions q when x is available to pay      *)
(* them: the pool, and within a walk also what the walk has found.         *)
(***************************************************************************)
Sound(s, q, x) ==
  /\ s \in Store /\ x \in Nat
  /\ IsFiniteSet(DOMAIN q) /\ \A k \in DOMAIN q : Staked(q[k]) /\ Started(s, q[k])
  /\ s.shares_total = Total(Earning(s, q), DOMAIN q)
  /\ \A d \in Days : s.exp[d] = Total(EarningOn(s, q, d), DOMAIN q)
  /\ Total(Owed(s, q), DOMAIN q) + AccScale * s.acc_held <= AccScale * x

\* From s to t no position's end falls, and an end that is fixed stays.
Rises(s, t, q) ==
  \A k \in DOMAIN q :
    /\ EndOf(t, q[k]) >= EndOf(s, q[k])
    /\ ~ Earns(s, q[k]) => ~ Earns(t, q[k]) /\ EndOf(t, q[k]) = EndOf(s, q[k])

\* The four reward pools.
PoolsOf(s) == s.pool_lshare + s.pool_viral + s.pool_deep + s.pool_liq

\* Balances b, the principals of q and the pools of s are the g migrated and
\* what s emitted.
Conserved(b, q, s, g) ==
  Total(b, Accounts) + Total(Locked(q), DOMAIN q) + PoolsOf(s) = g + s.sup_emitted

\* A position that is open before and after a step keeps its terms, and its
\* yield ends no earlier.
Kept(s, q, t, r) ==
  \A k \in DOMAIN q \intersect DOMAIN r :
    /\ r[k].shares = q[k].shares /\ r[k].accStart = q[k].accStart
    /\ EndOf(t, r[k]) >= EndOf(s, q[k])
    /\ ~ Earns(s, q[k]) => EndOf(t, r[k]) = EndOf(s, q[k])

\* The positions r are q and one more, or q but for one.
Joined(q, k, m, r) ==
  /\ k \notin DOMAIN q /\ DOMAIN r = DOMAIN q \union {k}
  /\ r[k] = m /\ \A j \in DOMAIN q : r[j] = q[j]

Parted(q, k, r) ==
  /\ k \in DOMAIN q /\ DOMAIN r = DOMAIN q \ {k}
  /\ \A j \in DOMAIN r : r[j] = q[j]

\* From s to t the accumulator stands still, and the shares of m are counted
\* and scheduled, or no longer are.
SameRise(s, t) ==
  /\ t.acc_per = s.acc_per /\ t.acc_held = s.acc_held
  /\ t.acc_day = s.acc_day /\ t.accAt = s.accAt

Counted(s, t, m) ==
  /\ t.shares_total = s.shares_total + m.shares
  /\ \A d \in Days : t.exp[d] = s.exp[d] + (IF MaturityDay(m) = d THEN m.shares ELSE 0)

Uncounted(s, t, m) ==
  /\ t.shares_total = s.shares_total - (IF Earns(s, m) THEN m.shares ELSE 0)
  /\ \A d \in Days :
       t.exp[d] = s.exp[d] - (IF Earns(s, m) /\ MaturityDay(m) = d THEN m.shares ELSE 0)

(* The inductive invariant.                                                *)
BooksInv ==
  /\ SafetyInv
  /\ Sound(store, Positions(mint), store.pool_lshare)
  /\ Conserved(bal, Positions(mint), store, supMigrated)

-----------------------------------------------------------------------------
(* Positions of a sound store.                                             *)

\* The fields of a registered position.
LEMMA HoldingFields ==
  ASSUME NEW m, Staked(m)
  PROVE  /\ m.shares \in Nat \ {0} /\ m.principal \in Nat /\ m.accStart \in Nat
         /\ m.start \in Heights /\ m.start \in Nat /\ m.days \in Nat
         /\ MaturityDay(m) \in Days /\ MaturityDay(m) \in Nat
         /\ m.goodAccounting \in BOOLEAN
<1>1. m \in Mint /\ m.shares # 0
  BY DEF Staked
<1>2. m.start \in Heights /\ m.days \in MinMintDays .. MaxMintDays
  BY DEF Staked, Placed
<1>3. MaturityDay(m) \in Days
  BY <1>2, MaturityInDays
<1> QED BY <1>1, <1>2, <1>3, ConstantTypes DEF Mint, Days

\* A position's end lies between its start and the accumulator.
LEMMA EndBetween ==
  ASSUME NEW s \in Store, NEW m, Staked(m), Started(s, m)
  PROVE  EndOf(s, m) \in m.accStart .. s.acc_per /\ EndOf(s, m) \in Nat
<1>1. s.acc_per \in Nat /\ m.accStart \in Nat
  BY StoreFields, HoldingFields
<1> QED BY <1>1 DEF EndOf, Started

\* The totals count naturals.
LEMMA CountsAreNat ==
  ASSUME NEW s \in Store, NEW q, \A k \in DOMAIN q : Staked(q[k]) /\ Started(s, q[k])
  PROVE  /\ \A k \in DOMAIN q : Earning(s, q)[k] \in Nat
         /\ \A d : \A k \in DOMAIN q : EarningOn(s, q, d)[k] \in Nat
         /\ \A k \in DOMAIN q : Owed(s, q)[k] \in Nat
         /\ \A k \in DOMAIN q : Locked(q)[k] \in Nat
<1>1. ASSUME NEW k \in DOMAIN q
      PROVE  q[k].shares \in Nat /\ q[k].principal \in Nat
  BY <1>1, HoldingFields
<1>2. ASSUME NEW k \in DOMAIN q PROVE Owed(s, q)[k] \in Nat
  <2> DEFINE rise == EndOf(s, q[k]) - q[k].accStart
  <2>1. rise \in Nat
    <3>1. EndOf(s, q[k]) \in q[k].accStart .. s.acc_per /\ EndOf(s, q[k]) \in Nat
      BY EndBetween
    <3>2. q[k].accStart \in Nat
      BY HoldingFields
    <3> QED BY <3>1, <3>2
  <2>2. Owed(s, q)[k] = q[k].shares * rise
    BY DEF Owed
  <2> HIDE DEF rise
  <2> QED BY <1>1, <2>1, <2>2, ProductNat
<1> QED BY <1>1, <1>2 DEF Earning, EarningOn, Locked

\* Positions with the same terms in stores with the same yield rows are owed
\* the same: arming, voting and draining change nothing of this.
LEMMA TermsSound ==
  ASSUME NEW s, NEW q, NEW x, Sound(s, q, x), NEW t \in Store,
         t.acc_per = s.acc_per, t.acc_held = s.acc_held, t.acc_day = s.acc_day,
         t.shares_total = s.shares_total, t.exp = s.exp, t.accAt = s.accAt,
         NEW r, DOMAIN r = DOMAIN q,
         \A k \in DOMAIN q : /\ Staked(r[k]) /\ r[k].shares = q[k].shares
                             /\ r[k].accStart = q[k].accStart
                             /\ r[k].start = q[k].start /\ r[k].days = q[k].days
  PROVE  /\ Sound(t, r, x)
         /\ \A k \in DOMAIN q : EndOf(t, r[k]) = EndOf(s, q[k]) /\ (Earns(t, r[k]) <=> Earns(s, q[k]))
<1> DEFINE K == DOMAIN q
<1>1. \A k \in K : MaturityDay(r[k]) = MaturityDay(q[k])
  BY DEF MaturityDay, MaturityHeight
<1>2. \A k \in K : Earns(t, r[k]) <=> Earns(s, q[k])
  BY <1>1 DEF Earns
<1>3. \A k \in K : EndOf(t, r[k]) = EndOf(s, q[k])
  BY <1>1, <1>2 DEF EndOf
<1>4. \A k \in K : Started(t, r[k])
  BY <1>1, <1>2 DEF Started, Sound
<1>5. Total(Earning(t, r), K) = Total(Earning(s, q), K)
  <2>1. \A k \in K : Earning(t, r)[k] = Earning(s, q)[k]
    BY <1>2 DEF Earning
  <2> QED BY <2>1, TotalSame
<1>6. \A d : Total(EarningOn(t, r, d), K) = Total(EarningOn(s, q, d), K)
  <2> TAKE d
  <2>1. \A k \in K : EarningOn(t, r, d)[k] = EarningOn(s, q, d)[k]
    BY <1>1, <1>2 DEF EarningOn
  <2> QED BY <2>1, TotalSame
<1>7. Total(Owed(t, r), K) = Total(Owed(s, q), K)
  <2>1. \A k \in K : Owed(t, r)[k] = Owed(s, q)[k]
    BY <1>3 DEF Owed
  <2> QED BY <2>1, TotalSame
<1>8. Sound(t, r, x)
  BY <1>4, <1>5, <1>6, <1>7 DEF Sound
<1> QED BY <1>2, <1>3, <1>8

-----------------------------------------------------------------------------
(* The accumulator and the days.                                           *)

\* What goes through the accumulator is shared by the positions that earn, and
\* no more than it is owed to them (accrueWalk, RecycleThroughAccumulator).
LEMMA AccumulateSound ==
  ASSUME NEW s, NEW q, NEW x, Sound(s, q, x), NEW inflow \in Nat, NEW t \in Store,
         t.acc_per = AccumulatorStep(s.acc_per, inflow, s.acc_held, s.shares_total).acc,
         t.acc_held = AccumulatorStep(s.acc_per, inflow, s.acc_held, s.shares_total).held,
         t.acc_day = s.acc_day, t.shares_total = s.shares_total, t.exp = s.exp, t.accAt = s.accAt
  PROVE  Sound(t, q, x + inflow) /\ Rises(s, t, q)
<1> DEFINE K    == DOMAIN q
           rise == t.acc_per - s.acc_per
           n    == Total(Earning(s, q), K)
           o1   == Total(Owed(s, q), K)
           o2   == Total(Owed(t, q), K)
           h1   == s.acc_held
           h2   == t.acc_held
<1>1. /\ s \in Store /\ x \in Nat /\ IsFiniteSet(K) /\ s.shares_total = n
      /\ \A k \in K : Staked(q[k]) /\ Started(s, q[k])
      /\ o1 + AccScale * h1 <= AccScale * x
  BY DEF Sound
<1>2. s.acc_per \in Nat /\ h1 \in Nat /\ s.shares_total \in Int /\ t.acc_per \in Nat /\ h2 \in Nat
  BY <1>1, StoreFields
<1>3. rise \in Nat /\ n * rise <= (inflow + h1 - h2) * AccScale
  <2> DEFINE step == AccumulatorStep(s.acc_per, inflow, s.acc_held, s.shares_total)
  <2>1. /\ step.acc >= s.acc_per
        /\ s.shares_total * (step.acc - s.acc_per) <= (inflow + s.acc_held - step.held) * AccScale
    BY <1>2, AccumulatorStepSound
  <2> QED BY <1>1, <1>2, <2>1
<1>4. \A k \in K : Earns(t, q[k]) <=> Earns(s, q[k])
  BY DEF Earns
<1>5. \A k \in K : Started(t, q[k]) /\ q[k].shares \in Nat /\ q[k].accStart \in Nat
  <2> TAKE k \in K
  <2>1. Staked(q[k]) /\ Started(s, q[k])
    BY <1>1
  <2>2. /\ q[k].shares \in Nat /\ q[k].accStart \in Nat /\ MaturityDay(q[k]) \in Days
    BY <2>1, HoldingFields
  <2>3. s.accAt[MaturityDay(q[k])] \in Nat
    BY <1>1, <2>2, StoreFields
  <2> HIDE DEF rise
  <2>4. t.acc_per >= s.acc_per
    BY <1>2, <1>3 DEF rise
  <2> QED BY <1>2, <1>4, <2>1, <2>2, <2>3, <2>4 DEF Started
<1>6. \A k \in K : Owed(t, q)[k] = Owed(s, q)[k] + rise * Earning(s, q)[k]
  <2> SUFFICES ASSUME NEW k \in K PROVE Owed(t, q)[k] = Owed(s, q)[k] + rise * Earning(s, q)[k]
    OBVIOUS
  <2> DEFINE a == q[k].accStart
             c == q[k].shares
  <2>1. a \in Nat /\ c \in Nat
    BY <1>5
  <2>2. /\ Owed(t, q)[k] = c * (EndOf(t, q[k]) - a) /\ Owed(s, q)[k] = c * (EndOf(s, q[k]) - a)
        /\ Earning(s, q)[k] = IF Earns(s, q[k]) THEN c ELSE 0
    BY DEF Owed, Earning
  <2>3. CASE Earns(s, q[k])
    <3>1. EndOf(t, q[k]) = t.acc_per /\ EndOf(s, q[k]) = s.acc_per
      BY <1>4, <2>3 DEF EndOf
    <3> DEFINE b == s.acc_per
    <3>2. t.acc_per = b + rise /\ b \in Nat
      BY <1>2
    <3> HIDE DEF a, b, c, rise
    <3>3. c * ((b + rise) - a) = c * (b - a) + rise * c
      BY <1>3, <2>1, <3>2
    <3> QED BY <2>2, <2>3, <3>1, <3>2, <3>3 DEF b
  <2>4. CASE ~ Earns(s, q[k])
    <3>1. EndOf(t, q[k]) = EndOf(s, q[k])
      BY <1>4, <2>4 DEF EndOf
    <3>2. Owed(s, q)[k] \in Nat
      BY <1>1, CountsAreNat
    <3> QED BY <1>3, <2>2, <2>4, <3>1, <3>2
  <2> QED BY <2>3, <2>4
<1>7. /\ \A k \in K : Owed(s, q)[k] \in Nat
      /\ \A k \in K : Owed(t, q)[k] \in Nat
      /\ \A k \in K : Earning(s, q)[k] \in Nat
  BY <1>1, <1>5, CountsAreNat
<1>8. o2 = o1 + rise * n /\ o1 \in Nat /\ o2 \in Nat /\ n \in Nat
  <2> DEFINE f == Owed(s, q)
             g == Owed(t, q)
             w == Earning(s, q)
  <2>1. /\ \A k \in K : f[k] \in Nat
        /\ \A k \in K : g[k] \in Nat
        /\ \A k \in K : w[k] \in Nat
        /\ \A k \in K : g[k] = f[k] + rise * w[k]
    BY <1>6, <1>7
  <2> HIDE DEF f, g, w, K, rise
  <2>2. Total(g, K) = Total(f, K) + rise * Total(w, K)
    BY <1>1, <1>3, <2>1, TotalScale
  <2>3. Total(f, K) \in Nat /\ Total(g, K) \in Nat /\ Total(w, K) \in Nat
    BY <1>1, <2>1, TotalIsNat
  <2> QED BY <2>2, <2>3 DEF f, g, w
<1>9. o2 + AccScale * h2 <= AccScale * (x + inflow)
  <2> HIDE DEF o1, o2, n, rise, h1, h2
  <2>1. AccScale \in Nat
    BY EngineAssumption
  <2> DEFINE A1 == AccScale * h1
             A2 == AccScale * h2
             Ax == AccScale * x
             Ai == AccScale * inflow
             p  == rise * n
  <2>2. A1 \in Nat /\ A2 \in Nat /\ Ax \in Nat /\ Ai \in Nat /\ p \in Nat
    BY <1>1, <1>2, <1>3, <1>8, <2>1, ProductNat
  <2>3. (inflow + h1 - h2) * AccScale = Ai + A1 - A2
    BY <1>1, <1>2, <2>1
  <2>4. AccScale * (x + inflow) = Ax + Ai
    BY <1>1, <2>1
  <2>5. n * rise = p
    BY <1>3, <1>8
  <2> HIDE DEF A1, A2, Ax, Ai, p
  <2>6. p <= Ai + A1 - A2 /\ o1 + A1 <= Ax /\ o2 = o1 + p
    BY <1>1, <1>3, <1>8, <2>3, <2>5 DEF A1, Ax, p
  <2>7. o2 + A2 <= Ax + Ai
    BY <1>8, <2>2, <2>6
  <2> QED BY <2>4, <2>7 DEF A2
<1>10. \A k \in K : Earning(t, q)[k] = Earning(s, q)[k]
  BY <1>4 DEF Earning
<1>11. \A d : \A k \in K : EarningOn(t, q, d)[k] = EarningOn(s, q, d)[k]
  BY <1>4 DEF EarningOn
<1>12. t.shares_total = Total(Earning(t, q), K)
  BY <1>1, <1>10, TotalSame
<1>13. \A d \in Days : t.exp[d] = Total(EarningOn(t, q, d), K)
  <2> TAKE d \in Days
  <2>1. Total(EarningOn(t, q, d), K) = Total(EarningOn(s, q, d), K)
    BY <1>11, TotalSame
  <2> QED BY <2>1 DEF Sound
<1>14. Rises(s, t, q)
  <2> SUFFICES ASSUME NEW k \in K
               PROVE  /\ EndOf(t, q[k]) >= EndOf(s, q[k])
                      /\ ~ Earns(s, q[k]) => ~ Earns(t, q[k]) /\ EndOf(t, q[k]) = EndOf(s, q[k])
    BY DEF Rises
  <2>1. EndOf(s, q[k]) \in Nat
    BY <1>1, EndBetween
  <2>2. t.acc_per >= s.acc_per
    BY <1>2, <1>3
  <2> QED BY <1>4, <2>1, <2>2 DEF EndOf
<1>15. x + inflow \in Nat
  BY <1>1
<1> HIDE DEF rise, n, h1
<1> QED BY <1>1, <1>5, <1>9, <1>12, <1>13, <1>14, <1>15 DEF Sound

\* A day that is closed takes its shares out of the denominator, and their
\* positions keep the accumulator of that moment (accrueWalk).
LEMMA ExpireSound ==
  ASSUME NEW s, NEW q, NEW x, Sound(s, q, x), s.acc_day + 1 \in Days
  PROVE  LET t == [ExpireDay(s, s.acc_day) EXCEPT !.acc_day = s.acc_day + 1]
         IN  Sound(t, q, x) /\ Rises(s, t, q)
<1> DEFINE K   == DOMAIN q
           day == s.acc_day
           n   == Total(Earning(s, q), K)
           e   == Total(EarningOn(s, q, day), K)
           u   == ExpireDay(s, day)
           t   == [u EXCEPT !.acc_day = day + 1]
<1>1. /\ s \in Store /\ x \in Nat /\ IsFiniteSet(K) /\ s.shares_total = n
      /\ \A k \in K : Staked(q[k]) /\ Started(s, q[k])
      /\ Total(Owed(s, q), K) + AccScale * s.acc_held <= AccScale * x
      /\ \A d \in Days : s.exp[d] = Total(EarningOn(s, q, d), K)
  BY DEF Sound
<1>2. day \in Days /\ day \in Nat /\ s.acc_per \in Nat /\ s.exp[day] = e
  BY <1>1, StoreFields
<1>3. u \in Store
  BY <1>1, <1>2, ExpireDayFrame
<1>4. /\ u.acc_per = s.acc_per /\ u.acc_held = s.acc_held
      /\ u.shares_total = IF e = 0 THEN s.shares_total ELSE Monus(s.shares_total, e)
      /\ u.exp = [s.exp EXCEPT ![day] = 0]
      /\ \A d \in Days \ {day} : u.accAt[d] = s.accAt[d]
      /\ e # 0 => u.accAt[day] = s.acc_per
  <2>1. CASE e = 0
    <3>1. u = s
      BY <1>2, <2>1 DEF ExpireDay
    <3>2. s.exp = [s.exp EXCEPT ![day] = 0]
      <4>1. s.exp \in [Days -> Nat]
        BY <1>1, StoreFields
      <4> QED BY <1>2, <2>1, <4>1
    <3> QED BY <2>1, <3>1, <3>2
  <2>2. CASE e # 0
    <3>1. u = [s EXCEPT !.shares_total = Monus(@, s.exp[day]), !.exp[day] = 0,
                        !.accAt[day] = s.acc_per]
      BY <1>2, <2>2 DEF ExpireDay
    <3>2. s.accAt \in [Days -> Nat] /\ s.exp \in [Days -> Nat]
      BY <1>1, StoreFields
    <3> HIDE DEF e, n
    <3> QED BY <1>1, <1>2, <2>2, <3>1, <3>2 DEF Store
  <2> QED BY <2>1, <2>2
<1> HIDE DEF u
<1>5. /\ t \in Store /\ t.acc_per = u.acc_per /\ t.acc_held = u.acc_held /\ t.acc_day = day + 1
      /\ t.shares_total = u.shares_total /\ t.exp = u.exp /\ t.accAt = u.accAt
  BY <1>3 DEF Store
<1> HIDE DEF t
<1>6. /\ \A k \in K : Earning(s, q)[k] \in Nat
      /\ \A d : \A k \in K : EarningOn(s, q, d)[k] \in Nat
  BY <1>1, CountsAreNat
<1>7. \A k \in K : /\ MaturityDay(q[k]) \in Days /\ MaturityDay(q[k]) \in Nat
                   /\ q[k].shares \in Nat \ {0} /\ q[k].accStart \in Nat
  BY <1>1, HoldingFields
\* Who earned and does no longer: the positions that mature on the day.
<1>8. \A k \in K : Earns(t, q[k]) <=> Earns(s, q[k]) /\ MaturityDay(q[k]) # day
  <2> TAKE k \in K
  <2>1. MaturityDay(q[k]) \in Nat
    BY <1>7
  <2> QED BY <1>2, <1>5, <2>1 DEF Earns
<1>9. \A k \in K : Earns(s, q[k]) /\ MaturityDay(q[k]) = day => e # 0
  <2> SUFFICES ASSUME NEW k \in K, Earns(s, q[k]), MaturityDay(q[k]) = day PROVE e # 0
    OBVIOUS
  <2> DEFINE f == EarningOn(s, q, day)
  <2>1. f[k] = q[k].shares
    BY DEF EarningOn
  <2>2. \A j \in K : f[j] \in Nat
    BY <1>6
  <2> HIDE DEF f
  <2>3. Total(f, K) >= f[k] /\ Total(f, K) \in Nat
    BY <1>1, <2>2, TotalRemove, TotalIsNat
  <2> QED BY <1>7, <2>1, <2>3 DEF f
<1>10. \A k \in K : /\ EndOf(t, q[k]) = EndOf(s, q[k]) /\ Started(t, q[k])
                    /\ ~ Earns(s, q[k]) => ~ Earns(t, q[k])
  <2> TAKE k \in K
  <2>1. Staked(q[k]) /\ Started(s, q[k]) /\ MaturityDay(q[k]) \in Nat /\ MaturityDay(q[k]) \in Days
    BY <1>1, <1>7
  <2>2. CASE Earns(t, q[k])
    BY <1>4, <1>5, <1>8, <2>1, <2>2 DEF EndOf, Started
  <2>3. CASE ~ Earns(t, q[k]) /\ Earns(s, q[k])
    <3>1. MaturityDay(q[k]) = day /\ e # 0
      BY <1>8, <1>9, <2>3
    <3>2. t.accAt[MaturityDay(q[k])] = s.acc_per
      BY <1>4, <1>5, <3>1
    <3>3. EndOf(t, q[k]) = s.acc_per /\ EndOf(s, q[k]) = s.acc_per
      BY <2>3, <3>2 DEF EndOf
    <3>4. q[k].accStart <= s.acc_per /\ q[k].accStart \in Nat
      BY <1>7, <2>1 DEF Started
    <3>5. Started(t, q[k])
      BY <1>2, <1>4, <1>5, <3>2, <3>4 DEF Started
    <3> QED BY <2>3, <3>3, <3>5
  <2>4. CASE ~ Earns(t, q[k]) /\ ~ Earns(s, q[k])
    <3>1. MaturityDay(q[k]) # day
      BY <1>2, <2>1, <2>4 DEF Earns
    <3>2. t.accAt[MaturityDay(q[k])] = s.accAt[MaturityDay(q[k])]
      BY <1>4, <1>5, <2>1, <3>1
    <3> QED BY <1>4, <1>5, <2>1, <2>4, <3>2 DEF EndOf, Started
  <2> QED BY <1>8, <2>2, <2>3, <2>4
<1>11. t.shares_total = Total(Earning(t, q), K)
  <2> DEFINE f == Earning(t, q)
             g == Earning(s, q)
             w == EarningOn(s, q, day)
  <2>1. \A k \in K : f[k] \in Nat
    BY <1>7 DEF Earning
  <2>2. \A k \in K : g[k] = f[k] + 1 * w[k]
    BY <1>7, <1>8 DEF Earning, EarningOn
  <2>3. \A k \in K : w[k] \in Nat
    BY <1>6
  <2> HIDE DEF f, g, w
  <2>4. Total(g, K) = Total(f, K) + 1 * Total(w, K)
    BY <1>1, <2>1, <2>2, <2>3, TotalScale
  <2>5. Total(f, K) \in Nat /\ Total(w, K) \in Nat
    BY <1>1, <2>1, <2>3, TotalIsNat
  <2>6. n = Total(f, K) + e
    BY <2>4, <2>5 DEF g, w
  <2>7. e \in Nat
    BY <2>5 DEF w
  <2> HIDE DEF n, e
  <2>8. u.shares_total = Total(f, K)
    BY <1>1, <1>4, <2>5, <2>6, <2>7 DEF Monus
  <2> QED BY <1>5, <2>8 DEF f
<1>12. \A d \in Days : t.exp[d] = Total(EarningOn(t, q, d), K)
  <2> SUFFICES ASSUME NEW d \in Days PROVE t.exp[d] = Total(EarningOn(t, q, d), K)
    OBVIOUS
  <2>0. s.exp \in [Days -> Nat]
    BY <1>1, StoreFields
  <2>1. CASE d = day
    <3>1. \A k \in K : EarningOn(t, q, d)[k] = 0
      BY <1>8, <2>1 DEF EarningOn
    <3> DEFINE f == EarningOn(t, q, d)
    <3>2. \A k \in K : f[k] = 0
      BY <3>1
    <3> HIDE DEF f
    <3>3. Total(f, K) = Cardinality(K) * 0
      BY <1>1, <3>2, TotalConstant
    <3>4. Cardinality(K) \in Nat
      BY <1>1, FS_CardinalityType
    <3>5. t.exp[d] = 0
      BY <1>4, <1>5, <2>0, <2>1
    <3> QED BY <3>3, <3>4, <3>5 DEF f
  <2>2. CASE d # day
    <3>1. \A k \in K : EarningOn(t, q, d)[k] = EarningOn(s, q, d)[k]
      BY <1>8, <2>2 DEF EarningOn
    <3>2. t.exp[d] = s.exp[d]
      BY <1>4, <1>5, <2>0, <2>2
    <3> QED BY <1>1, <3>1, <3>2, TotalSame
  <2> QED BY <2>1, <2>2
<1>13. Total(Owed(t, q), K) = Total(Owed(s, q), K)
  <2>1. \A k \in K : Owed(t, q)[k] = Owed(s, q)[k]
    BY <1>10 DEF Owed
  <2> QED BY <2>1, TotalSame
<1>14. Sound(t, q, x)
  BY <1>1, <1>4, <1>5, <1>10, <1>11, <1>12, <1>13 DEF Sound
<1>15. Rises(s, t, q)
  <2>1. \A k \in K : EndOf(s, q[k]) \in Nat
    BY <1>1, EndBetween
  <2> QED BY <1>10, <2>1 DEF Rises
<1> QED BY <1>14, <1>15 DEF t, u

-----------------------------------------------------------------------------
(* Positions that come and go.                                             *)

\* What a position is paid, scaled, is at most what it earned.
LEMMA EntitlementBound ==
  ASSUME NEW shares \in Nat, NEW from \in Nat, NEW end \in Nat, from <= end
  PROVE  /\ Entitlement(shares, from, end) \in Nat
         /\ AccScale * Entitlement(shares, from, end) <= shares * (end - from)
<1> DEFINE rise == end - from
<1>1. AccScale \in Nat \ {0}
  BY EngineAssumption
<1>2. CASE end = from
  <2>1. Entitlement(shares, from, end) = 0
    BY <1>2 DEF Entitlement
  <2>2. end - from = 0
    BY <1>2
  <2> QED BY <1>1, <2>1, <2>2
<1>3. CASE end # from
  <2>1. rise \in Nat
    OBVIOUS
  <2>2. Entitlement(shares, from, end) = MulDiv(rise, shares, AccScale)
    BY <1>3 DEF Entitlement
  <2> HIDE DEF rise
  <2>3. /\ MulDiv(rise, shares, AccScale) \in Nat
        /\ AccScale * MulDiv(rise, shares, AccScale) <= rise * shares
    BY <1>1, <2>1, MulDivBounds
  <2>4. rise * shares = shares * rise
    BY <2>1
  <2> QED BY <2>2, <2>3, <2>4 DEF rise
<1> QED BY <1>2, <1>3

\* A new position starts at the present accumulator: it is owed nothing yet
\* (registerMints).
LEMMA RegisterSound ==
  ASSUME NEW s, NEW q, NEW x, Sound(s, q, x),
         NEW m, Staked(m), m.accStart = s.acc_per, Earns(s, m),
         NEW k, NEW r, Joined(q, k, m, r), NEW t \in Store, SameRise(s, t), Counted(s, t, m)
  PROVE  Sound(t, r, x) /\ Rises(s, t, q)
<1> USE DEF Joined, SameRise, Counted
<1> DEFINE K == DOMAIN q
           R == DOMAIN r
<1>1. /\ s \in Store /\ x \in Nat /\ IsFiniteSet(K) /\ s.shares_total = Total(Earning(s, q), K)
      /\ \A j \in K : Staked(q[j]) /\ Started(s, q[j])
      /\ Total(Owed(s, q), K) + AccScale * s.acc_held <= AccScale * x
      /\ \A d \in Days : s.exp[d] = Total(EarningOn(s, q, d), K)
  BY DEF Sound
<1>2. /\ \A j \in K : Earning(s, q)[j] \in Nat
      /\ \A d : \A j \in K : EarningOn(s, q, d)[j] \in Nat
      /\ \A j \in K : Owed(s, q)[j] \in Nat
  BY <1>1, CountsAreNat
<1>3. m.shares \in Nat /\ m.accStart \in Nat /\ MaturityDay(m) \in Days
  BY HoldingFields
<1>4. \A n : (Earns(t, n) <=> Earns(s, n)) /\ EndOf(t, n) = EndOf(s, n)
  BY DEF Earns, EndOf
<1>5. R = K \union {k} /\ IsFiniteSet(R)
  BY <1>1, FS_AddElement
<1>6. \A j \in R : Staked(r[j]) /\ Started(t, r[j])
  <2>1. Started(t, m)
    BY <1>3, <1>4 DEF Started
  <2>2. \A j \in K : Started(t, q[j])
    BY <1>1, <1>4 DEF Started
  <2> QED BY <1>1, <1>5, <2>1, <2>2
<1>7. t.shares_total = Total(Earning(t, r), R)
  <2> DEFINE f == Earning(s, q)
             g == Earning(t, r)
  <2>1. \A j \in K : g[j] = f[j]
    BY <1>4, <1>5 DEF Earning
  <2>2. g[k] = m.shares
    BY <1>4, <1>5 DEF Earning
  <2>3. \A j \in K : f[j] \in Nat
    BY <1>2
  <2> HIDE DEF f, g
  <2>4. Total(g, R) = Total(f, K) + g[k]
    BY <1>1, <1>3, <1>5, <2>1, <2>2, <2>3, TotalGains
  <2> QED BY <1>1, <2>2, <2>4 DEF f, g
<1>8. ASSUME NEW d \in Days PROVE t.exp[d] = Total(EarningOn(t, r, d), R)
  <2> DEFINE f == EarningOn(s, q, d)
             g == EarningOn(t, r, d)
  <2>1. \A j \in K : g[j] = f[j]
    BY <1>4, <1>5 DEF EarningOn
  <2>2. g[k] = IF MaturityDay(m) = d THEN m.shares ELSE 0
    BY <1>4, <1>5 DEF EarningOn
  <2>3. \A j \in K : f[j] \in Nat
    BY <1>2
  <2>4. s.exp[d] = Total(f, K)
    BY <1>1
  <2> HIDE DEF f, g
  <2>5. g[k] \in Nat
    BY <1>3, <2>2
  <2>6. Total(g, R) = Total(f, K) + g[k]
    BY <1>1, <1>5, <2>1, <2>3, <2>5, TotalGains
  <2> QED BY <2>2, <2>4, <2>6 DEF g
<1>9. Total(Owed(t, r), R) = Total(Owed(s, q), K)
  <2> DEFINE f == Owed(s, q)
             g == Owed(t, r)
  <2>1. \A j \in K : g[j] = f[j]
    BY <1>4, <1>5 DEF Owed
  <2>2. g[k] = 0
    <3>1. g[k] = m.shares * (EndOf(s, m) - m.accStart)
      BY <1>4, <1>5 DEF Owed
    <3>2. EndOf(s, m) - m.accStart = 0
      BY <1>3 DEF EndOf
    <3> HIDE DEF g
    <3> QED BY <1>3, <3>1, <3>2
  <2>3. \A j \in K : f[j] \in Nat
    BY <1>2
  <2> HIDE DEF f, g
  <2>4. Total(g, R) = Total(f, K) + g[k] /\ Total(f, K) \in Nat
    BY <1>1, <1>5, <2>1, <2>2, <2>3, TotalGains, TotalIsNat
  <2> QED BY <2>2, <2>4 DEF f, g
<1>10. Rises(s, t, q)
  <2>1. \A j \in K : EndOf(s, q[j]) \in Nat
    BY <1>1, EndBetween
  <2> QED BY <1>4, <2>1 DEF Rises
<1> QED BY <1>1, <1>5, <1>6, <1>7, <1>8, <1>9, <1>10 DEF Sound

\* A position that is closed is paid what it earned, which the pool has besides
\* what it holds back; if it still earned, its shares were counted (endMint).
LEMMA RemoveSound ==
  ASSUME NEW s, NEW q, NEW x, Sound(s, q, x), NEW k, NEW r, Parted(q, k, r),
         NEW e, e = Entitlement(q[k].shares, q[k].accStart, EndOf(s, q[k])),
         NEW t \in Store, SameRise(s, t), Uncounted(s, t, q[k])
  PROVE  e \in Nat /\ e <= x /\ Sound(t, r, x - e)
<1> USE DEF Parted, SameRise, Uncounted
<1> DEFINE K == DOMAIN q
           R == DOMAIN r
           m == q[k]
<1>1. /\ s \in Store /\ x \in Nat /\ IsFiniteSet(K) /\ s.shares_total = Total(Earning(s, q), K)
      /\ \A j \in K : Staked(q[j]) /\ Started(s, q[j])
      /\ Total(Owed(s, q), K) + AccScale * s.acc_held <= AccScale * x
      /\ \A d \in Days : s.exp[d] = Total(EarningOn(s, q, d), K)
  BY DEF Sound
<1>2. /\ \A j \in K : Earning(s, q)[j] \in Nat
      /\ \A d : \A j \in K : EarningOn(s, q, d)[j] \in Nat
      /\ \A j \in K : Owed(s, q)[j] \in Nat
  BY <1>1, CountsAreNat
<1>3. m.shares \in Nat /\ m.accStart \in Nat /\ Staked(m) /\ Started(s, m)
  <2>1. Staked(m) /\ Started(s, m)
    BY <1>1
  <2> HIDE DEF m
  <2> QED BY <2>1, HoldingFields
<1>4. \A n : (Earns(t, n) <=> Earns(s, n)) /\ EndOf(t, n) = EndOf(s, n)
  BY DEF Earns, EndOf
<1>5. R = K \ {k} /\ IsFiniteSet(R) /\ R \subseteq K
  BY <1>1, FS_RemoveElement
<1>6. \A j \in R : Staked(r[j]) /\ Started(t, r[j])
  BY <1>1, <1>4, <1>5 DEF Started
<1>7. t.shares_total = Total(Earning(t, r), R)
  <2> DEFINE f == Earning(s, q)
             g == Earning(t, r)
  <2>1. \A j \in R : g[j] = f[j]
    BY <1>4, <1>5 DEF Earning
  <2>2. f[k] = IF Earns(s, m) THEN m.shares ELSE 0
    BY DEF Earning
  <2>3. \A j \in K : f[j] \in Nat
    BY <1>2
  <2> HIDE DEF f, g
  <2>4. Total(g, R) = Total(f, K) - f[k]
    BY <1>1, <1>5, <2>1, <2>3, TotalLoses
  <2> QED BY <1>1, <2>2, <2>4 DEF f, g
<1>8. ASSUME NEW d \in Days PROVE t.exp[d] = Total(EarningOn(t, r, d), R)
  <2> DEFINE f == EarningOn(s, q, d)
             g == EarningOn(t, r, d)
  <2>1. \A j \in R : g[j] = f[j]
    BY <1>4, <1>5 DEF EarningOn
  <2>2. f[k] = IF Earns(s, m) /\ MaturityDay(m) = d THEN m.shares ELSE 0
    BY DEF EarningOn
  <2>3. \A j \in K : f[j] \in Nat
    BY <1>2
  <2>4. s.exp[d] = Total(f, K)
    BY <1>1
  <2> HIDE DEF f, g
  <2>5. Total(g, R) = Total(f, K) - f[k]
    BY <1>1, <1>5, <2>1, <2>3, TotalLoses
  <2> QED BY <2>2, <2>4, <2>5 DEF g
<1> DEFINE o == Owed(s, q)[k]
           O == Total(Owed(s, q), K)
           P == Total(Owed(t, r), R)
<1>9. P = O - o /\ O >= o /\ O \in Nat /\ o \in Nat
  <2> DEFINE f == Owed(s, q)
             g == Owed(t, r)
  <2>1. \A j \in R : g[j] = f[j]
    BY <1>4, <1>5 DEF Owed
  <2>2. \A j \in K : f[j] \in Nat
    BY <1>2
  <2> HIDE DEF f, g
  <2>3. Total(g, R) = Total(f, K) - f[k] /\ Total(f, K) >= f[k] /\ Total(f, K) \in Nat
    BY <1>1, <1>5, <2>1, <2>2, TotalLoses, TotalRemove, TotalIsNat
  <2> QED BY <2>2, <2>3 DEF f, g
<1>10. e \in Nat /\ AccScale * e <= o
  <2> DEFINE end == EndOf(s, m)
  <2>1. end \in Nat /\ m.accStart <= end
    <3>1. EndOf(s, m) \in m.accStart .. s.acc_per /\ EndOf(s, m) \in Nat
      <4> HIDE DEF m
      <4> QED BY <1>1, <1>3, EndBetween
    <3> QED BY <1>3, <3>1
  <2>2. o = m.shares * (end - m.accStart)
    BY DEF Owed
  <2> HIDE DEF end, m, o
  <2>3. /\ Entitlement(m.shares, m.accStart, end) \in Nat
        /\ AccScale * Entitlement(m.shares, m.accStart, end) <= m.shares * (end - m.accStart)
    BY <1>3, <2>1, EntitlementBound
  <2> QED BY <2>2, <2>3 DEF end, m
<1>11. e <= x /\ x - e \in Nat /\ P + AccScale * s.acc_held <= AccScale * (x - e)
  <2>1. AccScale \in Nat \ {0} /\ s.acc_held \in Nat
    BY <1>1, EngineAssumption, StoreFields
  <2> DEFINE h == AccScale * s.acc_held
             y == AccScale * x
             z == AccScale * e
  <2>2. h \in Nat /\ y \in Nat /\ z \in Nat
    BY <1>1, <1>10, <2>1, ProductNat
  <2>3. O + h <= y /\ z <= o
    BY <1>1, <1>10
  <2> HIDE DEF h, O, P, o
  <2>4. z <= y /\ P + h <= y - z
    <3> HIDE DEF y, z
    <3> QED BY <1>9, <2>2, <2>3
  <2>5. e <= x
    <3> SUFFICES ASSUME x + 1 <= e PROVE FALSE
      BY <1>1, <1>10
    <3>1. AccScale * (x + 1) <= AccScale * e
      BY <1>1, <1>10, <2>1, ProductMono
    <3>2. AccScale * (x + 1) = AccScale * x + AccScale
      BY <1>1, <2>1
    <3> QED BY <2>1, <2>2, <2>4, <3>1, <3>2
  <2>6. AccScale * (x - e) = y - z
    BY <1>1, <1>10, <2>1
  <2> QED BY <1>1, <1>10, <2>4, <2>5, <2>6 DEF h
<1> HIDE DEF P
<1> QED BY <1>5, <1>6, <1>7, <1>8, <1>10, <1>11 DEF Sound, P

\* The shares that the schedule takes off on a day include those of every
\* position that still earns and matures on it (unscheduleExpiry).
LEMMA ScheduleHolds ==
  ASSUME NEW s, NEW q, NEW x, Sound(s, q, x), NEW k \in DOMAIN q, Earns(s, q[k])
  PROVE  s.exp[MaturityDay(q[k])] >= q[k].shares
<1> DEFINE K == DOMAIN q
           d == MaturityDay(q[k])
           f == EarningOn(s, q, d)
<1>1. IsFiniteSet(K) /\ s \in Store /\ \A j \in K : Staked(q[j]) /\ Started(s, q[j])
  BY DEF Sound
<1>2. d \in Days
  BY <1>1, HoldingFields
<1>3. s.exp[d] = Total(f, K)
  BY <1>2 DEF Sound
<1>4. \A j \in K : f[j] \in Nat
  BY <1>1, CountsAreNat
<1>5. f[k] = q[k].shares
  BY DEF EarningOn
<1> HIDE DEF f, d
<1>6. Total(f, K) >= f[k]
  BY <1>1, <1>4, TotalRemove
<1> QED BY <1>3, <1>5, <1>6 DEF d

-----------------------------------------------------------------------------
(* The emission of a day divides without a rest.                           *)

(* A day lies in one era, so it emits one reward for each of its heights   *)
(* (EmissionBetween).                                                      *)
LEMMA DayIsUniform ==
  ASSUME NEW d \in Nat
  PROVE  \E R \in Nat : EmissionBetween(HeightOfDay(d), HeightOfDay(d + 1)) = R * HeightsPerDay
<1> DEFINE D == HeightsPerDay
           E == HeightsPerEra
           n == E \div D
           x == d * D
           q == x \div E
           r == x % E
           u == d - n * q
           R == RewardPerHeight(q)
           T == Eras(q).total
<1>1. D \in Nat \ {0} /\ E \in Nat \ {0} /\ E % D = 0 /\ x \in Nat
  BY EngineAssumption, ProductNat
<1>2. n \in Nat /\ E = D * n
  <2>1. n \in Nat /\ E = D * n + (E % D)
    BY <1>1, DivMod
  <2>2. D * n \in Nat
    BY <1>1, <2>1, ProductNat
  <2> HIDE DEF n
  <2> QED BY <1>1, <2>1, <2>2
<1>3. q \in Nat /\ r \in 0 .. E - 1 /\ x = E * q + r
  BY <1>1, DivMod
<1>4. /\ EmissionBetween(HeightOfDay(d), HeightOfDay(d + 1))
           = TotalEmittedAt(HeightOfDay(d + 1)) - TotalEmittedAt(HeightOfDay(d))
      /\ HeightOfDay(d) = GenesisHeight + x /\ HeightOfDay(d + 1) = GenesisHeight + (x + D)
  BY <1>1, DayEmission, HeightOfDayNat, ConstantTypes DEF HeightOfDay
<1>5. TotalEmittedAt(GenesisHeight + x) = EmittedAfter(x)
      /\ TotalEmittedAt(GenesisHeight + (x + D)) = EmittedAfter(x + D)
  <2>1. x + D \in Nat
    BY <1>1
  <2> HIDE DEF x
  <2> QED BY <1>1, <2>1, EmittedFromGenesis
<1>6. R \in Nat /\ T \in Nat /\ EmittedAfter(x) = T + R * r
  BY <1>3, RewardPerHeightNat, ErasTotalStep DEF EmittedAfter
<1>7. Eras(q + 1).total = T + R * E
  BY <1>3, ErasTotalStep
<1> HIDE DEF n, q, r, R, T
<1>8. u \in Int /\ r = D * u
  <2>1. D * u = D * d - D * (n * q)
    BY <1>1, <1>2, <1>3
  <2>2. D * (n * q) = E * q
    BY <1>1, <1>2, <1>3
  <2>3. D * d = x
    BY <1>1
  <2> QED BY <1>1, <1>2, <1>3, <2>1, <2>2, <2>3
<1> HIDE DEF u, x
<1>9. r + D <= E
  <2>1. u + 1 <= n
    <3> SUFFICES ASSUME n <= u PROVE FALSE
      BY <1>2, <1>8
    <3>1. u \in Nat
      BY <1>2, <1>8
    <3>2. D * n <= D * u
      BY <1>1, <1>2, <3>1, ProductMono
    <3> QED BY <1>1, <1>2, <1>3, <1>8, <3>2
  <2>2. u \in Nat
    <3> SUFFICES ASSUME u <= -1 PROVE FALSE
      BY <1>8
    <3>1. -u \in Nat /\ 1 <= -u
      BY <1>8
    <3>2. D * 1 <= D * (-u)
      BY <1>1, <3>1, ProductMono
    <3>3. D * (-u) = -(D * u)
      BY <1>1, <1>8
    <3> QED BY <1>1, <1>3, <1>8, <3>2, <3>3
  <2>3. D * (u + 1) <= D * n
    BY <1>1, <1>2, <2>1, <2>2, ProductMono
  <2>4. D * (u + 1) = D * u + D
    BY <1>1, <2>2
  <2> QED BY <1>2, <1>8, <2>3, <2>4
<1>10. EmittedAfter(x + D) = T + R * (r + D)
  <2>1. CASE r + D < E
    <3>1. x + D \in Nat /\ r + D \in 0 .. E - 1 /\ x + D = E * q + (r + D)
      <4>1. E * q \in Nat
        BY <1>1, <1>3, ProductNat
      <4> QED BY <1>1, <1>3, <2>1, <4>1
    <3> DEFINE y == x + D
               c == r + D
    <3> HIDE DEF y, c
    <3>2. y \in Nat /\ c \in 0 .. E - 1 /\ y = E * q + c
      BY <3>1 DEF y, c
    <3>3. y \div E = q /\ y % E = c
      BY <1>1, <1>3, <3>2, QuotientIs
    <3>4. EmittedAfter(y) = Eras(q).total + RewardPerHeight(q) * c
      BY <3>3 DEF EmittedAfter
    <3> QED BY <3>4 DEF y, c, R, T
  <2>2. CASE r + D = E
    <3> DEFINE y == x + D
               p == q + 1
    <3>1. y \in Nat /\ p \in Nat /\ y = E * p + 0 /\ 0 \in 0 .. E - 1
      <4>1. E * p = E * q + E
        BY <1>1, <1>3
      <4>2. E * q \in Nat
        BY <1>1, <1>3, ProductNat
      <4> QED BY <1>1, <1>3, <2>2, <4>1, <4>2
    <3> HIDE DEF y, p
    <3>2. y \div E = p /\ y % E = 0
      BY <1>1, <3>1, QuotientIs
    <3>3. EmittedAfter(y) = Eras(p).total + RewardPerHeight(p) * 0
      BY <3>2 DEF EmittedAfter
    <3>4. RewardPerHeight(p) \in Nat /\ Eras(p).total \in Nat
      BY <3>1, RewardPerHeightNat, ErasTotalStep
    <3>5. EmittedAfter(y) = Eras(p).total
      BY <3>3, <3>4
    <3> QED BY <1>7, <2>2, <3>5 DEF y, p
  <2> QED BY <1>1, <1>3, <1>9, <2>1, <2>2
<1>11. (T + R * (r + D)) - (T + R * r) = R * D
  <2>1. r \in Nat
    BY <1>1, <1>3
  <2> HIDE DEF D, E
  <2>2. D \in Nat
    BY <1>1 DEF D
  <2> DEFINE a == R * r
             b == R * D
  <2>3. R * (r + D) = a + b
    BY <1>6, <2>1, <2>2
  <2>4. a \in Nat /\ b \in Nat
    BY <1>6, <2>1, <2>2, ProductNat
  <2> HIDE DEF a, b
  <2>5. (T + (a + b)) - (T + a) = b
    BY <1>6, <2>4
  <2> QED BY <2>3, <2>5 DEF a, b
<1>12. EmissionBetween(HeightOfDay(d), HeightOfDay(d + 1)) = R * D
  BY <1>4, <1>5, <1>6, <1>10, <1>11
<1> QED BY <1>6, <1>12

\* A quarter of four times an amount is the amount (Split).
LEMMA QuarterOf ==
  ASSUME NEW c \in Nat, NEW a, a = 4 * c
  PROVE  a \in Nat /\ Split(a).lshare = c
<1>1. a * 25 = 100 * c + 0
  OBVIOUS
<1>2. a * 25 \in Nat /\ 100 \in Nat \ {0} /\ 0 \in 0 .. 100 - 1
  OBVIOUS
<1> DEFINE p == a * 25
<1> HIDE DEF p
<1>3. p \div 100 = c
  BY <1>1, <1>2, QuotientIs DEF p
<1>4. Split(a).lshare = MulDiv(a, 25, 100)
  BY DEF Split
<1> QED BY <1>3, <1>4 DEF MulDiv, p

(* The comment at the emission walk: a day's quarter is exact, so the sum  *)
(* of the daily quarters is the quarter of the sum.                        *)
LEMMA DayQuarters ==
  ASSUME NEW d \in Nat
  PROVE  LET amount == EmissionBetween(HeightOfDay(d), HeightOfDay(d + 1))
         IN  Split(amount).lshare \in Nat /\ amount = 4 * Split(amount).lshare
<1> DEFINE amount == EmissionBetween(HeightOfDay(d), HeightOfDay(d + 1))
           g == HeightsPerDay \div 8
<1>1. PICK R \in Nat : amount = R * HeightsPerDay
  BY DayIsUniform
<1>2. g \in Nat /\ HeightsPerDay = 8 * g
  <2>1. HeightsPerDay \in Nat /\ HeightsPerDay % 8 = 0 /\ 8 \in Nat \ {0}
    BY EngineAssumption
  <2> QED BY <2>1
<1> HIDE DEF amount, g
<1> DEFINE e == R * g
           c == 2 * e
<1>3. e \in Nat
  BY <1>2, ProductNat
<1>4. R * HeightsPerDay = 8 * e
  BY <1>2
<1> HIDE DEF e
<1>5. c \in Nat /\ amount = 4 * c
  BY <1>1, <1>3, <1>4
<1> HIDE DEF c
<1>6. Split(amount).lshare = c
  BY <1>5, QuarterOf
<1> QED BY <1>5, <1>6 DEF amount

-----------------------------------------------------------------------------
(* The walk.                                                               *)

\* Ends that rise twice have risen.
LEMMA RisesTwice ==
  ASSUME NEW s, NEW q, NEW x, Sound(s, q, x), NEW t, NEW y, Sound(t, q, y),
         NEW u, NEW z, Sound(u, q, z), Rises(s, t, q), Rises(t, u, q)
  PROVE  Rises(s, u, q)
<1>1. \A k \in DOMAIN q : EndOf(s, q[k]) \in Nat /\ EndOf(t, q[k]) \in Nat /\ EndOf(u, q[k]) \in Nat
  <2> TAKE k \in DOMAIN q
  <2>1. s \in Store /\ t \in Store /\ u \in Store /\ Staked(q[k])
        /\ Started(s, q[k]) /\ Started(t, q[k]) /\ Started(u, q[k])
    BY DEF Sound
  <2> QED BY <2>1, EndBetween
<1> QED BY <1>1 DEF Rises

\* A walk's drain moves no yield.
LEMMA DrainSound ==
  ASSUME NEW q, NEW x, NEW w \in WalkState, Sound(w.store, q, x)
  PROVE  Sound(DrainExpiryList(w).store, q, x) /\ Rises(w.store, DrainExpiryList(w).store, q)
<1> DEFINE s == w.store
           t == DrainExpiryList(w).store
<1>1. SameBooks(s, t) /\ t \in Store
  <2>1. DrainExpiryList(w) \in WalkState /\ SameBooks(w.store, DrainExpiryList(w).store)
    BY DrainFrame
  <2> QED BY <2>1 DEF WalkState
<1> HIDE DEF t, s
<1>2. /\ t.acc_per = s.acc_per /\ t.acc_held = s.acc_held /\ t.acc_day = s.acc_day
      /\ t.shares_total = s.shares_total /\ t.exp = s.exp /\ t.accAt = s.accAt
  BY <1>1 DEF SameBooks
<1>3. Sound(s, q, x)
  BY DEF s
<1>4. \A k \in DOMAIN q : Staked(q[k])
  BY <1>3 DEF Sound
<1>5. /\ Sound(t, q, x)
      /\ \A k \in DOMAIN q : EndOf(t, q[k]) = EndOf(s, q[k]) /\ (Earns(t, q[k]) <=> Earns(s, q[k]))
  BY <1>1, <1>2, <1>3, <1>4, TermsSound
<1>6. \A k \in DOMAIN q : EndOf(s, q[k]) \in Nat
  <2> TAKE k \in DOMAIN q
  <2>1. s \in Store /\ Staked(q[k]) /\ Started(s, q[k])
    BY <1>3 DEF Sound
  <2> QED BY <2>1, EndBetween
<1>7. Rises(s, t, q)
  BY <1>5, <1>6 DEF Rises
<1> QED BY <1>5, <1>7 DEF s, t

\* Closing a day: the day's quarter goes through the accumulator, then what
\* matures stops to earn.
LEMMA CloseSound ==
  ASSUME NEW q, NEW x \in Nat, NEW w \in WalkState, w.store.acc_day + 1 \in Days,
         Sound(w.store, q, x + w.lshare), w.emitted = 4 * w.lshare
  PROVE  LET v == CloseDay(w)
         IN  /\ Sound(v.store, q, x + v.lshare) /\ Rises(w.store, v.store, q)
             /\ v.emitted = 4 * v.lshare
<1> DEFINE s      == w.store
           day    == s.acc_day
           amount == EmissionBetween(HeightOfDay(day), HeightOfDay(day + 1))
           lshare == Split(amount).lshare
           step   == AccumulatorStep(s.acc_per, lshare, s.acc_held, s.shares_total)
           paid   == [s EXCEPT !.acc_per = step.acc, !.acc_held = step.held]
           t      == [ExpireDay(paid, day) EXCEPT !.acc_day = day + 1]
           y      == x + w.lshare
<1>1. s \in Store /\ w.lshare \in Nat /\ w.emitted \in Nat
  BY DEF WalkState
<1>2. day \in Nat /\ day \in Days /\ s.acc_per \in Nat /\ s.acc_held \in Nat /\ s.shares_total \in Int
  BY <1>1, StoreFields
<1>3. lshare \in Nat /\ amount = 4 * lshare
  BY <1>2, DayQuarters
<1>4. CloseDay(w) = [store   |-> t,
                     emitted |-> w.emitted + amount,
                     lshare  |-> w.lshare + lshare,
                     budget  |-> w.budget,
                     stopped |-> FALSE]
  BY DEF CloseDay
<1> HIDE DEF amount, lshare
<1>5. step.acc \in Nat /\ step.held \in Nat
  BY <1>2, <1>3, AccumulatorStepSound
<1> DEFINE per  == step.acc
           held == step.held
<1>6. paid = [s EXCEPT !.acc_per = per, !.acc_held = held]
  OBVIOUS
<1> HIDE DEF step, paid, per, held
<1>7. /\ paid \in Store /\ paid.acc_per = per /\ paid.acc_held = held /\ paid.acc_day = s.acc_day
      /\ paid.shares_total = s.shares_total /\ paid.exp = s.exp /\ paid.accAt = s.accAt
  BY <1>1, <1>5, <1>6 DEF Store, per, held
<1>8. Sound(s, q, y)
  OBVIOUS
<1>9. Sound(paid, q, y + lshare) /\ Rises(s, paid, q)
  <2>1. /\ paid.acc_per = AccumulatorStep(s.acc_per, lshare, s.acc_held, s.shares_total).acc
        /\ paid.acc_held = AccumulatorStep(s.acc_per, lshare, s.acc_held, s.shares_total).held
    BY <1>7 DEF per, held, step
  <2> HIDE DEF s, y
  <2> QED BY <1>3, <1>7, <1>8, <2>1, AccumulateSound
<1>10. Sound(t, q, y + lshare) /\ Rises(paid, t, q)
  <2>1. paid.acc_day + 1 \in Days
    BY <1>7
  <2> DEFINE z == y + lshare
  <2>2. Sound(paid, q, z)
    BY <1>9
  <2> HIDE DEF z
  <2>3. LET tt == [ExpireDay(paid, paid.acc_day) EXCEPT !.acc_day = paid.acc_day + 1]
        IN  Sound(tt, q, z) /\ Rises(paid, tt, q)
    BY <2>1, <2>2, ExpireSound
  <2>4. t = [ExpireDay(paid, paid.acc_day) EXCEPT !.acc_day = paid.acc_day + 1]
    BY <1>7
  <2> HIDE DEF t
  <2> QED BY <2>3, <2>4 DEF z
<1> HIDE DEF t, y
<1>11. Rises(s, t, q)
  BY <1>8, <1>9, <1>10, RisesTwice
<1>12. y + lshare = x + (w.lshare + lshare)
  BY <1>1, <1>3 DEF y
<1>13. w.emitted + amount = 4 * (w.lshare + lshare)
  BY <1>1, <1>3
<1> QED BY <1>4, <1>10, <1>11, <1>12, <1>13

\* The states a walk from s goes through, as far as the positions q can tell.
SoundLoop(s, target, q, x) ==
  {w \in LoopStates(s, target) :
     /\ Sound(w.store, q, x + w.lshare) /\ Rises(s, w.store, q)
     /\ w.emitted = 4 * w.lshare}

\* Whatever the budget, the loop ends in one of them.
LEMMA WalkDaysSound ==
  ASSUME NEW s, NEW q, NEW x, Sound(s, q, x), NEW target \in Days, s.acc_day <= target,
         NEW n \in Nat, NEW budget \in Nat
  PROVE  WalkDays(s, target, n, budget) \in SoundLoop(s, target, q, x)
<1> DEFINE X == {w \in WalkState : /\ w.store.acc_day <= target
                                   /\ Sound(w.store, q, x + w.lshare) /\ Rises(s, w.store, q)
                                   /\ w.emitted = 4 * w.lshare}
           close == [w \in WalkState |-> IF w.stopped THEN w ELSE CloseDay(w)]
           turn  == [w \in WalkState |->
                       IF w.stopped \/ w.store.acc_day >= target THEN w
                       ELSE close[DrainExpiryList(w)]]
           first == [store |-> s, emitted |-> 0, lshare |-> 0, budget |-> budget,
                     stopped |-> FALSE]
<1>1. WalkDays(s, target, n, budget) = Iterate(turn, first, n)
  BY DEF WalkDays
<1>2. s \in Store /\ x \in Nat /\ target \in Nat
  BY ConstantTypes DEF Sound, Days
<1>3. first \in X
  <2>1. first \in WalkState /\ x + 0 = x /\ 4 * 0 = 0
    BY <1>2 DEF WalkState
  <2>2. Rises(s, s, q)
    <3>1. \A k \in DOMAIN q : EndOf(s, q[k]) \in Nat
      BY <1>2, EndBetween DEF Sound
    <3> QED BY <3>1 DEF Rises
  <2> QED BY <2>1, <2>2
<1>4. \A w \in X : turn[w] \in X
  <2> SUFFICES ASSUME NEW w \in X PROVE turn[w] \in X
    OBVIOUS
  <2> DEFINE u == DrainExpiryList(w)
             v == CloseDay(u)
  <2>1. /\ w \in WalkState /\ w.store.acc_day <= target
        /\ Sound(w.store, q, x + w.lshare) /\ Rises(s, w.store, q) /\ w.emitted = 4 * w.lshare
    OBVIOUS
  <2>2. CASE w.stopped \/ w.store.acc_day >= target
    BY <2>1, <2>2
  <2>3. CASE ~ (w.stopped \/ w.store.acc_day >= target)
    <3>1. /\ u \in WalkState /\ SameBooks(w.store, u.store)
          /\ u.emitted = w.emitted /\ u.lshare = w.lshare
      BY <2>1, DrainFrame
    <3>2. turn[w] = IF u.stopped THEN u ELSE v
      BY <2>1, <2>3, <3>1
    <3>3. Sound(u.store, q, x + w.lshare) /\ Rises(w.store, u.store, q)
      <4> DEFINE y == x + w.lshare
      <4>1. Sound(w.store, q, y)
        BY <2>1
      <4> HIDE DEF y, u
      <4>2. Sound(DrainExpiryList(w).store, q, y) /\ Rises(w.store, DrainExpiryList(w).store, q)
        BY <2>1, <4>1, DrainSound
      <4> QED BY <4>2 DEF y, u
    <3> HIDE DEF u, turn, close
    <3>4. Rises(s, u.store, q)
      BY <2>1, <3>3, RisesTwice
    <3>5. u \in X
      BY <2>1, <3>1, <3>3, <3>4 DEF SameBooks
    <3>6. CASE u.stopped
      BY <3>2, <3>5, <3>6
    <3>7. CASE ~ u.stopped
      <4>1. u.store.acc_day + 1 \in Days /\ u.store.acc_day + 1 <= target
        <5>1. w.store \in Store /\ u.store.acc_day = w.store.acc_day
          BY <2>1, <3>1 DEF SameBooks, WalkState
        <5>2. w.store.acc_day \in Nat /\ w.store.acc_day < target
          BY <1>2, <2>3, <5>1, StoreFields
        <5> QED BY <1>2, <5>1, <5>2, ConstantTypes DEF Days
      <4>2. v \in WalkState /\ v.store.acc_day = u.store.acc_day + 1
        BY <3>1, <4>1, CloseDayFrame
      <4>3. /\ Sound(v.store, q, x + v.lshare) /\ Rises(u.store, v.store, q)
            /\ v.emitted = 4 * v.lshare
        BY <1>2, <3>1, <3>5, <4>1, CloseSound
      <4> HIDE DEF v
      <4>4. Rises(s, v.store, q)
        BY <3>3, <3>4, <4>3, RisesTwice
      <4> QED BY <3>2, <3>7, <4>1, <4>2, <4>3, <4>4
    <3> QED BY <3>6, <3>7
  <2> QED BY <2>2, <2>3
<1> HIDE DEF turn, first
<1>5. Iterate(turn, first, n) \in X
  <2> HIDE DEF X
  <2> QED BY <1>3, <1>4, IterateLoop
<1>6. WalkDays(s, target, n, budget) \in LoopStates(s, target)
  BY <1>2, WalkDaysFrame
<1> QED BY <1>1, <1>5, <1>6 DEF SoundLoop

\* What the walk credits at its end is what it found, and the L-Share part of
\* it is what went through the accumulator: the books of a walk of any length
\* and any budget (accrueWalk).
LEMMA AccrueBooks ==
  ASSUME NEW s, NEW q, Sound(s, q, s.pool_lshare), NEW h \in Heights, Settled(s, h),
         NEW n \in Int, NEW budget \in Nat
  PROVE  LET t == AccrueWalk(s, h, n, budget)
         IN  /\ Sound(t, q, t.pool_lshare) /\ Rises(s, t, q)
             /\ PoolsOf(t) + s.sup_emitted = PoolsOf(s) + t.sup_emitted
<1> DEFINE limit  == IF n <= 0 \/ n > MaxAccrualDays THEN MaxAccrualDays ELSE n
           target == DayOf(h)
           w      == WalkDays(s, target, limit, budget)
           alloc  == Split(w.emitted)
           pob    == SplitPoB(alloc.pob)
           t      == AccrueWalk(s, h, n, budget)
           x      == s.pool_lshare
<1>1. s \in Store /\ target \in Days /\ target \in Nat /\ limit \in Nat /\ s.acc_day <= target
  <2>1. target \in Days
    BY DayOfCall
  <2> QED BY <2>1, LasseMintAssumption, ConstantTypes DEF Settled, Days
<1>2. /\ s.acc_day \in Nat /\ x \in Nat /\ s.sup_emitted \in Nat /\ PoolsOf(s) \in Nat
      /\ s.pool_viral \in Nat /\ s.pool_deep \in Nat /\ s.pool_liq \in Nat
  BY <1>1, StoreFields, SMTT(60) DEF PoolsOf
<1>3. CASE s.acc_day >= target
  <2>1. t = s
    BY <1>3 DEF AccrueWalk
  <2>2. Rises(s, s, q)
    <3>1. \A k \in DOMAIN q : EndOf(s, q[k]) \in Nat
      BY <1>1, EndBetween DEF Sound
    <3> QED BY <3>1 DEF Rises
  <2> HIDE DEF t
  <2>3. Sound(t, q, t.pool_lshare) /\ Rises(s, t, q)
        /\ PoolsOf(t) + s.sup_emitted = PoolsOf(s) + t.sup_emitted
    BY <2>1, <2>2
  <2> QED BY <2>3 DEF t
<1>4. CASE s.acc_day < target
  <2>1. t = CreditWalk[w]
    <3>1. ~ (s.acc_day >= target)
      BY <1>1, <1>2, <1>4
    <3> QED BY <3>1, Zenon DEF AccrueWalk
  <2> HIDE DEF limit, target, t
  <2>2. w \in SoundLoop(s, target, q, x)
    <3>1. Sound(s, q, x)
      OBVIOUS
    <3> HIDE DEF x
    <3> QED BY <1>1, <3>1, WalkDaysSound
  <2> HIDE DEF w
  <2>3. /\ w \in WalkState /\ w.store.acc_day = w.store.acc_day
        /\ Sound(w.store, q, x + w.lshare) /\ Rises(s, w.store, q) /\ w.emitted = 4 * w.lshare
        /\ w.store.sup_emitted = s.sup_emitted /\ w.store.pool_lshare = x
        /\ w.store.pool_viral = s.pool_viral /\ w.store.pool_deep = s.pool_deep
        /\ w.store.pool_liq = s.pool_liq
    BY <2>2 DEF SoundLoop, LoopStates
  <2>4. w.store \in Store /\ w.emitted \in Nat /\ w.lshare \in Nat
    BY <2>3 DEF WalkState
  <2>5. alloc.lshare = w.lshare
    BY <2>3, <2>4, QuarterOf
  <2>6. /\ alloc.lshare \in Nat /\ alloc.liquidity \in Nat /\ alloc.pob \in Nat
        /\ alloc.lshare + alloc.liquidity + alloc.pob = w.emitted
    BY <2>4, SplitExact
  <2> HIDE DEF alloc
  <2>7. pob.viral \in Nat /\ pob.deep \in Nat /\ pob.viral + pob.deep = alloc.pob
    BY <2>6, SplitPoBExact
  <2> HIDE DEF pob
  <2>8. t = [w.store EXCEPT !.sup_emitted = @ + w.emitted,
                            !.pool_viral  = @ + pob.viral,
                            !.pool_deep   = @ + pob.deep,
                            !.pool_liq    = @ + alloc.liquidity,
                            !.pool_lshare = @ + w.lshare,
                            !.settled     = HeightOfDay(w.store.acc_day)]
    BY <2>1, <2>3 DEF CreditWalk, alloc, pob
  <2>9. t \in Store
    <3>1. Settled(AccrueWalk(s, h, n, budget), h)
      BY AccrueFrame
    <3> QED BY <3>1 DEF Settled, t
  <2>10. /\ t.acc_per = w.store.acc_per /\ t.acc_held = w.store.acc_held
         /\ t.acc_day = w.store.acc_day /\ t.shares_total = w.store.shares_total
         /\ t.exp = w.store.exp /\ t.accAt = w.store.accAt
         /\ t.sup_emitted = s.sup_emitted + w.emitted
         /\ t.pool_lshare = x + w.lshare
         /\ t.pool_viral = s.pool_viral + pob.viral /\ t.pool_deep = s.pool_deep + pob.deep
         /\ t.pool_liq = s.pool_liq + alloc.liquidity
    BY <2>3, <2>4, <2>8 DEF Store
  <2> DEFINE y == x + w.lshare
             v == w.store
  <2>11. Sound(v, q, y) /\ Rises(s, v, q)
    BY <2>3
  <2>12. PoolsOf(t) + s.sup_emitted = PoolsOf(s) + t.sup_emitted
    BY <1>2, <2>4, <2>5, <2>6, <2>7, <2>10 DEF PoolsOf
  <2>13. /\ t.acc_per = v.acc_per /\ t.acc_held = v.acc_held
         /\ t.acc_day = v.acc_day /\ t.shares_total = v.shares_total
         /\ t.exp = v.exp /\ t.accAt = v.accAt /\ t.pool_lshare = y
    BY <2>10
  <2> HIDE DEF y, v
  <2>14. \A k \in DOMAIN q : Staked(q[k])
    BY DEF Sound
  <2>15. /\ Sound(t, q, y)
         /\ \A k \in DOMAIN q : EndOf(t, q[k]) = EndOf(v, q[k]) /\ (Earns(t, q[k]) <=> Earns(v, q[k]))
    BY <2>9, <2>11, <2>13, <2>14, TermsSound
  <2>16. Rises(s, t, q)
    BY <2>11, <2>15 DEF Rises
  <2>17. Sound(t, q, t.pool_lshare)
    BY <2>13, <2>15
  <2> QED BY <2>12, <2>16, <2>17 DEF t
<1> QED BY <1>1, <1>2, <1>3, <1>4

\* Recycled value enters the pool and the accumulator alike
\* (RecycleThroughAccumulator).
LEMMA RecycleBooks ==
  ASSUME NEW s, NEW q, Sound(s, q, s.pool_lshare), NEW amount \in Nat
  PROVE  LET t == Recycle(s, amount)
         IN  /\ Sound(t, q, t.pool_lshare) /\ Rises(s, t, q)
             /\ PoolsOf(t) = PoolsOf(s) + amount /\ t.sup_emitted = s.sup_emitted
<1> DEFINE step == AccumulatorStep(s.acc_per, amount, s.acc_held, s.shares_total)
           x    == s.pool_lshare
           per  == step.acc
           held == step.held
           y    == x + amount
           u    == [s EXCEPT !.pool_lshare = y, !.acc_per = per, !.acc_held = held]
           t    == Recycle(s, amount)
<1>1. s \in Store /\ \A k \in DOMAIN q : Staked(q[k]) /\ Started(s, q[k])
  BY DEF Sound
<1>2. /\ s.acc_per \in Nat /\ s.acc_held \in Nat /\ s.shares_total \in Int /\ x \in Nat
      /\ s.pool_viral \in Nat /\ s.pool_deep \in Nat /\ s.pool_liq \in Nat
  BY <1>1, StoreFields
<1>3. per \in Nat /\ held \in Nat /\ y \in Nat
  <2>1. per \in Nat /\ held \in Nat
    BY <1>2, AccumulatorStepSound
  <2> HIDE DEF per, held, step, x
  <2> QED BY <1>2, <2>1
<1>4. t = IF amount = 0 THEN s ELSE u
  BY DEF Recycle
<1>5. CASE amount = 0
  <2>1. t = s
    BY <1>4, <1>5
  <2>2. Rises(s, s, q)
    <3>1. \A k \in DOMAIN q : EndOf(s, q[k]) \in Nat
      BY <1>1, EndBetween
    <3> QED BY <3>1 DEF Rises
  <2>3. PoolsOf(s) = PoolsOf(s) + amount
    BY <1>2, <1>5 DEF PoolsOf
  <2> HIDE DEF t
  <2>4. Sound(t, q, t.pool_lshare) /\ Rises(s, t, q)
        /\ PoolsOf(t) = PoolsOf(s) + amount /\ t.sup_emitted = s.sup_emitted
    BY <2>1, <2>2, <2>3
  <2> QED BY <2>4 DEF t
<1>6. CASE amount # 0
  <2>1. t = u
    BY <1>4, <1>6
  <2> HIDE DEF t, per, held, step, y
  <2>2. /\ u \in Store /\ u.acc_per = per /\ u.acc_held = held /\ u.acc_day = s.acc_day
        /\ u.shares_total = s.shares_total /\ u.exp = s.exp /\ u.accAt = s.accAt
        /\ u.pool_lshare = y /\ u.sup_emitted = s.sup_emitted
        /\ u.pool_viral = s.pool_viral /\ u.pool_deep = s.pool_deep /\ u.pool_liq = s.pool_liq
    BY <1>1, <1>3 DEF Store
  <2> HIDE DEF u
  <2>3. Sound(s, q, x)
    OBVIOUS
  <2>4. /\ u.acc_per = AccumulatorStep(s.acc_per, amount, s.acc_held, s.shares_total).acc
        /\ u.acc_held = AccumulatorStep(s.acc_per, amount, s.acc_held, s.shares_total).held
    BY <2>2 DEF per, held, step
  <2>5. Sound(u, q, x + amount) /\ Rises(s, u, q)
    <3> HIDE DEF x
    <3> QED BY <2>2, <2>3, <2>4, AccumulateSound
  <2>6. PoolsOf(u) = PoolsOf(s) + amount
    BY <1>2, <2>2 DEF PoolsOf, y
  <2>7. Sound(t, q, t.pool_lshare) /\ Rises(s, t, q)
        /\ PoolsOf(t) = PoolsOf(s) + amount /\ t.sup_emitted = s.sup_emitted
    BY <2>1, <2>2, <2>5, <2>6 DEF y
  <2> QED BY <2>7 DEF t
<1> QED BY <1>5, <1>6

-----------------------------------------------------------------------------
(* The table of mints as positions.                                        *)

\* Who is open, and what an open position is.
LEMMA LiveIs ==
  ASSUME NEW p, NEW k
  PROVE  /\ k \in LiveOf(p) <=> \E a \in Accounts : \E i \in DOMAIN p[a] :
                                  k = <<a, i>> /\ ~ p[a][i].ended
         /\ DOMAIN Positions(p) = LiveOf(p)
         /\ k \in LiveOf(p) => Positions(p)[k] = p[k[1]][k[2]]
BY DEF LiveOf, Positions

\* Table new has all positions of p and one more, which is open.
OneMore(p, new, a, n) ==
  /\ n \notin DOMAIN p[a] /\ ~ new[a][n].ended
  /\ \A b \in Accounts : \A i : i \in DOMAIN new[b] <=> i \in DOMAIN p[b] \/ (b = a /\ i = n)
  /\ \A b \in Accounts : \A i \in DOMAIN p[b] : new[b][i] = p[b][i]

\* Table new has the positions of p, of which at most one, open in p, is another.
OneOther(p, new, a, n) ==
  /\ n \in DOMAIN p[a] /\ ~ p[a][n].ended
  /\ \A b \in Accounts : \A i : i \in DOMAIN new[b] <=> i \in DOMAIN p[b]
  /\ \A b \in Accounts : \A i \in DOMAIN p[b] : <<b, i>> # <<a, n>> => new[b][i] = p[b][i]

\* A table with one more open position has that one more.
LEMMA LiveMore ==
  ASSUME NEW p, NEW new, NEW a \in Accounts, NEW n, OneMore(p, new, a, n)
  PROVE  /\ <<a, n>> \notin LiveOf(p)
         /\ \A k : k \in LiveOf(new) <=> k \in LiveOf(p) \/ k = <<a, n>>
         /\ Positions(new)[<<a, n>>] = new[a][n]
         /\ \A k \in LiveOf(p) : Positions(new)[k] = Positions(p)[k]
<1> USE DEF OneMore
<1>1. <<a, n>> \notin LiveOf(p)
  <2> SUFFICES ASSUME <<a, n>> \in LiveOf(p) PROVE FALSE
    OBVIOUS
  <2> QED BY LiveIs
<1>2. ASSUME NEW k PROVE k \in LiveOf(new) <=> k \in LiveOf(p) \/ k = <<a, n>>
  <2>1. ASSUME k \in LiveOf(new) PROVE k \in LiveOf(p) \/ k = <<a, n>>
    <3>1. PICK b \in Accounts : \E i \in DOMAIN new[b] : k = <<b, i>> /\ ~ new[b][i].ended
      BY <2>1, LiveIs
    <3>2. PICK i \in DOMAIN new[b] : k = <<b, i>> /\ ~ new[b][i].ended
      BY <3>1
    <3>3. CASE i \in DOMAIN p[b]
      BY <3>2, <3>3, LiveIs
    <3> QED BY <3>2, <3>3
  <2>2. ASSUME k \in LiveOf(p) PROVE k \in LiveOf(new)
    <3>1. PICK b \in Accounts : \E i \in DOMAIN p[b] : k = <<b, i>> /\ ~ p[b][i].ended
      BY <2>2, LiveIs
    <3> QED BY <3>1, LiveIs
  <2>3. ASSUME k = <<a, n>> PROVE k \in LiveOf(new)
    BY <2>3, LiveIs
  <2> QED BY <2>1, <2>2, <2>3
<1>3. Positions(new)[<<a, n>>] = new[a][n]
  BY <1>2, LiveIs
<1>4. ASSUME NEW k \in LiveOf(p) PROVE Positions(new)[k] = Positions(p)[k]
  <2>1. PICK b \in Accounts : \E i \in DOMAIN p[b] : k = <<b, i>> /\ ~ p[b][i].ended
    BY LiveIs
  <2>2. PICK i \in DOMAIN p[b] : k = <<b, i>> /\ ~ p[b][i].ended
    BY <2>1
  <2>3. k \in LiveOf(new)
    BY <1>2
  <2>4. Positions(p)[k] = p[b][i] /\ Positions(new)[k] = new[b][i]
    BY <2>2, <2>3, LiveIs
  <2> QED BY <2>2, <2>4
<1> QED BY <1>1, <1>2, <1>3, <1>4

\* What that means for the open positions.
OthersStay(p, new, a, n) ==
  /\ <<a, n>> \in LiveOf(p) /\ Positions(p)[<<a, n>>] = p[a][n]
  /\ \A k : k # <<a, n>> => (k \in LiveOf(new) <=> k \in LiveOf(p))
  /\ \A k \in LiveOf(p) : k # <<a, n>> => Positions(new)[k] = Positions(p)[k]
  /\ new[a][n].ended => LiveOf(new) = LiveOf(p) \ {<<a, n>>}
  /\ ~ new[a][n].ended => LiveOf(new) = LiveOf(p) /\ Positions(new)[<<a, n>>] = new[a][n]

\* A table in which one open position changed has the others unchanged.
LEMMA LiveOthers ==
  ASSUME NEW p, NEW new, NEW a \in Accounts, NEW n, OneOther(p, new, a, n)
  PROVE  OthersStay(p, new, a, n)
<1> USE DEF OneOther
<1>1. <<a, n>> \in LiveOf(p)
  BY LiveIs
<1>2. Positions(p)[<<a, n>>] = p[a][n]
  BY <1>1, LiveIs
<1>3. ASSUME NEW k, k # <<a, n>> PROVE k \in LiveOf(new) <=> k \in LiveOf(p)
  <2>1. ASSUME k \in LiveOf(new) PROVE k \in LiveOf(p)
    <3>1. PICK b \in Accounts : \E i \in DOMAIN new[b] : k = <<b, i>> /\ ~ new[b][i].ended
      BY <2>1, LiveIs
    <3>2. PICK i \in DOMAIN new[b] : k = <<b, i>> /\ ~ new[b][i].ended
      BY <3>1
    <3>3. i \in DOMAIN p[b] /\ ~ p[b][i].ended
      BY <1>3, <3>2
    <3> QED BY <3>2, <3>3, LiveIs
  <2>2. ASSUME k \in LiveOf(p) PROVE k \in LiveOf(new)
    <3>1. PICK b \in Accounts : \E i \in DOMAIN p[b] : k = <<b, i>> /\ ~ p[b][i].ended
      BY <2>2, LiveIs
    <3> QED BY <1>3, <3>1, LiveIs
  <2> QED BY <2>1, <2>2
<1>4. ASSUME NEW k \in LiveOf(p), k # <<a, n>> PROVE Positions(new)[k] = Positions(p)[k]
  <2>1. PICK b \in Accounts : \E i \in DOMAIN p[b] : k = <<b, i>> /\ ~ p[b][i].ended
    BY LiveIs
  <2>2. PICK i \in DOMAIN p[b] : k = <<b, i>> /\ ~ p[b][i].ended
    BY <2>1
  <2>3. k \in LiveOf(new)
    BY <1>3, <1>4
  <2>4. Positions(p)[k] = p[b][i] /\ Positions(new)[k] = new[b][i]
    BY <2>2, <2>3, LiveIs
  <2> QED BY <1>4, <2>2, <2>4
<1>5. ASSUME <<a, n>> \in LiveOf(new) PROVE ~ new[a][n].ended
  <2>1. PICK b \in Accounts : \E i \in DOMAIN new[b] : <<a, n>> = <<b, i>> /\ ~ new[b][i].ended
    BY <1>5, LiveIs
  <2> QED BY <2>1
<1>6. ASSUME ~ new[a][n].ended PROVE LiveOf(new) = LiveOf(p) /\ Positions(new)[<<a, n>>] = new[a][n]
  <2>1. <<a, n>> \in LiveOf(new)
    BY <1>6, LiveIs
  <2>2. Positions(new)[<<a, n>>] = new[a][n]
    BY <2>1, LiveIs
  <2> DEFINE S == LiveOf(p)
             T == LiveOf(new)
             k == <<a, n>>
  <2>3. k \in S /\ k \in T /\ \A j : j # k => (j \in T <=> j \in S)
    BY <1>1, <1>3, <2>1
  <2>4. T = S
    <3> HIDE DEF S, T, k
    <3> QED BY <2>3
  <2> QED BY <2>2, <2>4
<1>7. ASSUME new[a][n].ended PROVE LiveOf(new) = LiveOf(p) \ {<<a, n>>}
  <2> DEFINE S == LiveOf(p)
             T == LiveOf(new)
             k == <<a, n>>
  <2>1. k \notin T /\ \A j : j # k => (j \in T <=> j \in S)
    BY <1>3, <1>5, <1>7
  <2>2. T = S \ {k}
    <3> HIDE DEF S, T, k
    <3> QED BY <2>1
  <2> QED BY <2>2
<1> QED BY <1>1, <1>2, <1>3, <1>4, <1>6, <1>7 DEF OthersStay

\* A position is added (registerMints).
LEMMA AppendPositions ==
  ASSUME NEW p \in [Accounts -> Seq(Mint)], NEW a \in Accounts, NEW m, ~ m.ended,
         NEW new, new = [p EXCEPT ![a] = Append(@, m)]
  PROVE  Joined(Positions(p), <<a, Len(p[a]) + 1>>, m, Positions(new))
<1> DEFINE n == Len(p[a]) + 1
           l == Append(p[a], m)
<1>1. /\ DOMAIN p[a] = 1 .. n - 1 /\ n \in Nat /\ DOMAIN l = 1 .. n
      /\ l[n] = m /\ \A i \in DOMAIN p[a] : l[i] = p[a][i]
  <2>1. p[a] \in Seq(Mint)
    OBVIOUS
  <2> QED BY <2>1
<1>2. new[a] = l /\ \A b \in Accounts \ {a} : new[b] = p[b]
  OBVIOUS
<1> HIDE DEF l, n
<1>3. \A b \in Accounts : \A i : i \in DOMAIN new[b] <=> i \in DOMAIN p[b] \/ (b = a /\ i = n)
  BY <1>1, <1>2
<1>4. \A b \in Accounts : \A i \in DOMAIN p[b] : new[b][i] = p[b][i]
  BY <1>1, <1>2
<1>5. new[a][n] = m /\ n \notin DOMAIN p[a] /\ ~ new[a][n].ended
  BY <1>1, <1>2
<1>6. OneMore(p, new, a, n)
  BY <1>3, <1>4, <1>5 DEF OneMore
<1>7. /\ <<a, n>> \notin LiveOf(p)
      /\ \A k : k \in LiveOf(new) <=> k \in LiveOf(p) \/ k = <<a, n>>
      /\ Positions(new)[<<a, n>>] = m
      /\ \A k \in LiveOf(p) : Positions(new)[k] = Positions(p)[k]
  <2>1. \A z : OneMore(p, z, a, n) =>
               /\ <<a, n>> \notin LiveOf(p)
               /\ \A k : k \in LiveOf(z) <=> k \in LiveOf(p) \/ k = <<a, n>>
               /\ Positions(z)[<<a, n>>] = z[a][n]
               /\ \A k \in LiveOf(p) : Positions(z)[k] = Positions(p)[k]
    BY LiveMore
  <2> QED BY <1>5, <1>6, <2>1, Zenon
<1>8. LiveOf(new) = LiveOf(p) \union {<<a, n>>}
  <2> DEFINE S == LiveOf(p)
             T == LiveOf(new)
             k == <<a, n>>
  <2>1. \A j : j \in T <=> j \in S \/ j = k
    BY <1>7
  <2> HIDE DEF S, T, k
  <2>2. T = S \union {k}
    BY <2>1
  <2> QED BY <2>2 DEF S, T, k
<1>9. DOMAIN Positions(new) = LiveOf(new) /\ DOMAIN Positions(p) = LiveOf(p)
  BY Zenon DEF Positions
<1> QED BY <1>5, <1>7, <1>8, <1>9 DEF n, Joined

\* The positions r are q with the position k, which was old, now m.
Replaced(q, k, old, m, r) ==
  /\ k \in DOMAIN q /\ q[k] = old
  /\ m.ended => DOMAIN r = DOMAIN q \ {k}
  /\ ~ m.ended => DOMAIN r = DOMAIN q /\ r[k] = m
  /\ \A j \in DOMAIN q \ {k} : j \in DOMAIN r /\ r[j] = q[j]

\* A position is changed: it leaves when it is closed, and stays when it is
\* armed (endMint, armGoodAccounting).
LEMMA ReplacePositions ==
  ASSUME mint \in [Accounts -> Seq(Mint)], NEW a \in Accounts, NEW id \in DOMAIN mint[a],
         ~ mint[a][id].ended, NEW m, NEW new, new = [mint EXCEPT ![a][id] = m]
  PROVE  Replaced(Positions(mint), <<a, id>>, mint[a][id], m, Positions(new))
<1>1. /\ \A b \in Accounts : \A i : i \in DOMAIN new[b] <=> i \in DOMAIN mint[b]
      /\ new[a][id] = m
      /\ \A b \in Accounts : \A i \in DOMAIN mint[b] : <<b, i>> # <<a, id>> => new[b][i] = mint[b][i]
  <2>1. mint[a] \in Seq(Mint)
    OBVIOUS
  <2> QED BY <2>1
<1>2. OneOther(mint, new, a, id)
  BY <1>1 DEF OneOther
<1>3. OthersStay(mint, new, a, id)
  BY <1>2, LiveOthers
<1>4. DOMAIN Positions(new) = LiveOf(new) /\ DOMAIN Positions(mint) = LiveOf(mint)
  BY Zenon DEF Positions
<1>5. /\ <<a, id>> \in LiveOf(mint) /\ Positions(mint)[<<a, id>>] = mint[a][id]
      /\ m.ended => LiveOf(new) = LiveOf(mint) \ {<<a, id>>}
      /\ ~ m.ended => LiveOf(new) = LiveOf(mint) /\ Positions(new)[<<a, id>>] = m
  BY <1>1, <1>3, Zenon DEF OthersStay
<1>6. \A j \in LiveOf(mint) \ {<<a, id>>} :
        j \in LiveOf(new) /\ Positions(new)[j] = Positions(mint)[j]
  BY <1>3, Zenon DEF OthersStay
<1> QED BY <1>4, <1>5, <1>6 DEF Replaced

-----------------------------------------------------------------------------
(* The books of a step.                                                    *)

\* A balance changes by what is put there or taken.
LEMMA BalanceMoves ==
  ASSUME bal \in [Accounts -> Nat], NEW a \in Accounts, NEW v \in Nat,
         NEW new, new = [bal EXCEPT ![a] = v]
  PROVE  Total(new, Accounts) = Total(bal, Accounts) - bal[a] + v
<1> DEFINE b == bal
<1>1. IsFiniteSet(Accounts)
  BY LasseMintAssumption
<1>2. \A c \in Accounts : b[c] \in Nat
  OBVIOUS
<1>3. (\A c \in Accounts \ {a} : new[c] = b[c]) /\ new[a] = v
  OBVIOUS
<1> HIDE DEF b
<1>4. \A g : (\A c \in Accounts \ {a} : g[c] = b[c]) /\ g[a] \in Nat
             => Total(g, Accounts) = Total(b, Accounts) - b[a] + g[a]
  BY <1>1, <1>2, TotalUpdate
<1> DEFINE Same(g) == \A c \in Accounts \ {a} : g[c] = b[c]
<1>5. Same(new) /\ new[a] \in Nat
  BY <1>3
<1>6. \A g : Same(g) /\ g[a] \in Nat => Total(g, Accounts) = Total(b, Accounts) - b[a] + g[a]
  BY <1>4
<1> HIDE DEF Same
<1> QED BY <1>3, <1>5, <1>6, Zenon DEF b

\* A new position locks its principal.
LEMMA LockedMore ==
  ASSUME NEW s, NEW q, NEW x, Sound(s, q, x), NEW m, Staked(m), NEW k, NEW r, Joined(q, k, m, r)
  PROVE  /\ Total(Locked(r), DOMAIN r) = Total(Locked(q), DOMAIN q) + m.principal
         /\ Total(Locked(q), DOMAIN q) \in Nat
<1> USE DEF Joined
<1> DEFINE f == Locked(q)
           g == Locked(r)
           K == DOMAIN q
           R == DOMAIN r
<1>1. /\ s \in Store /\ IsFiniteSet(K) /\ \A j \in K : Staked(q[j]) /\ Started(s, q[j])
  BY DEF Sound
<1>2. \A j \in K : f[j] \in Nat
  BY <1>1, CountsAreNat
<1>3. (\A j \in K : g[j] = f[j]) /\ g[k] = m.principal /\ R = K \union {k}
  BY DEF Locked
<1>4. m.principal \in Nat
  BY HoldingFields
<1> HIDE DEF f, g, K, R
<1>5. k \notin K
  BY DEF K
<1>6. Total(g, R) = Total(f, K) + g[k]
  BY <1>1, <1>2, <1>3, <1>4, <1>5, TotalGains
<1>7. Total(f, K) \in Nat
  BY <1>1, <1>2, TotalIsNat
<1> QED BY <1>3, <1>6, <1>7 DEF f, g, K, R

\* A closed position frees its principal.
LEMMA LockedLess ==
  ASSUME NEW s, NEW q, NEW x, Sound(s, q, x), NEW k, NEW r, Parted(q, k, r)
  PROVE  /\ Total(Locked(r), DOMAIN r) = Total(Locked(q), DOMAIN q) - q[k].principal
         /\ Total(Locked(q), DOMAIN q) \in Nat
<1> USE DEF Parted
<1> DEFINE f == Locked(q)
           g == Locked(r)
           K == DOMAIN q
           R == DOMAIN r
<1>1. /\ s \in Store /\ IsFiniteSet(K) /\ \A j \in K : Staked(q[j]) /\ Started(s, q[j])
  BY DEF Sound
<1>2. \A j \in K : f[j] \in Nat
  BY <1>1, CountsAreNat
<1>3. (\A j \in R : g[j] = f[j]) /\ f[k] = q[k].principal /\ R = K \ {k} /\ k \in K
  BY DEF Locked
<1> HIDE DEF f, g, K, R
<1>4. Total(g, R) = Total(f, K) - f[k]
  BY <1>1, <1>2, <1>3, TotalLoses
<1>5. Total(f, K) \in Nat
  BY <1>1, <1>2, TotalIsNat
<1> QED BY <1>3, <1>4, <1>5 DEF f, g, K, R

\* Registering a position changes no pool (registerMints).
LEMMA RegisterBooks ==
  ASSUME NEW s, NEW q, Sound(s, q, s.pool_lshare), NEW a \in Accounts,
         NEW m, Staked(m), m.accStart = s.acc_per, Earns(s, m), NEW k, NEW r, Joined(q, k, m, r)
  PROVE  LET t == RegisterMint(s, a, m)
         IN  /\ Sound(t, r, t.pool_lshare) /\ Rises(s, t, q)
             /\ PoolsOf(t) = PoolsOf(s) /\ t.sup_emitted = s.sup_emitted
<1> DEFINE t   == RegisterMint(s, a, m)
           day == MaturityDay(m)
           l   == AddExpiryEntry(s.expl[day], [owner |-> a, shares |-> m.shares])
           x   == s.pool_lshare
<1>1. s \in Store /\ m.shares \in Nat /\ Placed(m) /\ day \in Days
  BY HoldingFields DEF Sound, Staked
<1>2. t \in Store
  BY <1>1, RegisterMintFrame
<1>3. /\ s.exp \in [Days -> Nat] /\ s.shr \in [Accounts -> Nat]
      /\ s.expl \in [Days -> Seq(Seq(Entry))] /\ s.shares_total \in Int
  BY <1>1, StoreFields
<1>4. t = [s EXCEPT !.shr[a] = @ + m.shares, !.shares_total = @ + m.shares,
                    !.exp[day] = @ + m.shares, !.expl[day] = l]
  BY <1>1, <1>3 DEF RegisterMint
<1> HIDE DEF l, t, day
<1>5. /\ t.acc_per = s.acc_per /\ t.acc_held = s.acc_held /\ t.acc_day = s.acc_day
      /\ t.accAt = s.accAt /\ t.shares_total = s.shares_total + m.shares
      /\ t.exp = [s.exp EXCEPT ![day] = @ + m.shares]
      /\ t.pool_lshare = s.pool_lshare /\ t.sup_emitted = s.sup_emitted
      /\ t.pool_viral = s.pool_viral /\ t.pool_deep = s.pool_deep /\ t.pool_liq = s.pool_liq
  BY <1>1, <1>4 DEF Store
<1>6. \A d \in Days : t.exp[d] = s.exp[d] + (IF MaturityDay(m) = d THEN m.shares ELSE 0)
  <2> TAKE d \in Days
  <2>1. s.exp[d] \in Nat
    BY <1>3
  <2> QED BY <1>1, <1>3, <1>5, <2>1 DEF day
<1>7. Sound(s, q, x) /\ SameRise(s, t) /\ Counted(s, t, m)
  BY <1>5, <1>6 DEF SameRise, Counted
<1>8. Sound(t, r, x) /\ Rises(s, t, q)
  <2> HIDE DEF x
  <2> QED BY <1>2, <1>7, RegisterSound
<1>9. PoolsOf(t) = PoolsOf(s)
  BY <1>5 DEF PoolsOf
<1>10. Sound(t, r, t.pool_lshare) /\ Rises(s, t, q)
       /\ PoolsOf(t) = PoolsOf(s) /\ t.sup_emitted = s.sup_emitted
  BY <1>5, <1>8, <1>9
<1> QED BY <1>10 DEF t

-----------------------------------------------------------------------------
(* The actions.                                                            *)

\* What a step leaves of the books.
BooksStay ==
  /\ Sound(store', Positions(mint'), store'.pool_lshare)
  /\ Conserved(bal', Positions(mint'), store', supMigrated')
  /\ Kept(store, Positions(mint), store', Positions(mint'))

\* The pools and the supply counter of a store.
LEMMA PoolsAreNat ==
  ASSUME NEW s \in Store
  PROVE  PoolsOf(s) \in Nat /\ s.sup_emitted \in Nat
BY StoreFields DEF PoolsOf

\* What the invariant says of the rows.
LEMMA BooksRows ==
  ASSUME BooksInv
  PROVE  /\ store \in Store /\ Settled(store, height) /\ height \in Heights /\ height \in Nat
         /\ mint \in [Accounts -> Seq(Mint)] /\ bal \in [Accounts -> Nat] /\ supMigrated \in Nat
         /\ Sound(store, Positions(mint), store.pool_lshare)
         /\ Conserved(bal, Positions(mint), store, supMigrated)
         /\ PoolsOf(store) \in Nat /\ store.sup_emitted \in Nat
         /\ Total(bal, Accounts) \in Nat
         /\ Total(Locked(Positions(mint)), DOMAIN Positions(mint)) \in Nat
<1>1. /\ store \in Store /\ Settled(store, height) /\ height \in Heights
      /\ mint \in [Accounts -> Seq(Mint)] /\ bal \in [Accounts -> Nat] /\ supMigrated \in Nat
      /\ Sound(store, Positions(mint), store.pool_lshare)
      /\ Conserved(bal, Positions(mint), store, supMigrated)
  BY DEF BooksInv, SafetyInv, TypeOK
<1>2. height \in Nat
  BY <1>1, ConstantTypes
<1>3. PoolsOf(store) \in Nat /\ store.sup_emitted \in Nat
  BY <1>1, StoreFields DEF PoolsOf
<1>4. Total(bal, Accounts) \in Nat
  <2>1. IsFiniteSet(Accounts) /\ \A a \in Accounts : bal[a] \in Nat
    BY <1>1, LasseMintAssumption
  <2> QED BY <2>1, TotalIsNat
<1>5. Total(Locked(Positions(mint)), DOMAIN Positions(mint)) \in Nat
  <2> DEFINE q == Positions(mint)
             f == Locked(q)
  <2>1. IsFiniteSet(DOMAIN q) /\ \A k \in DOMAIN q : Staked(q[k]) /\ Started(store, q[k])
    BY <1>1 DEF Sound
  <2> HIDE DEF q, f
  <2>2. \A k \in DOMAIN q : f[k] \in Nat
    BY <1>1, <2>1, CountsAreNat DEF f
  <2>3. Total(f, DOMAIN q) \in Nat
    BY <2>1, <2>2, TotalIsNat
  <2> QED BY <2>3 DEF f, q
<1> QED BY <1>1, <1>2, <1>3, <1>4, <1>5

\* Ends that rose, of the same positions.
LEMMA RisesKept ==
  ASSUME NEW s, NEW q, NEW t, Rises(s, t, q)
  PROVE  Kept(s, q, t, q)
BY DEF Rises, Kept

\* No end falls when nothing happens.
LEMMA RisesStill ==
  ASSUME NEW s, NEW q, NEW x, Sound(s, q, x)
  PROVE  Rises(s, s, q)
<1>1. s \in Store /\ \A k \in DOMAIN q : Staked(q[k]) /\ Started(s, q[k])
  BY DEF Sound
<1>2. \A k \in DOMAIN q : EndOf(s, q[k]) \in Nat
  BY <1>1, EndBetween
<1> QED BY <1>2 DEF Rises

\* The walk that every ordinary call performs first.
LEMMA AccrueBooksNow ==
  ASSUME BooksInv
  PROVE  LET s == Accrue(store, height)
             q == Positions(mint)
         IN  /\ Settled(s, height) /\ s \in Store
             /\ Sound(s, q, s.pool_lshare) /\ Rises(store, s, q)
             /\ PoolsOf(s) + store.sup_emitted = PoolsOf(store) + s.sup_emitted
             /\ PoolsOf(s) \in Nat /\ s.sup_emitted \in Nat
<1> DEFINE s == Accrue(store, height)
           q == Positions(mint)
<1>1. /\ Sound(store, q, store.pool_lshare) /\ height \in Heights /\ Settled(store, height)
  BY BooksRows
<1>2. MaxAccrualDays \in Int /\ UserRetireBudget \in Nat
  BY LasseMintAssumption
<1>3. Settled(s, height) /\ s \in Store
  BY AccrueSettled DEF BooksInv, Settled
<1>4. PoolsOf(s) \in Nat /\ s.sup_emitted \in Nat
  <2> HIDE DEF s
  <2> QED BY <1>3, StoreFields DEF PoolsOf
<1> HIDE DEF q
<1>5. LET t == AccrueWalk(store, height, MaxAccrualDays, UserRetireBudget)
      IN  /\ Sound(t, q, t.pool_lshare) /\ Rises(store, t, q)
          /\ PoolsOf(t) + store.sup_emitted = PoolsOf(store) + t.sup_emitted
  BY <1>1, <1>2, AccrueBooks
<1> QED BY <1>3, <1>4, <1>5 DEF Accrue, q

\* A call that only walks.
LEMMA WalkBooks ==
  ASSUME BooksInv, NEW n \in Int, NEW budget \in Nat,
         store' = AccrueWalk(store, height, n, budget),
         UNCHANGED <<height, mint, bal, migDone, supMigrated>>
  PROVE  BooksStay
<1> DEFINE q == Positions(mint)
           t == AccrueWalk(store, height, n, budget)
<1>1. /\ Sound(store, q, store.pool_lshare) /\ height \in Heights /\ Settled(store, height)
      /\ Conserved(bal, q, store, supMigrated) /\ supMigrated \in Nat
      /\ PoolsOf(store) \in Nat /\ store.sup_emitted \in Nat
      /\ Total(bal, Accounts) \in Nat /\ Total(Locked(q), DOMAIN q) \in Nat
  BY BooksRows
<1>2. store' = t /\ mint' = mint /\ bal' = bal /\ supMigrated' = supMigrated
  OBVIOUS
<1>3. Positions(mint') = q
  BY <1>2
<1> HIDE DEF q
<1>4. /\ Sound(t, q, t.pool_lshare) /\ Rises(store, t, q)
      /\ PoolsOf(t) + store.sup_emitted = PoolsOf(store) + t.sup_emitted
  BY <1>1, AccrueBooks
<1>5. t \in Store
  BY <1>4 DEF Sound
<1> HIDE DEF t
<1>6. PoolsOf(t) \in Nat /\ t.sup_emitted \in Nat
  BY <1>5, StoreFields DEF PoolsOf
<1>7. Conserved(bal, q, t, supMigrated)
  BY <1>1, <1>4, <1>6 DEF Conserved
<1>8. Kept(store, q, t, q)
  BY <1>4, RisesKept
<1> QED BY <1>2, <1>3, <1>4, <1>7, <1>8 DEF BooksStay, q

\* Time passes, or nothing at all happens.
LEMMA StillBooks ==
  ASSUME BooksInv, UNCHANGED <<store, mint, bal, supMigrated>>
  PROVE  BooksStay
<1> DEFINE q == Positions(mint)
<1>1. Sound(store, q, store.pool_lshare) /\ Conserved(bal, q, store, supMigrated)
  BY BooksRows
<1>2. Kept(store, q, store, q)
  <2>1. \A k \in DOMAIN q : EndOf(store, q[k]) \in Nat
    <3> TAKE k \in DOMAIN q
    <3>1. store \in Store /\ Staked(q[k]) /\ Started(store, q[k])
      BY <1>1 DEF Sound
    <3> HIDE DEF q
    <3> QED BY <3>1, EndBetween
  <2> HIDE DEF q
  <2> QED BY <2>1 DEF Kept
<1>3. store' = store /\ mint' = mint /\ bal' = bal /\ supMigrated' = supMigrated
  OBVIOUS
<1> QED BY <1>1, <1>2, <1>3 DEF BooksStay, q

\* A position made now matures on a day the walk has not closed.
LEMMA EarnsFromNow ==
  ASSUME NEW s, NEW h \in Heights, Settled(s, h), NEW m, Placed(m), m.start >= h \/ s.acc_day = 0
  PROVE  Earns(s, m)
<1> DEFINE len == m.days * HeightsPerDay
<1>1. /\ s \in Store /\ s.acc_day <= DayOf(h) /\ h \in Nat /\ m.start \in Nat /\ m.days \in Nat
      /\ HeightsPerDay \in Nat
  <2>1. s \in Store /\ s.acc_day <= DayOf(h)
    BY Zenon DEF Settled
  <2>2. m.start \in Heights /\ m.days \in MinMintDays .. MaxMintDays
    BY Zenon DEF Placed
  <2>3. m.days \in Nat
    <3> DEFINE n == m.days
    <3>1. n \in MinMintDays .. MaxMintDays
      BY <2>2
    <3> HIDE DEF n
    <3>2. n \in Nat
      BY <3>1, EngineAssumption
    <3> QED BY <3>2 DEF n
  <2>4. m.start \in Nat /\ h \in Nat /\ HeightsPerDay \in Nat
    BY <2>2, ConstantTypes, Zenon
  <2> QED BY <2>1, <2>3, <2>4
<1>2. len \in Nat
  BY <1>1, ProductNat
<1>3. MaturityDay(m) = DayOf(m.start + len)
  BY DEF MaturityDay, MaturityHeight
<1> HIDE DEF len
<1>4. s.acc_day \in Nat /\ DayOf(h) \in Nat /\ MaturityDay(m) \in Nat
  <2>1. m.start + len \in Nat
    BY <1>1, <1>2
  <2>2. DayOf(m.start + len) \in Nat /\ DayOf(h) \in Nat
    BY <1>1, <2>1, DayOfNat
  <2>3. s.acc_day \in Nat
    BY <1>1, StoreFields
  <2> QED BY <1>3, <2>2, <2>3
<1>5. CASE m.start >= h
  <2>1. h <= m.start + len /\ m.start + len \in Nat
    BY <1>1, <1>2, <1>5
  <2>2. DayOf(h) <= DayOf(m.start + len)
    BY <1>1, <2>1, DayOfMono
  <2> QED BY <1>1, <1>3, <1>4, <2>2 DEF Earns
<1>6. CASE s.acc_day = 0
  BY <1>4, <1>6 DEF Earns
<1> QED BY <1>5, <1>6

\* What a new position locks is what its owner paid or the migration brought.
LEMMA LockingConserves ==
  ASSUME NEW b, NEW q, NEW before, NEW g \in Nat, NEW c, NEW r, NEW s, NEW after, NEW h \in Nat,
         NEW p \in Nat, Conserved(b, q, before, g),
         Total(b, Accounts) \in Nat, Total(c, Accounts) \in Nat,
         Total(Locked(q), DOMAIN q) \in Nat,
         PoolsOf(before) \in Nat, before.sup_emitted \in Nat,
         PoolsOf(s) \in Nat, s.sup_emitted \in Nat,
         Total(Locked(r), DOMAIN r) = Total(Locked(q), DOMAIN q) + p,
         PoolsOf(s) + before.sup_emitted = PoolsOf(before) + s.sup_emitted,
         PoolsOf(after) = PoolsOf(s), after.sup_emitted = s.sup_emitted,
         Total(c, Accounts) - Total(b, Accounts) + p = h - g
  PROVE  Conserved(c, r, after, h)
<1> DEFINE B == Total(b, Accounts)
           C == Total(c, Accounts)
           L == Total(Locked(q), DOMAIN q)
           P == PoolsOf(before)
           Q == PoolsOf(s)
           E == before.sup_emitted
           F == s.sup_emitted
<1>1. B + L + P = g + E /\ Q + E = P + F /\ C - B + p = h - g
  BY DEF Conserved
<1>2. B \in Nat /\ C \in Nat /\ L \in Nat /\ P \in Nat /\ Q \in Nat /\ E \in Nat /\ F \in Nat
  OBVIOUS
<1> HIDE DEF B, C, L, P, Q, E, F
<1>3. C + (L + p) + Q = h + F
  BY <1>1, <1>2
<1> QED BY <1>3 DEF Conserved, B, C, L, P, Q, E, F

\* A new position on the store s: value v comes in, the principal is locked.
LEMMA NewPositionBooks ==
  ASSUME BooksInv, NEW s, Sound(s, Positions(mint), s.pool_lshare),
         Rises(store, s, Positions(mint)),
         PoolsOf(s) + store.sup_emitted = PoolsOf(store) + s.sup_emitted,
         NEW a \in Accounts, NEW m, Staked(m), ~ m.ended, m.accStart = s.acc_per, Earns(s, m),
         mint' = [mint EXCEPT ![a] = Append(@, m)], store' = RegisterMint(s, a, m),
         Total(bal', Accounts) \in Nat, supMigrated' \in Nat,
         Total(bal', Accounts) - Total(bal, Accounts) + m.principal = supMigrated' - supMigrated
  PROVE  BooksStay
<1> DEFINE q == Positions(mint)
           r == Positions(mint')
           k == <<a, Len(mint[a]) + 1>>
           t == RegisterMint(s, a, m)
<1>1. /\ Conserved(bal, q, store, supMigrated) /\ supMigrated \in Nat
      /\ PoolsOf(store) \in Nat /\ store.sup_emitted \in Nat
      /\ Total(bal, Accounts) \in Nat /\ Total(Locked(q), DOMAIN q) \in Nat
      /\ mint \in [Accounts -> Seq(Mint)]
  BY BooksRows
<1>2. Joined(q, k, m, r)
  BY <1>1, AppendPositions
<1> HIDE DEF k, r, q
<1>3. Sound(s, q, s.pool_lshare) /\ Rises(store, s, q)
  BY DEF q
<1>4. /\ Sound(t, r, t.pool_lshare) /\ Rises(s, t, q)
      /\ PoolsOf(t) = PoolsOf(s) /\ t.sup_emitted = s.sup_emitted
  BY <1>2, <1>3, RegisterBooks
<1>5. Total(Locked(r), DOMAIN r) = Total(Locked(q), DOMAIN q) + m.principal
  BY <1>2, <1>3, LockedMore
<1>6. t \in Store /\ s \in Store
  BY <1>3, <1>4 DEF Sound
<1> HIDE DEF t
<1>7. PoolsOf(t) \in Nat /\ t.sup_emitted \in Nat /\ m.principal \in Nat
      /\ PoolsOf(s) \in Nat /\ s.sup_emitted \in Nat
  <2>1. PoolsOf(t) \in Nat /\ t.sup_emitted \in Nat
    BY <1>6, PoolsAreNat
  <2>2. PoolsOf(s) \in Nat /\ s.sup_emitted \in Nat
    BY <1>6, PoolsAreNat
  <2>3. m.principal \in Nat
    BY HoldingFields
  <2> QED BY <2>1, <2>2, <2>3
<1>8. store' = t
  BY DEF t
<1>9. Conserved(bal', r, t, supMigrated')
  BY <1>1, <1>4, <1>5, <1>7, LockingConserves
<1>10. Kept(store, q, t, r)
  <2>1. \A j \in DOMAIN q : r[j] = q[j]
    BY <1>2 DEF Joined
  <2>2. \A j \in DOMAIN q :
          /\ EndOf(s, q[j]) \in Nat /\ EndOf(t, q[j]) \in Nat /\ EndOf(store, q[j]) \in Nat
    <3> TAKE j \in DOMAIN q
    <3>1. /\ Staked(q[j]) /\ Started(s, q[j]) /\ Started(store, q[j])
      BY <1>3, BooksRows DEF Sound, q
    <3>2. j \in DOMAIN r /\ r[j] = q[j]
      BY <1>2 DEF Joined
    <3>3. Started(t, q[j])
      BY <1>4, <3>2 DEF Sound
    <3>4. store \in Store
      BY BooksRows
    <3> QED BY <1>6, <3>1, <3>3, <3>4, EndBetween
  <2> QED BY <1>3, <1>4, <2>1, <2>2 DEF Kept, Rises
<1> QED BY <1>4, <1>8, <1>9, <1>10 DEF BooksStay, q, r

\* A new position holds its terms and starts at the accumulator of its store.
LEMMA NewHolding ==
  ASSUME NEW s \in Store, NEW a \in Accounts, NEW principal \in Nat, NEW shares \in Nat \ {0},
         NEW start \in Heights, NEW days \in MinMintDays .. MaxMintDays
  PROVE  LET m == NewMint(s, a, principal, shares, start, days)
         IN  /\ Staked(m) /\ Placed(m) /\ ~ m.ended /\ m.principal = principal
             /\ m.accStart = s.acc_per /\ m.start = start
<1> DEFINE m == NewMint(s, a, principal, shares, start, days)
<1>1. /\ m \in Mint /\ Placed(m) /\ m.shares = shares /\ m.accStart = s.acc_per
      /\ m.start = start /\ ~ m.ended
  BY NewMintType
<1>2. m.principal = principal
  BY DEF NewMint
<1> HIDE DEF m
<1>3. Staked(m) /\ Placed(m) /\ ~ m.ended /\ m.principal = principal
      /\ m.accStart = s.acc_per /\ m.start = start
  BY <1>1, <1>2 DEF Staked
<1> QED BY <1>3 DEF m

\* Before the first emission the walk is on the first day.
LEMMA WalkAtGenesis ==
  ASSUME NEW s, NEW h, Settled(s, h), s.settled <= GenesisHeight
  PROVE  s.acc_day = 0
<1> DEFINE d == s.acc_day
<1>1. d \in Nat /\ GenesisHeight \in Nat /\ HeightsPerDay \in Nat \ {0}
  BY StoreFields, ConstantTypes DEF Settled
<1>2. GenesisHeight + d * HeightsPerDay <= GenesisHeight
  BY DEF Settled, HeightOfDay
<1>3. CASE d # 0
  <2>1. d >= 1
    BY <1>1, <1>3
  <2> DEFINE p == HeightsPerDay * d
  <2>2. HeightsPerDay * 1 <= p
    BY <1>1, <2>1, ProductMono
  <2>3. d * HeightsPerDay = p
    BY <1>1
  <2>4. p \in Nat
    BY <1>1, ProductNat
  <2> HIDE DEF p
  <2> QED BY <1>1, <1>2, <2>2, <2>3, <2>4
<1> QED BY <1>3

\* The owner's migration of one account.
LEMMA CreditMigrationBooks ==
  ASSUME BooksInv, NEW a \in Accounts, CreditMigration(a)
  PROVE  BooksStay
<1> DEFINE liquid == Snapshot[a].liquid
           staked == Snapshot[a].staked
           m      == NewMint(store, a, staked, staked, GenesisHeight, MigrationMintDays)
           v      == bal[a] + liquid
           q      == Positions(mint)
           B      == Total(bal, Accounts)
           C      == Total(bal', Accounts)
<1>1. liquid \in Nat /\ staked \in Nat /\ GenesisHeight \in Heights
      /\ MigrationMintDays \in MinMintDays .. MaxMintDays
  BY LasseMintAssumption
<1>2. /\ store \in Store /\ Settled(store, height) /\ height \in Heights
      /\ bal \in [Accounts -> Nat] /\ supMigrated \in Nat
      /\ Sound(store, q, store.pool_lshare) /\ Conserved(bal, q, store, supMigrated)
      /\ PoolsOf(store) \in Nat /\ store.sup_emitted \in Nat
      /\ B \in Nat /\ Total(Locked(q), DOMAIN q) \in Nat
  BY BooksRows
<1>3. /\ store.settled <= GenesisHeight
      /\ supMigrated' = supMigrated + liquid + staked
      /\ bal' = [bal EXCEPT ![a] = v]
      /\ IF staked > 0
         THEN /\ mint' = [mint EXCEPT ![a] = Append(@, m)]
              /\ store' = RegisterMint(store, a, m)
         ELSE UNCHANGED <<mint, store>>
  BY DEF CreditMigration
<1> HIDE DEF liquid, staked
<1>4. bal[a] \in Nat /\ v \in Nat
  BY <1>1, <1>2
<1>5. C = B - bal[a] + v
  BY <1>2, <1>3, <1>4, BalanceMoves
<1> HIDE DEF B, C
<1>6. C = B + liquid
  BY <1>1, <1>2, <1>4, <1>5
<1>7. C \in Nat /\ supMigrated' \in Nat
  BY <1>1, <1>2, <1>3, <1>6
<1>8. CASE staked > 0
  <2>1. /\ Staked(m) /\ Placed(m) /\ ~ m.ended /\ m.principal = staked
        /\ m.accStart = store.acc_per /\ m.start = GenesisHeight
    <3>1. staked \in Nat \ {0}
      BY <1>1, <1>8
    <3> QED BY <1>1, <1>2, <3>1, NewHolding
  <2>2. mint' = [mint EXCEPT ![a] = Append(@, m)] /\ store' = RegisterMint(store, a, m)
    BY <1>3, <1>8
  <2> HIDE DEF m, q
  <2>3. store.acc_day = 0
    BY <1>2, <1>3, WalkAtGenesis
  <2>4. Earns(store, m)
    BY <1>2, <2>1, <2>3, EarnsFromNow
  <2>5. Rises(store, store, q)
    BY <1>2, RisesStill
  <2>6. PoolsOf(store) + store.sup_emitted = PoolsOf(store) + store.sup_emitted
    OBVIOUS
  <2>7. C - B + m.principal = supMigrated' - supMigrated
    BY <1>1, <1>2, <1>3, <1>6, <2>1
  <2> QED BY <1>2, <1>7, <2>1, <2>2, <2>4, <2>5, <2>6, <2>7, NewPositionBooks DEF B, C, q
<1>9. CASE ~ (staked > 0)
  <2>1. mint' = mint /\ store' = store
    BY <1>3, <1>9
  <2>2. staked = 0
    BY <1>1, <1>9
  <2>3. Conserved(bal', q, store, supMigrated')
    <3> DEFINE L == Total(Locked(q), DOMAIN q)
               P == PoolsOf(store)
               E == store.sup_emitted
    <3>1. B + L + P = supMigrated + E
      BY <1>2 DEF Conserved, B
    <3>2. L \in Nat /\ P \in Nat /\ E \in Nat
      BY <1>2
    <3> HIDE DEF L, P, E
    <3>3. C + L + P = supMigrated' + E
      BY <1>1, <1>2, <1>3, <1>6, <2>2, <3>1, <3>2
    <3> QED BY <3>3 DEF Conserved, L, P, E, C
  <2>4. Kept(store, q, store, q)
    <3> HIDE DEF q
    <3>1. Rises(store, store, q)
      BY <1>2, RisesStill
    <3> QED BY <3>1, RisesKept
  <2> QED BY <1>2, <2>1, <2>3, <2>4 DEF BooksStay
<1> QED BY <1>8, <1>9

\* A mint: the walk first, then the position.
LEMMA CreateMintBooks ==
  ASSUME BooksInv, NEW a \in Accounts, NEW p \in Principals, NEW d \in Durations,
         CreateMint(a, p, d)
  PROVE  BooksStay
<1> DEFINE s      == Accrue(store, height)
           params == [volumeStart |-> VolumeStart, volumeEnd |-> VolumeEnd,
                      shareRate |-> ShareRate(height)]
           shares == ComputeShares(p, d, params)
           m      == NewMint(s, a, p, shares, height, d)
           v      == bal[a] - p
           q      == Positions(mint)
           B      == Total(bal, Accounts)
           C      == Total(bal', Accounts)
<1>1. /\ p \in Nat /\ d \in MinMintDays .. MaxMintDays /\ bal[a] >= p /\ shares > 0
      /\ bal' = [bal EXCEPT ![a] = v]
      /\ mint' = [mint EXCEPT ![a] = Append(@, m)]
      /\ store' = RegisterMint(s, a, m)
      /\ supMigrated' = supMigrated
  BY LasseMintAssumption DEF CreateMint, MayMint
<1>2. /\ bal \in [Accounts -> Nat] /\ supMigrated \in Nat /\ B \in Nat
      /\ height \in Heights /\ height \in Nat
  BY BooksRows
<1>3. /\ Settled(s, height) /\ s \in Store
      /\ Sound(s, q, s.pool_lshare) /\ Rises(store, s, q)
      /\ PoolsOf(s) + store.sup_emitted = PoolsOf(store) + s.sup_emitted
  BY AccrueBooksNow
<1>4. shares \in Nat \ {0}
  <2>1. params.volumeStart \in Nat /\ params.volumeEnd \in Nat
        /\ params.shareRate \in Nat \ {0}
    BY <1>2, LasseMintAssumption, ShareRatePositive
  <2>2. d \in Nat
    BY <1>1, EngineAssumption
  <2> HIDE DEF params
  <2>3. shares \in Nat
    BY <1>1, <2>1, <2>2, ComputeSharesNat
  <2> QED BY <1>1, <2>3
<1> HIDE DEF s, shares, q
<1>5. /\ Staked(m) /\ Placed(m) /\ ~ m.ended /\ m.principal = p
      /\ m.accStart = s.acc_per /\ m.start = height
  BY <1>1, <1>2, <1>3, <1>4, NewHolding
<1> HIDE DEF m
<1>6. Earns(s, m)
  <2>1. m.start >= height
    BY <1>2, <1>5
  <2> QED BY <1>2, <1>3, <1>5, <2>1, EarnsFromNow
<1>7. bal[a] \in Nat /\ v \in Nat
  BY <1>1, <1>2
<1>8. C = B - bal[a] + v
  BY <1>1, <1>2, <1>7, BalanceMoves
<1>9. C \in Nat
  <2>1. IsFiniteSet(Accounts) /\ bal' \in [Accounts -> Nat]
    BY <1>1, <1>2, <1>7, LasseMintAssumption
  <2> QED BY <2>1, TotalIsNat
<1> HIDE DEF B, C
<1>10. C - B + m.principal = supMigrated' - supMigrated /\ supMigrated' \in Nat
  BY <1>1, <1>2, <1>5, <1>7, <1>8, <1>9
<1> QED BY <1>1, <1>3, <1>5, <1>6, <1>9, <1>10, NewPositionBooks DEF B, C, q

\* Arming changes one flag of one position.
LEMMA ArmBooks ==
  ASSUME BooksInv, NEW a \in Accounts, NEW id \in DOMAIN mint[a], ArmGoodAccounting(a, id)
  PROVE  BooksStay
<1> DEFINE m     == mint[a][id]
           armed == [m EXCEPT !.goodAccounting = TRUE]
           q     == Positions(mint)
           r     == Positions(mint')
           k     == <<a, id>>
<1>1. /\ mint' = [mint EXCEPT ![a][id] = armed] /\ ~ m.ended
      /\ store' = store /\ bal' = bal /\ supMigrated' = supMigrated
  BY DEF ArmGoodAccounting, CanArmGoodAccounting
<1>2. /\ mint \in [Accounts -> Seq(Mint)] /\ store \in Store
      /\ Sound(store, q, store.pool_lshare) /\ Conserved(bal, q, store, supMigrated)
  BY BooksRows
<1>3. m \in Mint
  <2>1. mint[a] \in Seq(Mint)
    BY <1>2
  <2> QED BY <2>1
<1> HIDE DEF m
<1>4. /\ armed \in Mint /\ ~ armed.ended /\ armed.principal = m.principal
      /\ armed.shares = m.shares /\ armed.accStart = m.accStart
      /\ armed.start = m.start /\ armed.days = m.days
  BY <1>1, <1>3 DEF Mint
<1> HIDE DEF armed
<1>5. /\ k \in DOMAIN q /\ q[k] = m /\ DOMAIN r = DOMAIN q /\ r[k] = armed
      /\ \A j \in DOMAIN q \ {k} : r[j] = q[j]
  <2>1. Replaced(q, k, m, armed, r)
    BY <1>1, <1>2, ReplacePositions DEF m
  <2> HIDE DEF q, r, k
  <2> QED BY <1>4, <2>1 DEF Replaced
<1> HIDE DEF q, r, k
<1>6. \A j \in DOMAIN q : Staked(q[j]) /\ Started(store, q[j])
  BY <1>2 DEF Sound
<1>7. Staked(armed)
  <2>1. Staked(m)
    BY <1>5, <1>6
  <2> QED BY <1>4, <2>1 DEF Staked, Placed
<1>8. \A j \in DOMAIN q : /\ Staked(r[j]) /\ r[j].shares = q[j].shares
                          /\ r[j].accStart = q[j].accStart /\ r[j].principal = q[j].principal
                          /\ r[j].start = q[j].start /\ r[j].days = q[j].days
  <2> TAKE j \in DOMAIN q
  <2>1. CASE j = k
    BY <1>4, <1>5, <1>7, <2>1
  <2>2. CASE j # k
    BY <1>5, <1>6, <2>2
  <2> QED BY <2>1, <2>2
<1>9. /\ Sound(store, r, store.pool_lshare)
      /\ \A j \in DOMAIN q : /\ EndOf(store, r[j]) = EndOf(store, q[j])
                             /\ Earns(store, r[j]) <=> Earns(store, q[j])
  <2> DEFINE x == store.pool_lshare
  <2>1. Sound(store, q, x) /\ x = store.pool_lshare
    BY <1>2
  <2> HIDE DEF x
  <2> QED BY <1>2, <1>5, <1>8, <2>1, TermsSound
<1>10. Conserved(bal, r, store, supMigrated)
  <2>1. \A j \in DOMAIN q : Locked(r)[j] = Locked(q)[j]
    BY <1>5, <1>8 DEF Locked
  <2>2. Total(Locked(r), DOMAIN q) = Total(Locked(q), DOMAIN q)
    BY <2>1, TotalSame
  <2> QED BY <1>2, <1>5, <2>2 DEF Conserved
<1>11. Kept(store, q, store, r)
  <2>1. \A j \in DOMAIN q : EndOf(store, q[j]) \in Nat
    BY <1>2, <1>6, EndBetween
  <2> QED BY <1>5, <1>8, <1>9, <2>1 DEF Kept
<1> QED BY <1>1, <1>9, <1>10, <1>11 DEF BooksStay, q, r

\* A gift moves value from a balance into the pools (FundPool).
LEMMA FundPoolBooks ==
  ASSUME BooksInv, NEW a \in Accounts, NEW f \in Funding, FundPool(a, f[1], f[2])
  PROVE  BooksStay
<1> DEFINE target == f[1]
           amount == f[2]
           all    == Split(amount)
           pob    == CASE target = "pob" -> amount [] target = "all" -> all.pob [] OTHER -> 0
           viral  == SplitPoB(pob).viral
           recycled == CASE target = "lshare" -> amount [] target = "all" -> all.lshare
                         [] OTHER -> 0
           toViral  == IF target = "viral" THEN amount ELSE 0
           toDeep   == IF target = "deep" THEN amount ELSE 0
           toLiq    == CASE target = "liquidity" -> amount [] target = "all" -> all.liquidity
                         [] OTHER -> 0
           x      == store.pool_viral + viral + toViral
           y      == store.pool_deep + (pob - viral) + toDeep
           z      == store.pool_liq + toLiq
           given  == [store EXCEPT !.pool_viral = x, !.pool_deep = y, !.pool_liq = z]
           after  == Recycle(given, recycled)
           left   == bal[a] - amount
           q      == Positions(mint)
           B      == Total(bal, Accounts)
           C      == Total(bal', Accounts)
           L      == Total(Locked(q), DOMAIN q)
<1>1. amount \in Nat /\ target \in FundTargets
  BY LasseMintAssumption
<1>2. /\ bal[a] >= amount /\ bal' = [bal EXCEPT ![a] = left] /\ store' = after
      /\ mint' = mint /\ supMigrated' = supMigrated
  BY DEF FundPool
<1> HIDE DEF target, amount
<1>3. all.lshare \in Nat /\ all.liquidity \in Nat /\ all.pob \in Nat
      /\ all.lshare + all.liquidity + all.pob = amount
  BY <1>1, SplitExact
<1> HIDE DEF all
<1>4. /\ pob \in Nat /\ recycled \in Nat /\ toViral \in Nat /\ toDeep \in Nat /\ toLiq \in Nat
      /\ pob + recycled + toViral + toDeep + toLiq = amount
  BY <1>1, <1>3 DEF FundTargets
<1> HIDE DEF pob, recycled, toViral, toDeep, toLiq
<1>5. viral \in Nat /\ pob - viral \in Nat
  BY <1>4, SplitPoBExact
<1> HIDE DEF viral
<1>6. /\ store \in Store /\ Sound(store, q, store.pool_lshare)
      /\ Conserved(bal, q, store, supMigrated) /\ supMigrated \in Nat
      /\ PoolsOf(store) \in Nat /\ store.sup_emitted \in Nat
      /\ bal \in [Accounts -> Nat] /\ B \in Nat /\ L \in Nat
  BY BooksRows
<1>7. /\ store.pool_viral \in Nat /\ store.pool_deep \in Nat /\ store.pool_liq \in Nat
      /\ store.pool_lshare \in Nat
  BY <1>6, StoreFields
<1>8. x \in Nat /\ y \in Nat /\ z \in Nat
      /\ x + y + z + recycled
           = store.pool_viral + store.pool_deep + store.pool_liq + amount
  <2> DEFINE v == store.pool_viral
             d == store.pool_deep
             l == store.pool_liq
             e == pob - viral
  <2>1. v \in Nat /\ d \in Nat /\ l \in Nat /\ e \in Nat /\ viral + e = pob
    BY <1>4, <1>5, <1>7
  <2>2. x = v + viral + toViral /\ y = d + e + toDeep /\ z = l + toLiq
    OBVIOUS
  <2> HIDE DEF v, d, l, e, x, y, z
  <2>3. x \in Nat /\ y \in Nat /\ z \in Nat /\ x + y + z + recycled = v + d + l + amount
    BY <1>1, <1>4, <1>5, <2>1, <2>2
  <2> QED BY <2>3 DEF v, d, l
<1> HIDE DEF x, y, z, q
<1>9. /\ given \in Store /\ given.acc_per = store.acc_per /\ given.acc_held = store.acc_held
      /\ given.acc_day = store.acc_day /\ given.shares_total = store.shares_total
      /\ given.exp = store.exp /\ given.accAt = store.accAt
      /\ given.pool_lshare = store.pool_lshare /\ given.sup_emitted = store.sup_emitted
      /\ given.pool_viral = x /\ given.pool_deep = y /\ given.pool_liq = z
  BY <1>6, <1>8 DEF Store
<1> HIDE DEF given
<1>10. PoolsOf(given) + recycled = PoolsOf(store) + amount
  BY <1>1, <1>4, <1>7, <1>8, <1>9 DEF PoolsOf
<1>11. Sound(given, q, given.pool_lshare) /\ Rises(store, given, q)
  <2> DEFINE p == store.pool_lshare
  <2>1. Sound(store, q, p) /\ given.pool_lshare = p
    BY <1>6, <1>9
  <2> HIDE DEF p
  <2>2. \A k \in DOMAIN q : Staked(q[k]) /\ Started(store, q[k])
    BY <2>1 DEF Sound
  <2>3. /\ Sound(given, q, p)
        /\ \A k \in DOMAIN q : /\ EndOf(given, q[k]) = EndOf(store, q[k])
                               /\ Earns(given, q[k]) <=> Earns(store, q[k])
    BY <1>9, <2>1, <2>2, TermsSound
  <2>4. \A k \in DOMAIN q : EndOf(store, q[k]) \in Nat
    BY <1>6, <2>2, EndBetween
  <2>5. Rises(store, given, q)
    BY <2>3, <2>4 DEF Rises
  <2> QED BY <2>1, <2>3, <2>5
<1>12. /\ Sound(after, q, after.pool_lshare) /\ Rises(given, after, q)
       /\ PoolsOf(after) = PoolsOf(given) + recycled /\ after.sup_emitted = given.sup_emitted
  BY <1>4, <1>11, RecycleBooks
<1> HIDE DEF after
<1>13. Rises(store, after, q)
  BY <1>6, <1>11, <1>12, RisesTwice
<1>14. bal[a] \in Nat /\ left \in Nat
  BY <1>1, <1>2, <1>6
<1>15. C = B - bal[a] + left
  BY <1>2, <1>6, <1>14, BalanceMoves
<1>16. Conserved(bal', q, after, supMigrated')
  <2> DEFINE P == PoolsOf(store)
             Q == PoolsOf(given)
             E == store.sup_emitted
  <2>1. B + L + P = supMigrated + E
    BY <1>6 DEF Conserved
  <2>2. P \in Nat /\ E \in Nat /\ Q + recycled = P + amount /\ Q \in Nat
    BY <1>6, <1>9, <1>10, PoolsAreNat
  <2>3. PoolsOf(after) = Q + recycled /\ after.sup_emitted = E
    BY <1>9, <1>12
  <2> HIDE DEF P, Q, E, B, C, L
  <2>4. C + L + (Q + recycled) = supMigrated' + E
    BY <1>1, <1>2, <1>4, <1>6, <1>14, <1>15, <2>1, <2>2
  <2> QED BY <2>3, <2>4 DEF Conserved, C, L
<1>17. Kept(store, q, after, q)
  BY <1>13, RisesKept
<1> QED BY <1>2, <1>12, <1>16, <1>17 DEF BooksStay, q

\* The store of a call that pays accrued for position m of account a and takes
\* it off what counts it, before anything is recycled (endMint).
Released(s, a, m, accrued) ==
  LET day     == MaturityDay(m)
      retired == s.acc_day > day
      paid    == [s EXCEPT !.pool_lshare = @ - accrued]
      unvoted == IF retired \/ s.explCur[day] >= m.expChunk THEN paid
                 ELSE ReleaseVotes(paid, a, m)
  IN  IF retired THEN unvoted
      ELSE UnscheduleExpiry([unvoted EXCEPT !.shares_total = @ - m.shares], day, m.shares)

\* The rows of the books but for the pool that pays.
OthersSame(s, t) ==
  /\ SameRise(s, t)
  /\ t.sup_emitted = s.sup_emitted
  /\ t.pool_viral = s.pool_viral /\ t.pool_deep = s.pool_deep /\ t.pool_liq = s.pool_liq

\* A released position is counted and scheduled no more, and the pool has paid.
LEMMA ReleasedBooks ==
  ASSUME NEW s \in Store, NEW a \in Accounts, NEW m, Staked(m),
         Earns(s, m) => s.exp[MaturityDay(m)] >= m.shares,
         NEW accrued \in Nat, accrued <= s.pool_lshare
  PROVE  LET t == Released(s, a, m, accrued)
         IN  /\ t \in Store /\ OthersSame(s, t) /\ Uncounted(s, t, m)
             /\ t.pool_lshare = s.pool_lshare - accrued
<1> DEFINE day     == MaturityDay(m)
           retired == s.acc_day > day
           p       == s.pool_lshare - accrued
           paid    == [s EXCEPT !.pool_lshare = p]
           l       == RemoveExpiryEntry(paid.expl[day], m.expChunk,
                                        [owner |-> a, shares |-> m.shares])
           w       == Monus(paid.shr[a], m.shares)
           free    == [paid EXCEPT !.shr[a] = w, !.expl[day] = l]
           unvoted == IF retired \/ s.explCur[day] >= m.expChunk THEN paid
                      ELSE ReleaseVotes(paid, a, m)
           n       == unvoted.shares_total - m.shares
           x       == Monus(unvoted.exp[day], m.shares)
           closed  == [unvoted EXCEPT !.shares_total = n]
           due     == [closed EXCEPT !.exp[day] = x]
           t       == Released(s, a, m, accrued)
           Same(u) == /\ OthersSame(s, u) /\ u.shares_total = s.shares_total /\ u.exp = s.exp
                      /\ u.pool_lshare = p
<1>1. /\ m \in Mint /\ Placed(m) /\ m.shares \in Nat /\ day \in Days /\ day \in Nat
  BY HoldingFields DEF Staked
<1>2. /\ s.acc_day \in Nat /\ s.shares_total \in Int /\ s.exp \in [Days -> Nat]
      /\ s.pool_lshare \in Nat /\ p \in Nat
  BY StoreFields
<1> HIDE DEF p, day
<1>3. paid \in Store /\ Same(paid)
  BY <1>2 DEF Store, OthersSame, SameRise
<1> HIDE DEF paid
<1>4. free = ReleaseVotes(paid, a, m)
  <2>1. paid.shr \in [Accounts -> Nat] /\ paid.expl \in [Days -> Seq(Seq(Entry))]
    BY <1>3, StoreFields
  <2> QED BY <1>1, <2>1 DEF ReleaseVotes, day
<1>5. ReleaseVotes(paid, a, m) \in Store
  BY <1>1, <1>3, ReleaseVotesFrame
<1> HIDE DEF w, l
<1>6. Same(free)
  BY <1>3 DEF Store, OthersSame, SameRise
<1> HIDE DEF free
<1>7. unvoted \in Store /\ Same(unvoted)
  <2>1. unvoted \in {paid, free}
    BY <1>4
  <2> HIDE DEF unvoted
  <2> QED BY <1>3, <1>4, <1>5, <1>6, <2>1
<1> HIDE DEF unvoted
<1>8. n \in Int /\ x \in Nat /\ n = s.shares_total - m.shares
  <2>1. unvoted.shares_total = s.shares_total /\ unvoted.exp = s.exp
    BY <1>7
  <2>2. s.exp[day] \in Nat
    BY <1>1, <1>2
  <2>3. x = Monus(s.exp[day], m.shares)
    BY <2>1
  <2>4. Monus(s.exp[day], m.shares) \in Nat
    BY <1>1, <2>2, MonusNat
  <2>5. n = s.shares_total - m.shares
    BY <2>1
  <2> HIDE DEF x, n
  <2>6. s.shares_total - m.shares \in Int
    BY <1>1, <1>2
  <2> QED BY <2>3, <2>4, <2>5, <2>6
<1> HIDE DEF n
<1>9. /\ closed \in Store /\ OthersSame(s, closed) /\ closed.shares_total = n
      /\ closed.exp = s.exp /\ closed.pool_lshare = p
  BY <1>7, <1>8 DEF Store, OthersSame, SameRise
<1>10. UnscheduleExpiry(closed, day, m.shares) = due
  <2>1. closed.exp = unvoted.exp /\ closed.exp \in [Days -> Nat]
    BY <1>2, <1>7, <1>9
  <2> QED BY <1>1, <2>1 DEF UnscheduleExpiry
<1>11. t = IF retired THEN unvoted ELSE due
  <2>1. closed = [unvoted EXCEPT !.shares_total = @ - m.shares]
    BY <1>7 DEF n, Store
  <2>2. paid = [s EXCEPT !.pool_lshare = @ - accrued]
    BY DEF paid, p
  <2> QED BY <1>10, <2>1, <2>2 DEF Released, unvoted, day
<1> HIDE DEF closed, x
<1>12. /\ due \in Store /\ OthersSame(s, due) /\ due.shares_total = n
       /\ due.exp = [s.exp EXCEPT ![day] = x] /\ due.pool_lshare = p
  BY <1>1, <1>8, <1>9 DEF Store, OthersSame, SameRise
<1> HIDE DEF due, t
<1>13. Earns(s, m) <=> ~ retired
  BY <1>1, <1>2 DEF Earns, day
<1>14. CASE retired
  <2>1. t = unvoted
    BY <1>11, <1>14
  <2>2. Uncounted(s, t, m)
    <3>1. t.shares_total = s.shares_total /\ t.exp = s.exp
      BY <1>7, <2>1
    <3>2. \A d \in Days : s.exp[d] \in Nat
      BY <1>2
    <3> QED BY <1>2, <1>13, <1>14, <3>1, <3>2 DEF Uncounted
  <2>3. t \in Store /\ OthersSame(s, t) /\ Uncounted(s, t, m) /\ t.pool_lshare = p
    BY <1>7, <2>1, <2>2
  <2> QED BY <2>3 DEF t, p
<1>15. CASE ~ retired
  <2>1. t = due
    BY <1>11, <1>15
  <2>2. s.exp[day] >= m.shares /\ s.exp[day] \in Nat
    BY <1>1, <1>2, <1>13, <1>15 DEF day
  <2>3. x = s.exp[day] - m.shares
    <3>1. x = Monus(s.exp[day], m.shares)
      BY <1>7 DEF x
    <3> QED BY <1>1, <2>2, <3>1 DEF Monus
  <2>4. Uncounted(s, t, m)
    <3>1. t.shares_total = s.shares_total - m.shares
      BY <1>8, <1>12, <2>1
    <3>2. \A d \in Days :
            t.exp[d] = s.exp[d] - (IF Earns(s, m) /\ MaturityDay(m) = d THEN m.shares ELSE 0)
      <4> TAKE d \in Days
      <4>1. s.exp[d] \in Nat /\ t.exp = [s.exp EXCEPT ![day] = x]
        BY <1>2, <1>12, <2>1
      <4>2. CASE d = day
        BY <1>2, <1>13, <1>15, <2>3, <4>1, <4>2 DEF day
      <4>3. CASE d # day
        <5>1. t.exp[d] = s.exp[d]
          BY <1>2, <4>1, <4>3
        <5> QED BY <4>1, <4>3, <5>1 DEF day
      <4> QED BY <4>2, <4>3
    <3> QED BY <1>13, <1>15, <3>1, <3>2 DEF Uncounted
  <2>5. t \in Store /\ OthersSame(s, t) /\ Uncounted(s, t, m) /\ t.pool_lshare = p
    BY <1>12, <2>1, <2>4
  <2> QED BY <2>5 DEF t, p
<1> QED BY <1>14, <1>15

\* A day the walk has closed is past: a position retired by a walk that is not
\* ahead of the chain is mature.
LEMMA RetiredIsMature ==
  ASSUME NEW s, NEW h \in Heights, Settled(s, h), NEW m, Staked(m), ~ Earns(s, m)
  PROVE  IsMature(m, h)
<1> DEFINE top == m.start + m.days * HeightsPerDay
<1>1. top \in Nat /\ h \in Nat
  <2> DEFINE len == m.days * HeightsPerDay
  <2>1. m.start \in Nat /\ m.days \in Nat /\ HeightsPerDay \in Nat /\ h \in Nat
    BY HoldingFields, ConstantTypes
  <2>2. len \in Nat
    BY <2>1, ProductNat
  <2> HIDE DEF len
  <2>3. m.start + len \in Nat
    BY <2>1, <2>2
  <2> QED BY <2>1, <2>3 DEF len
<1>2. MaturityDay(m) = DayOf(top) /\ (IsMature(m, h) <=> h >= top)
  BY DEF MaturityDay, MaturityHeight, IsMature
<1> HIDE DEF top
<1>3. s.acc_day \in Nat /\ s.acc_day <= DayOf(h) /\ DayOf(h) \in Nat /\ DayOf(top) \in Nat
  BY <1>1, DayOfNat, StoreFields DEF Settled
<1>4. s.acc_day > DayOf(top)
  BY <1>2, <1>3 DEF Earns
<1>5. CASE h < top
  <2>1. DayOf(h) <= DayOf(top)
    BY <1>1, <1>5, DayOfMono
  <2> QED BY <1>3, <1>4, <2>1
<1> QED BY <1>1, <1>2, <1>5

\* A claim, an early end or a sweep: the position is paid what it earned, and
\* what it forfeits is recycled (endMint).
LEMMA EndMintBooks ==
  ASSUME BooksInv, NEW a \in Accounts, NEW id \in DOMAIN mint[a], NEW sweep,
         EndMint(a, id, sweep)
  PROVE  BooksStay
<1> DEFINE m         == mint[a][id]
           s         == Accrue(store, height)
           day       == MaturityDay(m)
           accEnd    == IF IsMature(m, height) THEN s.accAt[day] ELSE s.acc_per
           e         == Entitlement(m.shares, m.accStart, accEnd)
           x         == s.pool_lshare
           accrued   == AtMost(e, x)
           payout    == SettleMint(m, height, accrued)
           got       == payout.toOwner
           rest      == payout.toRewardPool
           released  == Released(s, a, m, accrued)
           after     == Recycle(released, rest)
           ended     == [m EXCEPT !.ended = TRUE]
           v         == bal[a] + got
           q         == Positions(mint)
           r         == Positions(mint')
           k         == <<a, id>>
           B         == Total(bal, Accounts)
           C         == Total(bal', Accounts)
           L         == Total(Locked(q), DOMAIN q)
<1>1. /\ ~ m.ended /\ (IsMature(m, height) => s.acc_day > day)
      /\ mint' = [mint EXCEPT ![a][id] = ended]
      /\ bal' = [bal EXCEPT ![a] = v]
      /\ supMigrated' = supMigrated
  BY DEF EndMint
<1>2. store' = after
  BY DEF EndMint, Released
<1>3. /\ mint \in [Accounts -> Seq(Mint)] /\ bal \in [Accounts -> Nat] /\ supMigrated \in Nat
      /\ store \in Store /\ Sound(store, q, store.pool_lshare)
      /\ Conserved(bal, q, store, supMigrated)
      /\ PoolsOf(store) \in Nat /\ store.sup_emitted \in Nat /\ B \in Nat /\ L \in Nat
      /\ height \in Heights /\ height \in Nat
  BY BooksRows
<1>4. /\ Settled(s, height) /\ s \in Store
      /\ Sound(s, q, x) /\ Rises(store, s, q)
      /\ PoolsOf(s) + store.sup_emitted = PoolsOf(store) + s.sup_emitted
      /\ PoolsOf(s) \in Nat /\ s.sup_emitted \in Nat
  BY AccrueBooksNow
<1>5. m \in Mint
  <2>1. mint[a] \in Seq(Mint)
    BY <1>3
  <2> QED BY <2>1
<1>6. ended \in Mint /\ ended.ended
  <2> HIDE DEF m
  <2> QED BY <1>5 DEF Mint
<1>7. Replaced(q, k, m, ended, r)
  BY <1>1, <1>3, ReplacePositions
<1> HIDE DEF m, s, q, r, k, ended
<1>8. Parted(q, k, r) /\ q[k] = m
  BY <1>6, <1>7 DEF Replaced, Parted
<1>9. Staked(m) /\ Started(s, m)
  BY <1>4, <1>8 DEF Sound, Parted
<1>10. /\ m.shares \in Nat /\ m.principal \in Nat /\ m.accStart \in Nat /\ m.start \in Nat
       /\ m.days \in Nat /\ day \in Days /\ day \in Nat /\ m.goodAccounting \in BOOLEAN
       /\ s.acc_day \in Nat /\ x \in Nat
  BY <1>4, <1>9, HoldingFields, StoreFields
<1>11. IsMature(m, height) <=> ~ Earns(s, m)
  <2>1. ~ Earns(s, m) => IsMature(m, height)
    BY <1>3, <1>4, <1>9, RetiredIsMature
  <2>2. IsMature(m, height) => ~ Earns(s, m)
    BY <1>1, <1>10 DEF Earns
  <2> QED BY <2>1, <2>2
<1>12. accEnd = EndOf(s, m)
  BY <1>11 DEF EndOf
<1> HIDE DEF accEnd, day
<1>13. e = Entitlement(q[k].shares, q[k].accStart, EndOf(s, q[k])) /\ e \in Nat
  <2>1. EndOf(s, m) \in m.accStart .. s.acc_per /\ EndOf(s, m) \in Nat
    BY <1>4, <1>9, EndBetween
  <2>2. s.acc_per \in Nat
    BY <1>4, StoreFields
  <2>3. m.accStart <= accEnd /\ accEnd \in Nat
    BY <1>10, <1>12, <2>1, <2>2
  <2>4. e \in Nat
    BY <1>10, <2>3, EntitlementBound
  <2> QED BY <1>8, <1>12, <2>4
<1> HIDE DEF e, x
<1>14. accrued \in Nat /\ accrued <= x
  BY <1>10, <1>13 DEF AtMost
<1> HIDE DEF accrued
<1>15. Earns(s, m) => s.exp[MaturityDay(m)] >= m.shares
  <2>1. k \in DOMAIN q
    BY <1>8 DEF Parted
  <2> QED BY <1>4, <1>8, <2>1, ScheduleHolds
<1>16. /\ released \in Store /\ OthersSame(s, released) /\ Uncounted(s, released, q[k])
       /\ released.pool_lshare = x - accrued
  <2>1. accrued <= s.pool_lshare
    BY <1>14 DEF x
  <2>2. /\ released \in Store /\ OthersSame(s, released) /\ Uncounted(s, released, m)
        /\ released.pool_lshare = s.pool_lshare - accrued
    BY <1>4, <1>9, <1>14, <1>15, <2>1, ReleasedBooks
  <2> QED BY <1>8, <2>2 DEF x
<1> HIDE DEF released
<1>17. e <= x /\ Sound(released, r, x - e)
  <2>1. SameRise(s, released)
    BY <1>16 DEF OthersSame
  <2> QED BY <1>4, <1>8, <1>13, <1>16, <2>1, RemoveSound
<1>18. accrued = e
  BY <1>10, <1>13, <1>17 DEF accrued, AtMost
<1>19. Sound(released, r, released.pool_lshare)
  BY <1>16, <1>17, <1>18
<1>20. got \in Nat /\ rest \in Nat /\ got + rest = m.principal + accrued
  BY <1>3, <1>10, <1>14, SettlementExact, ZenonT(60)
<1> HIDE DEF got, rest, payout
<1>21. /\ Sound(after, r, after.pool_lshare) /\ Rises(released, after, r)
       /\ PoolsOf(after) = PoolsOf(released) + rest /\ after.sup_emitted = released.sup_emitted
  BY <1>19, <1>20, RecycleBooks
<1> HIDE DEF after
<1>22. Total(Locked(r), DOMAIN r) = L - m.principal
  BY <1>4, <1>8, LockedLess
<1>23. PoolsOf(released) + accrued = PoolsOf(s) /\ released.sup_emitted = s.sup_emitted
  <2> DEFINE b == s.pool_viral
             c == s.pool_deep
             d == s.pool_liq
  <2>1. b \in Nat /\ c \in Nat /\ d \in Nat
    BY <1>4, StoreFields
  <2>2. PoolsOf(released) = (x - accrued) + b + c + d /\ PoolsOf(s) = x + b + c + d
    BY <1>16 DEF PoolsOf, OthersSame, x
  <2>3. released.sup_emitted = s.sup_emitted
    BY <1>16 DEF OthersSame
  <2> HIDE DEF b, c, d
  <2> QED BY <1>10, <1>14, <2>1, <2>2, <2>3
<1>24. bal[a] \in Nat /\ v \in Nat
  BY <1>3, <1>20
<1>25. C = B - bal[a] + v
  BY <1>1, <1>3, <1>24, BalanceMoves
<1>26. Conserved(bal', r, after, supMigrated')
  <2> DEFINE N == Total(Locked(r), DOMAIN r)
             P == PoolsOf(store)
             Q == PoolsOf(s)
             R == PoolsOf(released)
             E == store.sup_emitted
             F == s.sup_emitted
             p == m.principal
  <2>1. B + L + P = supMigrated + E /\ Q + E = P + F /\ N = L - p /\ R + accrued = Q
    BY <1>3, <1>4, <1>22, <1>23 DEF Conserved
  <2>2. /\ P \in Nat /\ Q \in Nat /\ E \in Nat /\ F \in Nat /\ p \in Nat /\ R \in Nat
        /\ PoolsOf(after) = R + rest /\ after.sup_emitted = F
    BY <1>3, <1>4, <1>10, <1>16, <1>21, <1>23, PoolsAreNat
  <2> HIDE DEF N, P, Q, R, E, F, p, B, C, L
  <2>3. C = B + got
    BY <1>3, <1>20, <1>24, <1>25
  <2>4. got + rest = p + accrued
    BY <1>20 DEF p
  <2>5. C + N + (R + rest) = supMigrated + F
    BY <1>3, <1>14, <1>20, <2>1, <2>2, <2>3, <2>4
  <2> QED BY <1>1, <2>2, <2>5 DEF Conserved, C, N
<1>27. Kept(store, q, after, r)
  <2>1. \A j \in DOMAIN r : j \in DOMAIN q /\ r[j] = q[j]
    BY <1>8 DEF Parted
  <2>2. \A j \in DOMAIN r :
          /\ EndOf(store, r[j]) \in Nat /\ EndOf(s, r[j]) \in Nat
          /\ EndOf(released, r[j]) \in Nat /\ EndOf(after, r[j]) \in Nat
    <3> TAKE j \in DOMAIN r
    <3>1. Staked(r[j]) /\ Started(store, r[j]) /\ Started(s, r[j])
      BY <1>3, <1>4, <2>1 DEF Sound
    <3>2. Started(released, r[j]) /\ Started(after, r[j]) /\ after \in Store
      BY <1>19, <1>21 DEF Sound
    <3> QED BY <1>3, <1>4, <1>16, <3>1, <3>2, EndBetween
  <2>3. \A j \in DOMAIN r : /\ EndOf(released, r[j]) = EndOf(s, r[j])
                            /\ Earns(released, r[j]) <=> Earns(s, r[j])
    BY <1>16 DEF OthersSame, SameRise, EndOf, Earns
  <2> QED BY <1>4, <1>21, <2>1, <2>2, <2>3 DEF Kept, Rises
<1> QED BY <1>2, <1>21, <1>26, <1>27 DEF BooksStay, q, r

-----------------------------------------------------------------------------
(* The theorems.                                                           *)

\* Nobody is owed anything before the first call.
LEMMA InitBooks == Init => BooksInv
<1> SUFFICES ASSUME Init PROVE BooksInv
  OBVIOUS
<1> DEFINE q == Positions(mint)
<1>1. SafetyInv
  BY InitSafety
<1>2. store \in Store /\ IsFiniteSet(Accounts)
  BY <1>1, LasseMintAssumption DEF SafetyInv, TypeOK
<1>3. /\ store.acc_held = 0 /\ store.shares_total = 0 /\ store.pool_lshare = 0
      /\ store.pool_viral = 0 /\ store.pool_deep = 0 /\ store.pool_liq = 0
      /\ store.sup_emitted = 0 /\ \A d \in Days : store.exp[d] = 0
      /\ supMigrated = 0 /\ \A a \in Accounts : bal[a] = 0 /\ mint[a] = <<>>
  BY DEF Init
<1>4. DOMAIN q = {}
  <2>1. LiveOf(mint) = {}
    <3>1. \A a \in Accounts : DOMAIN mint[a] = {}
      BY <1>3
    <3> QED BY <3>1 DEF LiveOf
  <2> QED BY <2>1 DEF Positions
<1> HIDE DEF q
<1>5. /\ Total(Earning(store, q), DOMAIN q) = 0 /\ Total(Owed(store, q), DOMAIN q) = 0
      /\ Total(Locked(q), DOMAIN q) = 0
      /\ \A d \in Days : Total(EarningOn(store, q, d), DOMAIN q) = 0
  BY <1>4, TotalEmpty
<1>6. Sound(store, q, store.pool_lshare)
  <2>1. IsFiniteSet(DOMAIN q) /\ AccScale * 0 = 0
    BY <1>4, FS_EmptySet, EngineAssumption
  <2> QED BY <1>2, <1>3, <1>4, <1>5, <2>1 DEF Sound
<1>7. Total(bal, Accounts) = 0
  <2>1. Total(bal, Accounts) = Cardinality(Accounts) * 0
    BY <1>2, <1>3, TotalConstant
  <2>2. Cardinality(Accounts) \in Nat
    BY <1>2, FS_CardinalityType
  <2> QED BY <2>1, <2>2
<1>8. Conserved(bal, q, store, supMigrated)
  BY <1>3, <1>5, <1>7 DEF Conserved, PoolsOf
<1> QED BY <1>1, <1>6, <1>8 DEF BooksInv, q

\* Every step leaves the books in order.
LEMMA NextBooks == BooksInv /\ [Next]_vars => BooksInv' /\ BooksStay
<1> SUFFICES ASSUME BooksInv, [Next]_vars PROVE SafetyInv' /\ BooksStay
  BY DEF BooksInv, BooksStay
<1>1. SafetyInv'
  BY NextSafety DEF BooksInv
<1>2. ASSUME Tick PROVE BooksStay
  BY <1>2, StillBooks DEF Tick
<1>3. ASSUME Settle PROVE BooksStay
  <2>1. MaxAccrualDays \in Int /\ UserRetireBudget \in Nat
    BY LasseMintAssumption
  <2> QED BY <1>3, <2>1, WalkBooks DEF Settle, Accrue
<1>4. ASSUME NEW n \in AdvanceSteps, Advance(n) PROVE BooksStay
  <2>1. n \in Int /\ MaxRetirePerWalk \in Nat
    BY LasseMintAssumption
  <2> QED BY <1>4, <2>1, WalkBooks DEF Advance, AccrueSteps
<1>5. ASSUME NEW a \in Accounts, CreditMigration(a) PROVE BooksStay
  BY <1>5, CreditMigrationBooks
<1>6. ASSUME NEW a \in Accounts, NEW p \in Principals, NEW d \in Durations, CreateMint(a, p, d)
      PROVE  BooksStay
  BY <1>6, CreateMintBooks
<1>7. ASSUME NEW a \in Accounts, NEW id \in DOMAIN mint[a], ClaimMint(a, id) \/ SweepMint(a, id)
      PROVE  BooksStay
  BY <1>7, EndMintBooks DEF ClaimMint, SweepMint
<1>8. ASSUME NEW a \in Accounts, NEW id \in DOMAIN mint[a], ArmGoodAccounting(a, id)
      PROVE  BooksStay
  BY <1>8, ArmBooks
<1>9. ASSUME NEW a \in Accounts, NEW f \in Funding, FundPool(a, f[1], f[2])
      PROVE  BooksStay
  BY <1>9, FundPoolBooks
<1>10. ASSUME UNCHANGED vars PROVE BooksStay
  BY <1>10, StillBooks DEF vars
<1>11. BooksStay
  BY <1>2, <1>3, <1>4, <1>5, <1>6, <1>7, <1>8, <1>9, <1>10 DEF Next
<1> QED BY <1>1, <1>11

\* The books are in order in every reachable state.
THEOREM BooksInvariant == Spec => []BooksInv
<1>1. BooksInv /\ [Next]_vars => BooksInv'
  BY NextBooks
<1> QED BY <1>1, InitBooks, PTL DEF Spec

\* What the properties say of an open position, in the words of the invariant.
LEMMA OpenPosition ==
  ASSUME BooksInv
  PROVE  /\ LiveIds = DOMAIN Positions(mint)
         /\ \A k \in LiveIds :
              /\ Positions(mint)[k] = M(k) /\ Staked(M(k)) /\ Started(store, M(k))
              /\ Retired(M(k)) <=> ~ Earns(store, M(k))
              /\ Yield(M(k)) = Entitlement(M(k).shares, M(k).accStart, EndOf(store, M(k)))
<1> DEFINE q == Positions(mint)
<1>1. LiveIds = DOMAIN q /\ \A k \in LiveIds : q[k] = M(k)
  BY DEF LiveIds, LiveOf, Positions, M
<1> HIDE DEF q
<1>2. store \in Store /\ \A k \in DOMAIN q : Staked(q[k]) /\ Started(store, q[k])
  BY DEF BooksInv, Sound, q
<1>3. ASSUME NEW k \in LiveIds
      PROVE  /\ Staked(M(k)) /\ Started(store, M(k))
             /\ Retired(M(k)) <=> ~ Earns(store, M(k))
             /\ Yield(M(k)) = Entitlement(M(k).shares, M(k).accStart, EndOf(store, M(k)))
  <2> DEFINE m == M(k)
  <2>1. Staked(m) /\ Started(store, m)
    BY <1>1, <1>2
  <2> HIDE DEF m
  <2>2. MaturityDay(m) \in Nat /\ store.acc_day \in Nat
    BY <1>2, <2>1, HoldingFields, StoreFields
  <2>3. Retired(m) <=> ~ Earns(store, m)
    BY <2>2 DEF Retired, Earns
  <2>4. Yield(m) = Entitlement(m.shares, m.accStart, EndOf(store, m))
    BY <2>3 DEF Yield, EndOf
  <2> QED BY <2>1, <2>3, <2>4 DEF m
<1> QED BY <1>1, <1>3 DEF q

\* A scaled comparison.
LEMMA ScaledLess ==
  ASSUME NEW a \in Nat, NEW b \in Nat, NEW c \in Nat \ {0}, c * a <= c * b
  PROVE  a <= b
<1>1. CASE a > b
  <2>1. b + 1 <= a /\ b + 1 \in Nat
    BY <1>1
  <2>2. c * (b + 1) <= c * a
    BY <2>1, ProductMono
  <2>3. c * (b + 1) = c * b + c
    OBVIOUS
  <2> DEFINE x == c * a
             y == c * b
  <2>4. x \in Nat /\ y \in Nat /\ y + c <= x /\ x <= y
    BY <2>2, <2>3, ProductNat
  <2> HIDE DEF x, y
  <2> QED BY <2>4
<1> QED BY <1>1

\* Members that count nothing do not change a total.
LEMMA TotalFilter ==
  ASSUME NEW S, NEW U, U \subseteq S, NEW f, NEW g, \A x \in U : f[x] = g[x],
         \A x \in S \ U : g[x] = 0
  PROVE  Total(f, U) = Total(g, S)
<1>1. Pairs(f, U) = Pairs(g, S)
  <2>1. \A z : z \in Pairs(f, U) => z \in Pairs(g, S)
    BY DEF Pairs
  <2>2. ASSUME NEW z \in Pairs(g, S) PROVE z \in Pairs(f, U)
    <3>1. PICK x \in S : z \in {x} \X (1 .. g[x])
      BY <2>2 DEF Pairs
    <3>2. x \in U
      BY <3>1
    <3> QED BY <3>1, <3>2 DEF Pairs
  <2> QED BY <2>1, <2>2
<1> QED BY <1>1 DEF Total

\* The properties of the books in the words of the invariant.
LEMMA BooksPay ==
  ASSUME BooksInv
  PROVE  BooksArePayable
<1> DEFINE q == Positions(mint)
           K == DOMAIN q
<1>1. /\ store \in Store /\ Sound(store, q, store.pool_lshare)
      /\ Conserved(bal, q, store, supMigrated)
      /\ PoolsOf(store) \in Nat /\ Total(bal, Accounts) \in Nat
      /\ Total(Locked(q), DOMAIN q) \in Nat
  BY BooksRows
<1>2. /\ LiveIds = K
      /\ \A k \in K :
           /\ q[k] = M(k) /\ Staked(M(k)) /\ Started(store, M(k))
           /\ Retired(M(k)) <=> ~ Earns(store, M(k))
           /\ Yield(M(k)) = Entitlement(M(k).shares, M(k).accStart, EndOf(store, M(k)))
  BY OpenPosition
<1>3. SupplyConserved
  <2> DEFINE f == [k \in LiveIds |-> M(k).principal]
  <2>1. Total(f, K) = Total(Locked(q), K)
    <3>1. \A k \in K : f[k] = Locked(q)[k]
      BY <1>2 DEF Locked
    <3> HIDE DEF f, K, q
    <3> QED BY <3>1, TotalSame
  <2> HIDE DEF f, q
  <2>2. Total(bal, Accounts) + Total(f, LiveIds) + PoolsOf(store)
          = supMigrated + store.sup_emitted
    BY <1>1, <1>2, <2>1 DEF Conserved
  <2>3. Total(f, LiveIds) \in Nat
    BY <1>1, <1>2, <2>1
  <2> DEFINE T == Total(f, LiveIds)
             B == Total(bal, Accounts)
  <2>4. B + T + PoolsOf(store) = supMigrated + store.sup_emitted /\ T \in Nat /\ B \in Nat
    BY <1>1, <2>2, <2>3
  <2> HIDE DEF T, B
  <2>5. B + T + store.pool_lshare + store.pool_viral + store.pool_deep + store.pool_liq
          = supMigrated + store.sup_emitted
    BY <1>1, <2>4, StoreFields, SMTT(60) DEF PoolsOf
  <2> QED BY <2>5 DEF SupplyConserved, T, B, f
<1>4. PoolCoversYield
  <2> DEFINE w == [k \in LiveIds |-> Yield(M(k))]
             z == [k \in K |-> 0]
             g == [k \in K |-> AccScale * w[k]]
             o == Owed(store, q)
             W == Total(w, K)
             h == store.acc_held
             x == store.pool_lshare
  <2>1. IsFiniteSet(K) /\ AccScale \in Nat \ {0} /\ h \in Nat /\ x \in Nat
        /\ Total(o, K) + AccScale * h <= AccScale * x
    BY <1>1, EngineAssumption, StoreFields DEF Sound
  <2>2. \A k \in K : w[k] \in Nat /\ AccScale * w[k] <= o[k] /\ o[k] \in Nat
    <3> TAKE k \in K
    <3> DEFINE m == M(k)
               e == EndOf(store, m)
    <3>1. q[k] = m /\ Staked(m) /\ Started(store, m)
          /\ w[k] = Entitlement(m.shares, m.accStart, e)
      BY <1>2
    <3>2. o[k] = m.shares * (e - m.accStart)
      BY <3>1 DEF Owed
    <3> HIDE DEF m
    <3>3. m.shares \in Nat /\ m.accStart \in Nat
      BY <3>1, HoldingFields
    <3>4. e \in m.accStart .. store.acc_per /\ e \in Nat /\ store.acc_per \in Nat
      BY <1>1, <3>1, EndBetween, StoreFields
    <3> HIDE DEF e, w, o
    <3>5. m.accStart <= e
      BY <3>3, <3>4
    <3>6. /\ Entitlement(m.shares, m.accStart, e) \in Nat
          /\ AccScale * Entitlement(m.shares, m.accStart, e) <= m.shares * (e - m.accStart)
      BY <3>3, <3>4, <3>5, EntitlementBound
    <3>7. m.shares * (e - m.accStart) \in Nat
      <4> DEFINE y == e - m.accStart
      <4>1. y \in Nat
        BY <3>3, <3>4, <3>5
      <4> HIDE DEF y
      <4>2. m.shares * y \in Nat
        BY <3>3, <4>1, ProductNat
      <4> QED BY <4>2 DEF y
    <3> QED BY <3>1, <3>2, <3>6, <3>7
  <2>3. \A k \in K : z[k] = 0 /\ g[k] = AccScale * w[k]
    OBVIOUS
  <2> HIDE DEF w, z, g, o, h, x, K
  <2>4. \A k \in K : z[k] \in Nat /\ w[k] \in Nat /\ g[k] = z[k] + AccScale * w[k]
                     /\ g[k] \in Nat /\ g[k] <= o[k]
    <3> TAKE k \in K
    <3> DEFINE y == AccScale * w[k]
    <3>1. y \in Nat /\ g[k] = y /\ z[k] = 0 /\ w[k] \in Nat /\ y <= o[k]
      BY <2>1, <2>2, <2>3, ProductNat
    <3> HIDE DEF y
    <3>2. g[k] = z[k] + y
      BY <3>1
    <3> QED BY <3>1, <3>2 DEF y
  <2>5. Total(g, K) = Total(z, K) + AccScale * Total(w, K)
    BY <2>1, <2>4, TotalScale
  <2>6. Total(z, K) = 0
    <3>1. Total(z, K) = Cardinality(K) * 0
      BY <2>1, <2>3, TotalConstant
    <3> QED BY <2>1, <3>1, FS_CardinalityType
  <2>7. Total(g, K) <= Total(o, K) /\ Total(o, K) \in Nat /\ W \in Nat
    BY <2>1, <2>2, <2>4, TotalMono, TotalIsNat
  <2>8. AccScale * (W + h) <= AccScale * x
    <3> DEFINE c == AccScale * W
               d == AccScale * h
    <3>1. c \in Nat /\ d \in Nat /\ AccScale * x \in Nat
      BY <2>1, <2>7, ProductNat
    <3>2. AccScale * (W + h) = c + d
      BY <2>1, <2>7
    <3>3. c <= Total(o, K)
      <4>1. Total(g, K) = 0 + c
        BY <2>5, <2>6
      <4> HIDE DEF c
      <4> QED BY <2>7, <3>1, <4>1
    <3>4. Total(o, K) + d <= AccScale * x
      BY <2>1
    <3> DEFINE T == Total(o, K)
               y == AccScale * x
    <3>5. c <= T /\ T + d <= y /\ T \in Nat /\ y \in Nat
      BY <2>7, <3>1, <3>3, <3>4
    <3> HIDE DEF c, d, T, y
    <3>6. c + d <= y
      BY <3>1, <3>5
    <3> QED BY <3>2, <3>6 DEF y
  <2>9. W + h <= x
    <3>1. W + h \in Nat
      BY <2>1, <2>7
    <3> DEFINE y == W + h
    <3> HIDE DEF y
    <3> QED BY <2>1, <2>8, <3>1, ScaledLess DEF y
  <2>10. Total(w, LiveIds) = W
    BY <1>2
  <2>11. x >= h + Total(w, LiveIds)
    <3> HIDE DEF W
    <3> QED BY <2>1, <2>7, <2>9, <2>10
  <2> QED BY <2>11 DEF PoolCoversYield, w, h, x
<1>5. CheckpointsKept
  BY <1>2 DEF CheckpointsKept, Started, EndOf
<1> QED BY <1>3, <1>4, <1>5 DEF BooksArePayable, YieldIsPayable

(* No unit is lost or made, whatever is credited, minted, settled, swept   *)
(* or given, and what the pool owes to the open positions it can pay: the  *)
(* cap in endMint never bites (accrual.go, mint.go).                       *)
THEOREM BooksPayable == Spec => []BooksArePayable
BY BooksPay, BooksInvariant, PTL

\* What the yields of the positions do from one state to the next.
YieldsRise ==
  \A k \in LiveIds :
    k \in LiveIds' =>
      LET m == M(k) IN
        /\ Yield(m)' >= Yield(m)
        /\ Retired(m) => Yield(m)' = Yield(m)

LEMMA KeptYieldsRise ==
  ASSUME BooksInv, BooksStay
  PROVE  YieldsRise
<1> DEFINE q == Positions(mint)
           r == Positions(mint')
<1>1. /\ LiveIds = DOMAIN q
      /\ \A k \in LiveIds :
           /\ q[k] = M(k) /\ Staked(M(k)) /\ Started(store, M(k))
           /\ Retired(M(k)) <=> ~ Earns(store, M(k))
           /\ Yield(M(k)) = Entitlement(M(k).shares, M(k).accStart, EndOf(store, M(k)))
  BY OpenPosition
<1>2. LiveIds' = DOMAIN r /\ \A k \in LiveIds' : r[k] = M(k)'
  BY DEF LiveIds, LiveOf, Positions, M
<1>3. /\ store \in Store /\ store' \in Store /\ Kept(store, q, store', r)
      /\ \A k \in DOMAIN r : Staked(r[k]) /\ Started(store', r[k])
  BY BooksRows DEF BooksStay, Sound
<1> HIDE DEF q, r
<1>4. ASSUME NEW k \in LiveIds, k \in LiveIds'
      PROVE  /\ Yield(M(k))' >= Yield(M(k))
             /\ Retired(M(k)) => Yield(M(k))' = Yield(M(k))
  <2> DEFINE m == q[k]
             n == r[k]
             c == EndOf(store, m)
             d == EndOf(store', n)
  <2>1. /\ Staked(m) /\ Started(store, m) /\ Staked(n) /\ Started(store', n)
        /\ n.shares = m.shares /\ n.accStart = m.accStart /\ d >= c
        /\ ~ Earns(store, m) => d = c
    BY <1>1, <1>2, <1>3, <1>4 DEF Kept
  <2>2. Yield(M(k)) = Entitlement(m.shares, m.accStart, c)
        /\ (Retired(M(k)) <=> ~ Earns(store, m))
    BY <1>1, <1>4
  <2>3. Yield(M(k))' = Entitlement(n.shares, n.accStart, d)
    <3>1. Yield(M(k))' = Entitlement(n.shares, n.accStart,
            IF store'.acc_day > MaturityDay(n) THEN store'.accAt[MaturityDay(n)]
            ELSE store'.acc_per)
      <4>1. M(k)' = n
        BY <1>2, <1>4
      <4> HIDE DEF n
      <4> QED BY <4>1 DEF Yield, Retired
    <3> HIDE DEF n
    <3>2. MaturityDay(n) \in Nat /\ store'.acc_day \in Nat
      BY <1>3, <2>1, HoldingFields, StoreFields
    <3> QED BY <3>1, <3>2 DEF EndOf, Earns
  <2> HIDE DEF m, n
  <2>4. m.shares \in Nat /\ m.accStart \in Nat /\ c \in Nat /\ d \in Nat
    BY <1>3, <2>1, HoldingFields, EndBetween
  <2> HIDE DEF c, d
  <2>5. c <= d
    BY <2>1, <2>4
  <2>6. /\ Entitlement(m.shares, m.accStart, c) \in Nat
        /\ Entitlement(m.shares, m.accStart, d) \in Nat
        /\ Entitlement(m.shares, m.accStart, c) <= Entitlement(m.shares, m.accStart, d)
    BY <2>4, <2>5, EntitlementMono
  <2> DEFINE y == Entitlement(m.shares, m.accStart, c)
             z == Entitlement(m.shares, m.accStart, d)
  <2>7. Yield(M(k)) = y /\ Yield(M(k))' = z
    BY <2>1, <2>2, <2>3
  <2>8. y \in Nat /\ z \in Nat /\ z >= y /\ (Retired(M(k)) => z = y)
    BY <2>1, <2>2, <2>6
  <2> HIDE DEF y, z
  <2> QED BY <2>7, <2>8
<1> QED BY <1>4 DEF YieldsRise

(* The yield of an open position never falls, whatever anyone else does,   *)
(* and stands still once its maturity day is closed (endMint).             *)
THEOREM YieldOnlyRises == Spec => YieldNeverFalls
<1>1. BooksInv /\ [Next]_vars => [YieldsRise]_vars
  BY NextBooks, KeptYieldsRise
<1> QED BY <1>1, BooksInvariant, PTL DEF Spec, YieldNeverFalls, YieldsRise

\* The same for the denominator and the schedule.
LEMMA DenominatorHolds ==
  ASSUME BooksInv
  PROVE  DenominatorIsLive
<1> DEFINE q == Positions(mint)
           K == DOMAIN q
           U == {k \in LiveIds : ~ Retired(M(k))}
           V(d) == {k \in LiveIds : MaturityDay(M(k)) = d /\ ~ Retired(M(k))}
<1>1. /\ store.shares_total = Total(Earning(store, q), K)
      /\ \A d \in Days : store.exp[d] = Total(EarningOn(store, q, d), K)
  BY DEF BooksInv, Sound
<1>2. LiveIds = K /\ \A k \in K : q[k] = M(k) /\ (Retired(M(k)) <=> ~ Earns(store, M(k)))
  BY OpenPosition
<1> HIDE DEF q
<1>3. SharesOf(U) = Total(Earning(store, q), K)
  <2> DEFINE f == [k \in U |-> M(k).shares]
             g == Earning(store, q)
  <2>1. U \subseteq K /\ \A k \in U : f[k] = g[k]
    BY <1>2 DEF Earning
  <2>2. \A k \in K \ U : g[k] = 0
    BY <1>2 DEF Earning
  <2> HIDE DEF f, g, U, K
  <2>3. Total(f, U) = Total(g, K)
    BY <2>1, <2>2, TotalFilter
  <2> QED BY <2>3 DEF SharesOf, f, g
<1>4. ASSUME NEW d \in Days PROVE SharesOf(V(d)) = Total(EarningOn(store, q, d), K)
  <2> DEFINE W == V(d)
             f == [k \in W |-> M(k).shares]
             g == EarningOn(store, q, d)
  <2>1. W \subseteq K /\ \A k \in W : f[k] = g[k]
    BY <1>2 DEF EarningOn
  <2>2. \A k \in K \ W : g[k] = 0
    BY <1>2 DEF EarningOn
  <2> HIDE DEF f, g, W, K
  <2>3. Total(f, W) = Total(g, K)
    BY <2>1, <2>2, TotalFilter
  <2> QED BY <2>3 DEF SharesOf, f, g, W
<1> HIDE DEF K
<1> QED BY <1>1, <1>3, <1>4 DEF DenominatorIsLive

(* The denominator of the yield is exactly the open positions whose        *)
(* maturity day the walk has not closed, and every day is scheduled to     *)
(* lose exactly the shares that mature on it (accrual.go).                 *)
THEOREM DenominatorLive == Spec => []DenominatorIsLive
BY DenominatorHolds, BooksInvariant, PTL

-----------------------------------------------------------------------------
(* A chunk and the positions it lists: one entry each, in any order.       *)

Holds(c, E) == \E p \in Bijection(DOMAIN E, DOMAIN c) : \A k \in DOMAIN E : c[p[k]] = E[k]

\* What a bijection is, without choosing an inverse.
LEMMA BijectionIs ==
  ASSUME NEW S, NEW T, NEW p
  PROVE  p \in Bijection(S, T) <=>
           /\ p \in [S -> T] /\ \A x \in S : \A y \in S : p[x] = p[y] => x = y
           /\ \A t \in T : \E x \in S : p[x] = t
BY DEF Bijection, Injection, IsInjective, Surjection

\* A bijection restricted to a part and its image.
LEMMA BijectionPart ==
  ASSUME NEW S, NEW T, NEW p \in Bijection(S, T), NEW A \in SUBSET S, NEW B \in SUBSET T,
         \A x \in S : x \in A <=> p[x] \in B
  PROVE  [x \in A |-> p[x]] \in Bijection(A, B)
<1> DEFINE r == [x \in A |-> p[x]]
<1>1. p \in [S -> T] /\ (\A x \in S : \A y \in S : p[x] = p[y] => x = y) /\ (\A t \in T : \E x \in S : p[x] = t)
  BY BijectionIs
<1>2. r \in [A -> B] /\ (\A x \in A : \A y \in A : r[x] = r[y] => x = y)
  BY <1>1
<1>3. \A t \in B : \E x \in A : r[x] = t
  BY <1>1
<1> HIDE DEF r
<1> QED BY <1>2, <1>3, BijectionIs

\* A chunk is as long as the positions it lists are many, and an entry is in
\* it as often as there are positions with that owner and those shares.
LEMMA ChunkCounts ==
  ASSUME NEW c \in Seq(Entry), NEW E, IsFiniteSet(DOMAIN E), Holds(c, E)
  PROVE  /\ Len(c) = Cardinality(DOMAIN E)
         /\ \A e : Cardinality({j \in DOMAIN c : c[j] = e}) = Cardinality({k \in DOMAIN E : E[k] = e})
<1>1. PICK p \in Bijection(DOMAIN E, DOMAIN c) : \A k \in DOMAIN E : c[p[k]] = E[k]
  BY DEF Holds
<1>2. DOMAIN c = 1 .. Len(c) /\ Len(c) \in Nat
  OBVIOUS
<1>3. Cardinality(1 .. Len(c)) = Len(c)
  <2> DEFINE n == Len(c)
  <2>1. n \in Nat
    BY <1>2
  <2> HIDE DEF n
  <2>2. Cardinality(1 .. n) = n
    BY <2>1, FS_Interval
  <2> QED BY <2>2 DEF n
<1>4. Cardinality(DOMAIN c) = Cardinality(DOMAIN E)
  BY <1>1, FS_Bijection DEF ExistsBijection
<1>5. ASSUME NEW e
      PROVE  Cardinality({j \in DOMAIN c : c[j] = e}) = Cardinality({k \in DOMAIN E : E[k] = e})
  <2> DEFINE A == {k \in DOMAIN E : E[k] = e}
             B == {j \in DOMAIN c : c[j] = e}
  <2>1. A \in SUBSET DOMAIN E /\ B \in SUBSET DOMAIN c
    OBVIOUS
  <2>2. \A x \in DOMAIN E : p[x] \in DOMAIN c
    BY <1>1, BijectionIs
  <2>3. \A x \in DOMAIN E : x \in A <=> p[x] \in B
    BY <1>1, <2>2
  <2>4. IsFiniteSet(A)
    BY <2>1, FS_Subset
  <2> HIDE DEF A, B
  <2>5. [x \in A |-> p[x]] \in Bijection(A, B)
    BY <1>1, <2>1, <2>3, BijectionPart
  <2>6. Cardinality(B) = Cardinality(A)
    BY <2>4, <2>5, FS_Bijection DEF ExistsBijection
  <2> QED BY <2>6 DEF A, B
<1> QED BY <1>2, <1>3, <1>4, <1>5

\* The shares of entries, and the entries of an account.
AmountsOf(c) == [i \in DOMAIN c |-> c[i].shares]

OwnedIn(c, a) == {i \in DOMAIN c : c[i].owner = a}

\* What a chunk takes off an account is what its positions in it have.
LEMMA ChunkShares ==
  ASSUME NEW c \in Seq(Entry), NEW E, IsFiniteSet(DOMAIN E), Holds(c, E), NEW a
  PROVE  Total(AmountsOf(c), OwnedIn(c, a)) = Total(AmountsOf(E), OwnedIn(E, a))
<1>1. PICK p \in Bijection(DOMAIN E, DOMAIN c) : \A k \in DOMAIN E : c[p[k]] = E[k]
  BY DEF Holds
<1> DEFINE A == {k \in DOMAIN E : E[k].owner = a}
           B == {i \in DOMAIN c : c[i].owner = a}
           r == [x \in A |-> p[x]]
           f == [k \in DOMAIN E |-> E[k].shares]
           g == [i \in DOMAIN c |-> c[i].shares]
<1>2. A \in SUBSET DOMAIN E /\ B \in SUBSET DOMAIN c
  OBVIOUS
<1>3. \A x \in DOMAIN E : p[x] \in DOMAIN c
  BY <1>1, BijectionIs
<1>4. \A x \in DOMAIN E : x \in A <=> p[x] \in B
  BY <1>1, <1>3
<1>5. IsFiniteSet(A)
  BY <1>2, FS_Subset
<1>6. \A x \in A : r[x] = p[x]
  OBVIOUS
<1>7. \A i \in DOMAIN c : c[i].shares \in Nat
  <2> TAKE i \in DOMAIN c
  <2>1. c[i] \in Entry
    OBVIOUS
  <2> QED BY <2>1 DEF Entry
<1>8. \A x \in A : f[x] = g[r[x]] /\ f[x] \in Nat
  BY <1>1, <1>3, <1>6, <1>7
<1>9. r \in Bijection(A, B)
  <2> HIDE DEF A, B
  <2> QED BY <1>1, <1>2, <1>4, BijectionPart
<1> HIDE DEF A, B, r, f, g
<1>10. Total(f, A) = Total(g, B)
  BY <1>5, <1>8, <1>9, TotalPaired
<1> QED BY <1>10 DEF A, B, f, g, AmountsOf, OwnedIn

\* No position, no entry.
LEMMA ChunkEmpty ==
  ASSUME NEW E
  PROVE  Holds(<<>>, E) <=> DOMAIN E = {}
<1>1. DOMAIN <<>> = {}
  OBVIOUS
<1>2. ASSUME Holds(<<>>, E) PROVE DOMAIN E = {}
  <2>1. PICK p \in Bijection(DOMAIN E, {}) : TRUE
    BY <1>1, <1>2 DEF Holds
  <2>2. p \in [DOMAIN E -> {}]
    BY <2>1, BijectionIs
  <2> QED BY <2>2
<1>3. ASSUME DOMAIN E = {} PROVE Holds(<<>>, E)
  <2> DEFINE p == [k \in {} |-> k]
  <2>1. p \in Bijection({}, {})
    BY BijectionIs
  <2> QED BY <1>1, <1>3, <2>1 DEF Holds
<1> QED BY <1>2, <1>3

\* One position more is one entry more.
LEMMA ChunkMore ==
  ASSUME NEW c \in Seq(Entry), NEW E, Holds(c, E), NEW k, NEW e \in Entry, NEW F, Joined(E, k, e, F)
  PROVE  Holds(Append(c, e), F)
<1> USE DEF Joined
<1>1. PICK p \in Bijection(DOMAIN E, DOMAIN c) : \A j \in DOMAIN E : c[p[j]] = E[j]
  BY DEF Holds
<1> DEFINE n == Len(c)
           d == Append(c, e)
           S == DOMAIN F
           q == [j \in S |-> IF j = k THEN n + 1 ELSE p[j]]
<1>2. p \in [DOMAIN E -> DOMAIN c] /\ (\A x \in DOMAIN E : \A y \in DOMAIN E : p[x] = p[y] => x = y)
        /\ (\A t \in DOMAIN c : \E x \in DOMAIN E : p[x] = t)
  BY <1>1, BijectionIs
<1>3. n \in Nat /\ DOMAIN c = 1 .. n /\ DOMAIN d = 1 .. n + 1 /\ d[n + 1] = e
        /\ \A i \in 1 .. n : d[i] = c[i]
  OBVIOUS
<1> HIDE DEF n, d
<1>4. \A j \in DOMAIN E : p[j] \in 1 .. n
  BY <1>2, <1>3
<1>5. S = DOMAIN E \cup {k} /\ q[k] = n + 1 /\ \A j \in DOMAIN E : q[j] = p[j]
  OBVIOUS
<1>6. q \in [S -> DOMAIN d]
  BY <1>3, <1>4
<1> HIDE DEF S, q
<1>7. \A x \in S : \A y \in S : q[x] = q[y] => x = y
  BY <1>2, <1>3, <1>4, <1>5
<1>8. \A t \in DOMAIN d : \E x \in S : q[x] = t
  <2> SUFFICES ASSUME NEW t \in DOMAIN d PROVE \E x \in S : q[x] = t
    OBVIOUS
  <2>1. CASE t = n + 1
    BY <2>1, <1>5
  <2>2. CASE t # n + 1
    <3>1. t \in DOMAIN c
      BY <1>3, <2>2
    <3>2. PICK x \in DOMAIN E : p[x] = t
      BY <1>2, <3>1
    <3> QED BY <1>5, <3>2
  <2> QED BY <2>1, <2>2
<1>9. q \in Bijection(S, DOMAIN d)
  BY <1>6, <1>7, <1>8, BijectionIs
<1>10. \A j \in S : d[q[j]] = F[j]
  BY <1>1, <1>3, <1>4, <1>5
<1> QED BY <1>9, <1>10 DEF Holds, S, d

\* A sequence without the entry at one place.
LEMMA CutOne ==
  ASSUME NEW T, NEW b \in Seq(T), NEW at \in 1 .. Len(b)
  PROVE  LET r == SubSeq(b, 1, at - 1) \o SubSeq(b, at + 1, Len(b))
         IN  /\ r \in Seq(T) /\ Len(r) = Len(b) - 1
             /\ \A i \in 1 .. Len(b) - 1 : r[i] = IF i < at THEN b[i] ELSE b[i + 1]
<1> DEFINE n == Len(b)
           u == SubSeq(b, 1, at - 1)
           v == SubSeq(b, at + 1, n)
           r == u \o v
<1>1. n \in Nat /\ DOMAIN b = 1 .. n /\ \A i \in 1 .. n : b[i] \in T
  OBVIOUS
<1>2. at \in 1 .. n
  OBVIOUS
<1> HIDE DEF n
<1>3. /\ u \in Seq(T) /\ Len(u) = at - 1 /\ \A i \in 1 .. at - 1 : u[i] = b[i]
  <2>1. at - 1 \in Int /\ \A i \in 1 .. at - 1 : b[i] \in T
    BY <1>1, <1>2
  <2> QED BY <1>1, <1>2, <2>1, SubSeqProperties
<1>4. /\ v \in Seq(T) /\ Len(v) = n - at
      /\ \A i \in 1 .. n - at : v[i] = b[at + i]
  <2>1. at + 1 \in Int /\ n \in Int /\ \A i \in at + 1 .. n : b[i] \in T
    BY <1>1, <1>2
  <2>2. /\ v \in Seq(T) /\ Len(v) = IF at + 1 <= n THEN n - (at + 1) + 1 ELSE 0
        /\ \A i \in 1 .. n - (at + 1) + 1 : v[i] = b[(at + 1) + i - 1]
    BY <2>1, SubSeqProperties
  <2> QED BY <1>1, <1>2, <2>2
<1> HIDE DEF u, v
<1>5. /\ r \in Seq(T) /\ Len(r) = Len(u) + Len(v)
      /\ \A i \in 1 .. Len(u) + Len(v) : r[i] = IF i <= Len(u) THEN u[i] ELSE v[i - Len(u)]
  BY <1>3, <1>4, ConcatProperties
<1> HIDE DEF r
<1>6. Len(r) = n - 1
  BY <1>1, <1>2, <1>3, <1>4, <1>5
<1>7. ASSUME NEW i \in 1 .. n - 1 PROVE r[i] = IF i < at THEN b[i] ELSE b[i + 1]
  <2>1. CASE i < at
    <3>1. i \in 1 .. at - 1
      BY <1>1, <1>2, <2>1
    <3>2. i <= Len(u) /\ i \in 1 .. Len(u) + Len(v)
      BY <1>1, <1>2, <1>3, <1>4, <3>1
    <3>3. r[i] = u[i]
      BY <1>5, <3>2
    <3> QED BY <1>3, <2>1, <3>1, <3>3
  <2>2. CASE i >= at
    <3>1. r[i] = v[i - (at - 1)]
      BY <1>1, <1>2, <1>3, <1>4, <1>5, <2>2
    <3>2. i - (at - 1) \in 1 .. n - at
      BY <1>1, <1>2, <2>2
    <3>3. v[i - (at - 1)] = b[at + (i - (at - 1))]
      BY <1>4, <3>2
    <3>4. at + (i - (at - 1)) = i + 1
      BY <1>2
    <3> QED BY <1>2, <2>2, <3>1, <3>3, <3>4
  <2> QED BY <1>2, <2>1, <2>2
<1> QED BY <1>5, <1>6, <1>7 DEF n, u, v, r

\* One position less is one entry less, whichever of its equals is taken.
LEMMA ChunkLess ==
  ASSUME NEW c \in Seq(Entry), NEW E, Holds(c, E), NEW k \in DOMAIN E, NEW h \in DOMAIN c, c[h] = E[k],
         NEW F, Parted(E, k, F)
  PROVE  Holds(SubSeq(c, 1, h - 1) \o SubSeq(c, h + 1, Len(c)), F)
<1> USE DEF Parted
<1>1. PICK p \in Bijection(DOMAIN E, DOMAIN c) : \A j \in DOMAIN E : c[p[j]] = E[j]
  BY DEF Holds
<1> DEFINE n == Len(c)
           d == SubSeq(c, 1, h - 1) \o SubSeq(c, h + 1, Len(c))
           S == DOMAIN F
           o(j) == IF p[j] = h THEN p[k] ELSE p[j]
           q == [j \in S |-> IF o(j) < h THEN o(j) ELSE o(j) - 1]
<1>2. p \in [DOMAIN E -> DOMAIN c] /\ (\A x \in DOMAIN E : \A y \in DOMAIN E : p[x] = p[y] => x = y)
        /\ (\A t \in DOMAIN c : \E x \in DOMAIN E : p[x] = t)
  BY <1>1, BijectionIs
<1>3. n \in Nat /\ DOMAIN c = 1 .. n /\ h \in 1 .. n
  OBVIOUS
<1>4. DOMAIN d = 1 .. n - 1 /\ \A i \in 1 .. n - 1 : d[i] = (IF i < h THEN c[i] ELSE c[i + 1])
  <2>1. d \in Seq(Entry) /\ Len(d) = Len(c) - 1
          /\ \A i \in 1 .. Len(c) - 1 : d[i] = IF i < h THEN c[i] ELSE c[i + 1]
    BY <1>3, CutOne
  <2> HIDE DEF d
  <2>2. DOMAIN d = 1 .. Len(d)
    BY <2>1
  <2> QED BY <2>1, <2>2
<1> HIDE DEF n, d
<1>5. \A j \in S : j \in DOMAIN E /\ j # k
  OBVIOUS
<1>6. \A j \in S : o(j) \in 1 .. n /\ o(j) # h /\ c[o(j)] = F[j]
  <2> SUFFICES ASSUME NEW j \in S PROVE o(j) \in 1 .. n /\ o(j) # h /\ c[o(j)] = F[j]
    OBVIOUS
  <2>1. j \in DOMAIN E /\ j # k /\ F[j] = E[j] /\ p[j] \in 1 .. n /\ p[k] \in 1 .. n /\ p[j] # p[k]
    BY <1>2, <1>3, <1>5
  <2>2. CASE p[j] = h
    BY <1>1, <2>1, <2>2
  <2>3. CASE p[j] # h
    BY <1>1, <2>1, <2>3
  <2> QED BY <2>2, <2>3
<1>7. \A x \in S : \A y \in S : o(x) = o(y) => x = y
  <2> SUFFICES ASSUME NEW x \in S, NEW y \in S, o(x) = o(y) PROVE x = y
    OBVIOUS
  <2>1. x \in DOMAIN E /\ y \in DOMAIN E /\ x # k /\ y # k
    BY <1>5
  <2>2. p[x] # p[k] /\ p[y] # p[k]
    BY <1>2, <2>1
  <2>3. p[x] = p[y]
    BY <2>2
  <2> QED BY <1>2, <2>1, <2>3
<1>8. \A i \in 1 .. n : i # h => \E x \in S : o(x) = i
  <2> SUFFICES ASSUME NEW i \in 1 .. n, i # h PROVE \E x \in S : o(x) = i
    OBVIOUS
  <2>1. PICK x \in DOMAIN E : p[x] = i
    BY <1>2, <1>3
  <2>2. PICK y \in DOMAIN E : p[y] = h
    BY <1>2, <1>3
  <2>3. CASE x = k
    BY <2>1, <2>2, <2>3
  <2>4. CASE x # k
    BY <2>1, <2>4
  <2> QED BY <2>3, <2>4
<1>9. \A j \in S : q[j] = IF o(j) < h THEN o(j) ELSE o(j) - 1
  OBVIOUS
<1>10. q \in [S -> 1 .. n - 1]
  <2> HIDE DEF o, S
  <2>1. \A j \in S : (IF o(j) < h THEN o(j) ELSE o(j) - 1) \in 1 .. n - 1
    BY <1>3, <1>6
  <2> QED BY <2>1
<1>11. DOMAIN q = S
  OBVIOUS
<1> HIDE DEF o, S, q
<1>12. \A x \in S : \A y \in S : q[x] = q[y] => x = y
  BY <1>3, <1>6, <1>7, <1>9
<1>13. \A t \in 1 .. n - 1 : \E x \in S : q[x] = t
  <2> SUFFICES ASSUME NEW t \in 1 .. n - 1 PROVE \E x \in S : q[x] = t
    OBVIOUS
  <2>1. CASE t < h
    <3>1. PICK x \in S : o(x) = t
      BY <1>3, <1>8, <2>1
    <3> QED BY <1>9, <2>1, <3>1
  <2>2. CASE ~ t < h
    <3>1. t + 1 \in 1 .. n /\ t + 1 # h
      BY <1>3, <2>2
    <3>2. PICK x \in S : o(x) = t + 1
      BY <1>8, <3>1
    <3> QED BY <1>3, <1>9, <2>2, <3>2
  <2> QED BY <2>1, <2>2
<1>14. q \in Bijection(S, DOMAIN d)
  BY <1>4, <1>10, <1>12, <1>13, BijectionIs
<1>15. \A j \in S : d[q[j]] = F[j]
  <2> SUFFICES ASSUME NEW j \in S PROVE d[q[j]] = F[j]
    OBVIOUS
  <2>1. q[j] \in 1 .. n - 1
    BY <1>10
  <2>2. CASE o(j) < h
    BY <1>3, <1>4, <1>6, <1>9, <2>1, <2>2
  <2>3. CASE ~ o(j) < h
    <3>1. q[j] = o(j) - 1 /\ o(j) \in 1 .. n /\ o(j) > h
      BY <1>3, <1>6, <1>9, <2>3
    <3>2. ~ q[j] < h /\ q[j] + 1 = o(j)
      BY <1>3, <3>1
    <3> QED BY <1>4, <1>6, <2>1, <3>2
  <2> QED BY <2>2, <2>3
<1> QED BY <1>14, <1>15 DEF Holds, S, d

-----------------------------------------------------------------------------
(***************************************************************************)
(* Votes and expiry lists.  On the day the walk has reached, the chunks up *)
(* to the cursor are taken; a position still to be taken votes, and is     *)
(* listed in the chunk it recorded.                                        *)
(***************************************************************************)
EntryOf(k, m) == [owner |-> k[1], shares |-> m.shares]

Taken(day, cur, m) == day > MaturityDay(m) \/ (day = MaturityDay(m) /\ cur >= m.expChunk)

SharesIn(q) == [k \in DOMAIN q |-> q[k].shares]

VotersOf(q, day, cur, a) == {k \in DOMAIN q : k[1] = a /\ ~ Taken(day, cur, q[k])}

DueIn(q, day, cur, d, i) ==
  {k \in DOMAIN q : MaturityDay(q[k]) = d /\ q[k].expChunk = i /\ ~ Taken(day, cur, q[k])}

Entries(q, K) == [k \in K |-> EntryOf(k, q[k])]

Voting(shr, q, day, cur) == \A a \in Accounts : shr[a] = Total(SharesIn(q), VotersOf(q, day, cur, a))

\* The list of day d has an entry for each position due on it, and no other.
Lists(chunks, q, day, cur, d) ==
  /\ \A k \in DOMAIN q :
       MaturityDay(q[k]) = d /\ ~ Taken(day, cur, q[k]) => q[k].expChunk \in DOMAIN chunks
  /\ \A i \in DOMAIN chunks : Holds(chunks[i], Entries(q, DueIn(q, day, cur, d, i)))

Listing(expl, q, day, cur) == \A d \in Days : Lists(expl[d], q, day, cur, d)

Recorded(q) ==
  /\ IsFiniteSet(DOMAIN q)
  /\ \A k \in DOMAIN q : k[1] \in Accounts /\ Staked(q[k]) /\ q[k].expChunk # 0

Listed(s, q) ==
  /\ s \in Store /\ Recorded(q)
  /\ \A d \in Days \ {s.acc_day} : s.explCur[d] = 0
  /\ s.explCur[s.acc_day] = 0 \/ s.explCur[s.acc_day] < Len(s.expl[s.acc_day])
  /\ Voting(s.shr, q, s.acc_day, s.explCur[s.acc_day])
  /\ Listing(s.expl, q, s.acc_day, s.explCur[s.acc_day])

\* The fields of a recorded position.
LEMMA RecordedTypes ==
  ASSUME NEW q, Recorded(q), NEW k \in DOMAIN q
  PROVE  /\ k[1] \in Accounts /\ q[k].shares \in Nat /\ q[k].expChunk \in Nat \ {0}
         /\ MaturityDay(q[k]) \in Days /\ MaturityDay(q[k]) \in Nat
         /\ EntryOf(k, q[k]) \in Entry
<1>1. k[1] \in Accounts /\ Staked(q[k]) /\ q[k].expChunk # 0
  BY DEF Recorded
<1>2. q[k].shares \in Nat /\ MaturityDay(q[k]) \in Days
  BY <1>1, HoldingFields
<1>3. q[k].expChunk \in Nat
  BY <1>1 DEF Staked, Mint
<1>4. EntryOf(k, q[k]) \in Entry
  BY <1>1, <1>2 DEF EntryOf, Entry
<1> QED BY <1>1, <1>2, <1>3, <1>4 DEF Days

\* Retiring the next chunk takes the votes of the positions it lists.
LEMMA RetireVotes ==
  ASSUME NEW q, Recorded(q), NEW day \in Days, NEW cur \in Nat, NEW c \in Nat, c >= cur,
         NEW chunk \in Seq(Entry), Holds(chunk, Entries(q, DueIn(q, day, cur, day, c + 1))),
         NEW shr \in [Accounts -> Nat], Voting(shr, q, day, c)
  PROVE  Voting(Retire(shr, chunk), q, day, c + 1)
<1> SUFFICES ASSUME NEW a \in Accounts
             PROVE  Retire(shr, chunk)[a] = Total(SharesIn(q), VotersOf(q, day, c + 1, a))
  BY DEF Voting
<1> DEFINE D == DueIn(q, day, cur, day, c + 1)
           E == Entries(q, D)
           X == {k \in D : k[1] = a}
           V == VotersOf(q, day, c, a)
           W == VotersOf(q, day, c + 1, a)
           f == SharesIn(q)
           t == Total(AmountsOf(chunk), OwnedIn(chunk, a))
<1>1. \A k \in DOMAIN q : q[k].expChunk \in Nat \ {0} /\ MaturityDay(q[k]) \in Nat /\ q[k].shares \in Nat
  BY RecordedTypes
<1>2. day \in Nat
  BY DEF Days
<1>3. \A k \in DOMAIN q : k \in D <=> MaturityDay(q[k]) = day /\ q[k].expChunk = c + 1
  BY <1>1, <1>2 DEF DueIn, Taken
<1>4. \A k \in DOMAIN q : k \in V <=> k[1] = a /\ ~ Taken(day, c, q[k])
  BY DEF VotersOf
<1>5. \A k \in DOMAIN q : k \in W <=> k[1] = a /\ ~ Taken(day, c + 1, q[k])
  BY DEF VotersOf
<1>6. D \subseteq DOMAIN q /\ V \subseteq DOMAIN q /\ W \subseteq DOMAIN q /\ X \subseteq D
  BY DEF DueIn, VotersOf
<1> HIDE DEF D, V, W
<1>7. V = W \cup X /\ W \cap X = {}
  <2>1. \A k \in DOMAIN q : ~ Taken(day, c, q[k]) <=>
           ~ Taken(day, c + 1, q[k]) \/ (MaturityDay(q[k]) = day /\ q[k].expChunk = c + 1)
    BY <1>1, <1>2 DEF Taken
  <2>2. \A k \in DOMAIN q : MaturityDay(q[k]) = day /\ q[k].expChunk = c + 1 => Taken(day, c + 1, q[k])
    BY <1>1, <1>2 DEF Taken
  <2>3. \A k : k \in X <=> k \in D /\ k[1] = a
    OBVIOUS
  <2> HIDE DEF X
  <2>4. \A k : k \in V <=> k \in W \/ k \in X
    BY <1>3, <1>4, <1>5, <1>6, <2>1, <2>3
  <2>5. \A k : ~ (k \in W /\ k \in X)
    BY <1>3, <1>5, <1>6, <2>2, <2>3
  <2> QED BY <2>4, <2>5
<1>8. IsFiniteSet(W) /\ IsFiniteSet(X) /\ IsFiniteSet(D)
  BY <1>6, FS_Subset DEF Recorded
<1>9. \A k \in DOMAIN q : f[k] = q[k].shares /\ f[k] \in Nat
  BY <1>1 DEF SharesIn
<1> HIDE DEF f
<1>10. Total(f, V) = Total(f, W) + Total(f, X)
  <2>1. \A x \in W \cup X : f[x] \in Nat
    BY <1>6, <1>9
  <2> HIDE DEF X
  <2> QED BY <1>7, <1>8, <2>1, TotalUnion
<1>11. t = Total(f, X)
  <2>1. DOMAIN E = D /\ \A k \in D : E[k].owner = k[1] /\ E[k].shares = q[k].shares
    BY DEF Entries, EntryOf
  <2>2. Holds(chunk, E)
    BY DEF D
  <2> HIDE DEF E
  <2>3. t = Total(AmountsOf(E), OwnedIn(E, a))
    <3>1. IsFiniteSet(DOMAIN E)
      BY <1>8, <2>1
    <3> QED BY <2>2, <3>1, ChunkShares
  <2>4. OwnedIn(E, a) = X
    BY <2>1 DEF OwnedIn
  <2> DEFINE g == AmountsOf(E)
  <2>5. \A k \in X : g[k] = f[k]
    BY <1>6, <1>9, <2>1 DEF AmountsOf
  <2> HIDE DEF g, X
  <2>6. Total(g, X) = Total(f, X)
    BY <2>5, TotalSame
  <2> QED BY <2>3, <2>4, <2>6 DEF g
<1>12. Retire(shr, chunk)[a] = Monus(shr[a], t)
  BY DEF Retire, AmountsOf, OwnedIn
<1>13. shr[a] = Total(f, V)
  BY DEF Voting, V, f
<1>14. Total(f, W) \in Nat /\ Total(f, X) \in Nat
  <2>1. (\A k \in W : f[k] \in Nat) /\ (\A k \in X : f[k] \in Nat)
    BY <1>6, <1>9
  <2> HIDE DEF X
  <2> QED BY <1>8, <2>1, TotalIsNat
<1> HIDE DEF t, X
<1>15. Retire(shr, chunk)[a] = Total(f, W)
  BY <1>10, <1>11, <1>12, <1>13, <1>14 DEF Monus
<1> QED BY <1>15 DEF f, W

-----------------------------------------------------------------------------
(* The drain of a list, chunk by chunk.                                    *)

\* The state of the drain after one more chunk.
OneChunk(chunks, r, left) ==
  [shr |-> Retire(r.shr, chunks[r.cur + 1]), budget |-> left, cur |-> r.cur + 1]

\* What is left of a list when the drain leaves it.
Leftover(chunks, cur) ==
  IF cur >= Len(chunks) THEN <<>> ELSE [i \in 1 .. Len(chunks) |-> IF i <= cur THEN <<>> ELSE chunks[i]]

Drained(w, r) ==
  LET day == w.store.acc_day
      chunks == w.store.expl[day]
  IN  [w EXCEPT !.store.shr = r.shr,
                !.store.expl[day] = Leftover(chunks, r.cur),
                !.store.explCur[day] = IF r.cur >= Len(chunks) THEN 0 ELSE r.cur,
                !.budget = r.budget,
                !.stopped = ~ (r.cur >= Len(chunks))]

StepsIn(chunks, F) ==
  \A r \in F : r.cur < Len(chunks) => \A left \in Nat : OneChunk(chunks, r, left) \in F

\* A set of loop states closed under taking one more chunk holds the state in
\* which the drain ends.
LEMMA DrainLoop ==
  ASSUME NEW w \in WalkState, NEW F, F \subseteq DrainState, StepsIn(w.store.expl[w.store.acc_day], F),
         [shr |-> w.store.shr, budget |-> w.budget, cur |-> w.store.explCur[w.store.acc_day]] \in F
  PROVE  \E r \in F : DrainExpiryList(w) = Drained(w, r)
<1> DEFINE s      == w.store
           day    == s.acc_day
           chunks == s.expl[day]
           turn   == [r \in DrainState |->
                        IF r.cur >= Len(chunks) \/ r.budget < Len(chunks[r.cur + 1]) THEN r
                        ELSE [shr    |-> Retire(r.shr, chunks[r.cur + 1]),
                              budget |-> r.budget - Len(chunks[r.cur + 1]),
                              cur    |-> r.cur + 1]]
           first  == [shr |-> s.shr, budget |-> w.budget, cur |-> s.explCur[day]]
           last   == Iterate(turn, first, Len(chunks))
<1>1. s \in Store /\ day \in Days
  BY DEF WalkState, Store
<1>2. chunks \in Seq(Seq(Entry))
  BY <1>1 DEF Store
<1>3. Len(chunks) \in Nat /\ \A i \in 1 .. Len(chunks) : chunks[i] \in Seq(Entry)
  BY <1>2, SMTT(60)
<1>4. \A r \in F : turn[r] \in F
  <2> SUFFICES ASSUME NEW r \in F PROVE turn[r] \in F
    OBVIOUS
  <2> DEFINE chunk == chunks[r.cur + 1]
  <2>1. r \in DrainState /\ r.budget \in Nat /\ r.cur \in Nat
    BY DEF DrainState
  <2>2. CASE r.cur >= Len(chunks) \/ r.budget < Len(chunk)
    BY <2>1, <2>2
  <2>3. CASE ~ (r.cur >= Len(chunks) \/ r.budget < Len(chunk))
    <3>1. chunk \in Seq(Entry) /\ Len(chunk) \in Nat
      BY <1>3, <2>1, <2>3, SMTT(60)
    <3>2. r.budget - Len(chunk) \in Nat /\ r.cur < Len(chunks)
      <4> DEFINE n == Len(chunk)
                 b == r.budget
                 o == Len(chunks)
      <4>1. n \in Nat /\ b \in Nat /\ o \in Nat /\ ~ (r.cur >= o \/ b < n)
        BY <1>3, <2>1, <2>3, <3>1
      <4> HIDE DEF n, b, o
      <4>2. b - n \in Nat /\ r.cur < o
        BY <2>1, <4>1
      <4> QED BY <4>2 DEF n, b, o
    <3>3. turn[r] = [shr |-> Retire(r.shr, chunk), budget |-> r.budget - Len(chunk),
                     cur |-> r.cur + 1]
      BY <2>1, <2>3
    <3>4. turn[r] = OneChunk(chunks, r, r.budget - Len(chunk))
      BY <3>3 DEF OneChunk
    <3> HIDE DEF turn, chunk
    <3> QED BY <3>2, <3>4 DEF StepsIn
  <2> QED BY <2>2, <2>3
<1>5. last \in F
  <2> HIDE DEF turn, first, chunks
  <2>1. first \in F
    BY DEF first
  <2> QED BY <1>3, <1>4, <2>1, IterateLoop
<1>6. DrainExpiryList(w) = Drained(w, last)
  <2> DEFINE leave == [r \in DrainState |->
                   LET fin == r.cur >= Len(chunks)
                   IN  [w EXCEPT
                          !.store.shr = r.shr,
                          !.store.expl[day] =
                             IF fin THEN <<>>
                             ELSE [i \in 1 .. Len(chunks) |->
                                     IF i <= r.cur THEN <<>> ELSE chunks[i]],
                          !.store.explCur[day] = IF fin THEN 0 ELSE r.cur,
                          !.budget = r.budget,
                          !.stopped = ~ fin]]
  <2>1. DrainExpiryList(w) = leave[last]
    BY DEF DrainExpiryList
  <2> HIDE DEF last
  <2>2. last \in DrainState
    BY <1>5
  <2>3. leave[last] = Drained(w, last)
    BY <2>2 DEF Drained, Leftover
  <2> QED BY <2>1, <2>3
<1> HIDE DEF last
<1> QED BY <1>5, <1>6

\* What the votes and lists of a drained walk are, row by row.
LEMMA DrainedRows ==
  ASSUME NEW w \in WalkState, NEW r \in DrainState, NEW u, u = Drained(w, r),
         NEW day, day = w.store.acc_day, NEW chunks, chunks = w.store.expl[day]
  PROVE  /\ u.store.acc_day = day /\ u.store.shr = r.shr
         /\ u.store.expl[day] = Leftover(chunks, r.cur)
         /\ u.store.explCur[day] = IF r.cur >= Len(chunks) THEN 0 ELSE r.cur
         /\ \A d \in Days \ {day} : u.store.expl[d] = w.store.expl[d] /\ u.store.explCur[d] = w.store.explCur[d]
         /\ u.stopped <=> ~ (r.cur >= Len(chunks))
<1>1. w.store \in Store /\ day \in Days
  BY DEF WalkState, Store
<1> DEFINE fin == r.cur >= Len(chunks)
           rest == Leftover(chunks, r.cur)
           cur == IF fin THEN 0 ELSE r.cur
           t == [w.store EXCEPT !.shr = r.shr, !.expl[day] = rest, !.explCur[day] = cur]
           v == [w EXCEPT !.store = t, !.budget = r.budget, !.stopped = ~ fin]
<1>2. u = v
  <2>1. u = [w EXCEPT !.store.shr = r.shr, !.store.expl[day] = rest, !.store.explCur[day] = cur,
                      !.budget = r.budget, !.stopped = ~ fin]
    BY DEF Drained
  <2> HIDE DEF rest, cur, fin
  <2> QED BY <2>1 DEF WalkState, Store
<1>3. v.store = t /\ (v.stopped <=> ~ fin)
  BY DEF WalkState
<1>4. /\ t.acc_day = day /\ t.shr = r.shr /\ t.expl[day] = rest /\ t.explCur[day] = cur
      /\ \A d \in Days \ {day} : t.expl[d] = w.store.expl[d] /\ t.explCur[d] = w.store.explCur[d]
  <2> HIDE DEF rest, cur
  <2> QED BY <1>1 DEF Store
<1> HIDE DEF v, t
<1> QED BY <1>2, <1>3, <1>4

\* The same positions are due.
LEMMA ListsSame ==
  ASSUME NEW chunks, NEW q, NEW day, NEW cur, NEW d, Lists(chunks, q, day, cur, d), NEW later, NEW c,
         \A k \in DOMAIN q : MaturityDay(q[k]) = d => (Taken(day, cur, q[k]) <=> Taken(later, c, q[k]))
  PROVE  Lists(chunks, q, later, c, d)
<1>1. \A i : DueIn(q, later, c, d, i) = DueIn(q, day, cur, d, i)
  BY DEF DueIn
<1> QED BY <1>1 DEF Lists

\* Votes stay right when the same positions are taken.
LEMMA VotingSame ==
  ASSUME NEW shr, NEW q, NEW day, NEW cur, Voting(shr, q, day, cur), NEW later, NEW c,
         \A k \in DOMAIN q : Taken(day, cur, q[k]) <=> Taken(later, c, q[k])
  PROVE  Voting(shr, q, later, c)
<1>1. \A a : VotersOf(q, later, c, a) = VotersOf(q, day, cur, a)
  BY DEF VotersOf
<1> QED BY <1>1 DEF Voting

\* What a drain that stopped leaves of the day's list.
LEMMA LeftoverLists ==
  ASSUME NEW q, Recorded(q), NEW day \in Days, NEW cur \in Nat, NEW c \in Nat, c >= cur,
         NEW chunks \in Seq(Seq(Entry)), Lists(chunks, q, day, cur, day), ~ c >= Len(chunks)
  PROVE  Lists(Leftover(chunks, c), q, day, c, day)
<1> DEFINE rest == Leftover(chunks, c)
<1>1. \A k \in DOMAIN q : q[k].expChunk \in Nat \ {0} /\ MaturityDay(q[k]) \in Nat
  BY RecordedTypes
<1>2. day \in Nat
  BY DEF Days
<1>3. /\ DOMAIN chunks = 1 .. Len(chunks) /\ Len(chunks) \in Nat
      /\ rest = [i \in 1 .. Len(chunks) |-> IF i <= c THEN <<>> ELSE chunks[i]]
  BY DEF Leftover
<1>4. DOMAIN rest = DOMAIN chunks /\ \A i \in DOMAIN chunks : rest[i] = IF i <= c THEN <<>> ELSE chunks[i]
  BY <1>3
<1> HIDE DEF rest
<1>5. \A k \in DOMAIN q : Taken(day, cur, q[k]) => Taken(day, c, q[k])
  BY <1>1, <1>2 DEF Taken
<1>6. ASSUME NEW k \in DOMAIN q, MaturityDay(q[k]) = day, ~ Taken(day, c, q[k])
      PROVE  q[k].expChunk \in DOMAIN rest
  BY <1>4, <1>5, <1>6 DEF Lists
<1>7. ASSUME NEW i \in DOMAIN chunks PROVE Holds(rest[i], Entries(q, DueIn(q, day, c, day, i)))
  <2>1. i \in Nat
    BY <1>3
  <2>2. CASE i <= c
    <3>1. DueIn(q, day, c, day, i) = {}
      BY <1>1, <1>2, <2>1, <2>2 DEF DueIn, Taken
    <3>2. DOMAIN Entries(q, {}) = {}
      BY DEF Entries
    <3>3. rest[i] = <<>>
      BY <1>4, <2>2
    <3> QED BY <3>1, <3>2, <3>3, ChunkEmpty
  <2>3. CASE ~ i <= c
    <3>1. DueIn(q, day, c, day, i) = DueIn(q, day, cur, day, i)
      BY <1>1, <1>2, <2>1, <2>3 DEF DueIn, Taken
    <3>2. rest[i] = chunks[i]
      BY <1>4, <2>3
    <3> QED BY <3>1, <3>2 DEF Lists
  <2> QED BY <2>2, <2>3
<1> QED BY <1>4, <1>6, <1>7 DEF Lists, rest

\* A day whose list is drained, before it is closed.
Swept(s, q) ==
  /\ s \in Store /\ Recorded(q)
  /\ \A d \in Days : s.explCur[d] = 0
  /\ Voting(s.shr, q, s.acc_day + 1, 0)
  /\ Listing(s.expl, q, s.acc_day + 1, 0)

\* A drain keeps votes and lists together, wherever it stops
\* (drainExpiryList: whole chunks only, the cursor stored).
LEMMA DrainVotes ==
  ASSUME NEW w \in WalkState, NEW q, Listed(w.store, q)
  PROVE  LET u == DrainExpiryList(w)
         IN  IF u.stopped THEN Listed(u.store, q) ELSE Swept(u.store, q)
<1> DEFINE s == w.store
           day == s.acc_day
           chunks == s.expl[day]
           cur == s.explCur[day]
           F == {r \in DrainState : r.cur >= cur /\ Voting(r.shr, q, day, r.cur)}
           u == DrainExpiryList(w)
<1>1. s \in Store /\ day \in Days /\ cur \in Nat /\ s.shr \in [Accounts -> Nat]
        /\ chunks \in Seq(Seq(Entry)) /\ w.budget \in Nat
  BY DEF WalkState, Store
<1>2. day \in Nat /\ DOMAIN chunks = 1 .. Len(chunks) /\ Len(chunks) \in Nat
  BY <1>1 DEF Days
<1>3. Recorded(q) /\ Voting(s.shr, q, day, cur) /\ Listing(s.expl, q, day, cur)
        /\ \A d \in Days \ {day} : s.explCur[d] = 0
  BY DEF Listed
<1>4. Lists(chunks, q, day, cur, day)
  BY <1>1, <1>3 DEF Listing
<1>5. StepsIn(chunks, F)
  <2> SUFFICES ASSUME NEW r \in F, r.cur < Len(chunks), NEW left \in Nat
               PROVE  OneChunk(chunks, r, left) \in F
    BY DEF StepsIn
  <2> DEFINE chunk == chunks[r.cur + 1]
             shr == Retire(r.shr, chunk)
  <2>1. r.cur \in Nat /\ r.cur >= cur /\ r.shr \in [Accounts -> Nat] /\ Voting(r.shr, q, day, r.cur)
    BY DEF DrainState
  <2>2. r.cur + 1 \in DOMAIN chunks
    BY <1>2, <2>1, SMTT(60)
  <2>3. chunk \in Seq(Entry) /\ Holds(chunk, Entries(q, DueIn(q, day, cur, day, r.cur + 1)))
    BY <1>1, <1>4, <2>2 DEF Lists
  <2>4. OneChunk(chunks, r, left) = [shr |-> shr, budget |-> left, cur |-> r.cur + 1]
    BY DEF OneChunk
  <2> HIDE DEF chunk, shr, F, cur, day, s
  <2>5. shr \in [Accounts -> Nat]
    BY <2>1, <2>3, RetireType DEF shr
  <2>6. Voting(shr, q, day, r.cur + 1)
    BY <1>1, <1>3, <2>1, <2>3, RetireVotes DEF shr
  <2>7. r.cur + 1 \in Nat /\ r.cur + 1 >= cur
    BY <1>1, <2>1
  <2> QED BY <2>4, <2>5, <2>6, <2>7 DEF DrainState, F
<1>6. [shr |-> s.shr, budget |-> w.budget, cur |-> cur] \in F
  BY <1>1, <1>3 DEF DrainState
<1>7. PICK r \in F : u = Drained(w, r)
  <2> HIDE DEF F
  <2>1. F \subseteq DrainState
    BY DEF F
  <2> QED BY <1>5, <1>6, <2>1, DrainLoop
<1>8. r \in DrainState /\ r.cur \in Nat /\ r.cur >= cur /\ Voting(r.shr, q, day, r.cur)
  BY DEF DrainState
<1>9. u \in WalkState /\ u.store \in Store
  BY DrainFrame DEF WalkState
<1>10. /\ u.store.acc_day = day /\ u.store.shr = r.shr
       /\ u.store.expl[day] = Leftover(chunks, r.cur)
       /\ u.store.explCur[day] = IF r.cur >= Len(chunks) THEN 0 ELSE r.cur
       /\ \A d \in Days \ {day} : u.store.expl[d] = s.expl[d] /\ u.store.explCur[d] = s.explCur[d]
       /\ u.stopped <=> ~ (r.cur >= Len(chunks))
  BY <1>7, <1>8, DrainedRows
<1>11. \A k \in DOMAIN q : q[k].expChunk \in Nat \ {0} /\ MaturityDay(q[k]) \in Nat
  BY <1>3, RecordedTypes
<1> HIDE DEF u, chunks, cur, F
<1>12. CASE ~ (r.cur >= Len(chunks))
  <2>1. Voting(u.store.shr, q, day, r.cur)
    BY <1>8, <1>10
  <2>2. ASSUME NEW d \in Days PROVE Lists(u.store.expl[d], q, day, r.cur, d)
    <3>1. CASE d = day
      BY <1>1, <1>3, <1>4, <1>8, <1>10, <1>12, <3>1, LeftoverLists
    <3>2. CASE d # day
      <4>1. Lists(s.expl[d], q, day, cur, d)
        BY <1>3 DEF Listing
      <4>2. \A k \in DOMAIN q : MaturityDay(q[k]) = d => (Taken(day, cur, q[k]) <=> Taken(day, r.cur, q[k]))
        BY <3>2 DEF Taken
      <4>3. u.store.expl[d] = s.expl[d]
        BY <1>10, <3>2
      <4> QED BY <4>1, <4>2, <4>3, ListsSame
    <3> QED BY <3>1, <3>2
  <2>3. \A d \in Days \ {day} : u.store.explCur[d] = 0
    BY <1>3, <1>10
  <2>4. r.cur < Len(u.store.expl[day])
    <3> DEFINE n == Len(chunks)
               rest == [i \in 1 .. n |-> IF i <= r.cur THEN <<>> ELSE chunks[i]]
    <3>1. u.store.expl[day] = rest
      BY <1>10, <1>12 DEF Leftover
    <3>2. n \in Nat /\ r.cur < n
      BY <1>2, <1>8, <1>12
    <3> HIDE DEF n
    <3>3. Len(rest) = n
      BY <3>2
    <3> QED BY <3>1, <3>2, <3>3
  <2>5. Listed(u.store, q)
    <3> DEFINE t == u.store
    <3>1. /\ t \in Store /\ t.acc_day = day /\ t.explCur[day] = r.cur /\ r.cur < Len(t.expl[day])
          /\ Voting(t.shr, q, day, r.cur) /\ Listing(t.expl, q, day, r.cur)
      BY <1>9, <1>10, <1>12, <2>1, <2>2, <2>4 DEF Listing
    <3> HIDE DEF t
    <3> QED BY <1>3, <2>3, <3>1 DEF Listed, t
  <2> QED BY <1>10, <1>12, <2>5 DEF u
<1>13. CASE r.cur >= Len(chunks)
  <2>1. \A k \in DOMAIN q : Taken(day + 1, 0, q[k]) <=> day >= MaturityDay(q[k])
    BY <1>2, <1>11 DEF Taken
  <2>2. \A k \in DOMAIN q : Taken(day, r.cur, q[k]) <=> day >= MaturityDay(q[k])
    <3> SUFFICES ASSUME NEW k \in DOMAIN q, MaturityDay(q[k]) = day PROVE r.cur >= q[k].expChunk
      BY <1>2, <1>11 DEF Taken
    <3>1. CASE Taken(day, cur, q[k])
      BY <1>1, <1>2, <1>8, <1>11, <3>1 DEF Taken
    <3>2. CASE ~ Taken(day, cur, q[k])
      <4>1. q[k].expChunk \in 1 .. Len(chunks)
        BY <1>2, <1>4, <3>2 DEF Lists
      <4> QED BY <1>2, <1>8, <1>13, <4>1
    <3> QED BY <3>1, <3>2
  <2>3. Voting(u.store.shr, q, day + 1, 0)
    <3>1. \A k \in DOMAIN q : Taken(day, r.cur, q[k]) <=> Taken(day + 1, 0, q[k])
      BY <2>1, <2>2
    <3> QED BY <1>8, <1>10, <3>1, VotingSame
  <2>4. ASSUME NEW d \in Days PROVE Lists(u.store.expl[d], q, day + 1, 0, d)
    <3>1. CASE d = day
      <4>1. u.store.expl[d] = <<>>
        BY <1>10, <1>13, <3>1 DEF Leftover
      <4>2. \A k \in DOMAIN q : MaturityDay(q[k]) = d => Taken(day + 1, 0, q[k])
        BY <1>2, <2>1, <3>1
      <4> QED BY <4>1, <4>2 DEF Lists
    <3>2. CASE d # day
      <4>1. Lists(s.expl[d], q, day, cur, d)
        BY <1>3 DEF Listing
      <4>2. \A k \in DOMAIN q : MaturityDay(q[k]) = d => (Taken(day, cur, q[k]) <=> Taken(day + 1, 0, q[k]))
        BY <1>2, <1>11, <2>1, <3>2 DEF Taken
      <4>3. u.store.expl[d] = s.expl[d]
        BY <1>10, <3>2
      <4> QED BY <4>1, <4>2, <4>3, ListsSame
    <3> QED BY <3>1, <3>2
  <2>5. \A d \in Days : u.store.explCur[d] = 0
    BY <1>3, <1>10, <1>13
  <2>6. Swept(u.store, q)
    BY <1>3, <1>9, <1>10, <2>3, <2>4, <2>5 DEF Swept, Listing
  <2> QED BY <1>10, <1>13, <2>6 DEF u
<1> QED BY <1>12, <1>13

-----------------------------------------------------------------------------
(* The walk keeps votes and lists.                                         *)

\* Stores that cannot be told apart by votes and lists.
SameVotes(s, t) ==
  /\ t \in Store /\ t.acc_day = s.acc_day
  /\ t.shr = s.shr /\ t.expl = s.expl /\ t.explCur = s.explCur

\* A step that touches neither votes nor lists.
LEMMA SameVotesListed ==
  ASSUME NEW s, NEW q, Listed(s, q), NEW t, SameVotes(s, t)
  PROVE  Listed(t, q)
BY DEF Listed, SameVotes

\* Closing a drained day moves on to a day of which no chunk is taken.
LEMMA CloseVotes ==
  ASSUME NEW w \in WalkState, w.store.acc_day + 1 \in Days, NEW q, Swept(w.store, q)
  PROVE  Listed(CloseDay(w).store, q)
<1> DEFINE s      == w.store
           day    == s.acc_day
           amount == EmissionBetween(HeightOfDay(day), HeightOfDay(day + 1))
           lshare == Split(amount).lshare
           step   == AccumulatorStep(s.acc_per, lshare, s.acc_held, s.shares_total)
           per    == step.acc
           held   == step.held
           paid   == [s EXCEPT !.acc_per = per, !.acc_held = held]
           x      == ExpireDay(paid, day)
           t      == [x EXCEPT !.acc_day = day + 1]
           v      == CloseDay(w)
<1>1. s \in Store /\ day \in Days /\ v \in WalkState
  BY CloseDayFrame DEF WalkState, Store
<1>2. v.store = t
  BY DEF CloseDay
<1>3. v.store \in Store
  BY <1>1 DEF WalkState
<1> HIDE DEF v, per, held
<1>4. paid.shr = s.shr /\ paid.expl = s.expl /\ paid.explCur = s.explCur /\ DOMAIN paid = DOMAIN s
  BY <1>1 DEF Store
<1> HIDE DEF paid
<1>5. x.shr = s.shr /\ x.expl = s.expl /\ x.explCur = s.explCur /\ DOMAIN x = DOMAIN s
  <2>1. CASE paid.exp[day] = 0
    BY <1>4, <2>1 DEF ExpireDay
  <2>2. CASE paid.exp[day] # 0
    <3>1. x = [paid EXCEPT !.shares_total = Monus(@, paid.exp[day]),
                           !.exp[day] = 0, !.accAt[day] = paid.acc_per]
      BY <2>2 DEF ExpireDay
    <3> HIDE DEF x
    <3> QED BY <1>1, <1>4, <3>1 DEF Store
  <2> QED BY <2>1, <2>2
<1> HIDE DEF x
<1>6. t.shr = s.shr /\ t.expl = s.expl /\ t.explCur = s.explCur /\ t.acc_day = day + 1
  BY <1>1, <1>5 DEF Store
<1> HIDE DEF t
<1>7. /\ Recorded(q) /\ (\A d \in Days : s.explCur[d] = 0)
      /\ Voting(s.shr, q, day + 1, 0) /\ Listing(s.expl, q, day + 1, 0)
  BY DEF Swept
<1>8. day + 1 \in Days
  OBVIOUS
<1> HIDE DEF s, day
<1> QED BY <1>2, <1>3, <1>6, <1>7, <1>8 DEF Listed, v

\* The walk keeps votes and lists together, wherever it stops.
LEMMA WalkDaysVotes ==
  ASSUME NEW s, NEW q, Listed(s, q), NEW target \in Days, NEW n \in Nat, NEW budget \in Nat
  PROVE  /\ WalkDays(s, target, n, budget) \in WalkState
         /\ Listed(WalkDays(s, target, n, budget).store, q)
<1> DEFINE X == {w \in WalkState : Listed(w.store, q)}
           close == [w \in WalkState |-> IF w.stopped THEN w ELSE CloseDay(w)]
           turn  == [w \in WalkState |->
                       IF w.stopped \/ w.store.acc_day >= target THEN w
                       ELSE close[DrainExpiryList(w)]]
           first == [store |-> s, emitted |-> 0, lshare |-> 0, budget |-> budget,
                     stopped |-> FALSE]
<1>1. WalkDays(s, target, n, budget) = Iterate(turn, first, n)
  BY DEF WalkDays
<1>2. s \in Store /\ target \in Nat
  BY ConstantTypes DEF Listed, Days
<1>3. first \in X
  <2>1. first \in WalkState
    BY <1>2 DEF WalkState
  <2> QED BY <2>1
<1>4. \A w \in X : turn[w] \in X
  <2> SUFFICES ASSUME NEW w \in X PROVE turn[w] \in X
    OBVIOUS
  <2> DEFINE u == DrainExpiryList(w)
             v == CloseDay(u)
  <2>1. w \in WalkState /\ Listed(w.store, q)
    OBVIOUS
  <2>2. CASE w.stopped \/ w.store.acc_day >= target
    BY <2>1, <2>2
  <2>3. CASE ~ (w.stopped \/ w.store.acc_day >= target)
    <3>1. u \in WalkState /\ u.store.acc_day = w.store.acc_day
      BY <2>1, DrainFrame DEF SameBooks
    <3>2. turn[w] = IF u.stopped THEN u ELSE v
      BY <2>1, <2>3, <3>1
    <3>3. IF u.stopped THEN Listed(u.store, q) ELSE Swept(u.store, q)
      BY <2>1, DrainVotes
    <3> HIDE DEF u, turn, close
    <3>4. CASE u.stopped
      BY <3>1, <3>2, <3>3, <3>4
    <3>5. CASE ~ u.stopped
      <4>1. u.store.acc_day + 1 \in Days
        <5>1. w.store \in Store
          BY <2>1 DEF WalkState
        <5>2. w.store.acc_day \in Nat /\ w.store.acc_day < target
          BY <1>2, <2>3, <5>1, StoreFields
        <5> QED BY <1>2, <3>1, <5>2, ConstantTypes DEF Days
      <4>2. v \in WalkState
        BY <3>1, <4>1, CloseDayFrame
      <4>3. Listed(v.store, q)
        BY <3>1, <3>3, <3>5, <4>1, CloseVotes
      <4> HIDE DEF v
      <4> QED BY <3>2, <3>5, <4>2, <4>3
    <3> QED BY <3>4, <3>5
  <2> QED BY <2>2, <2>3
<1> HIDE DEF turn, first
<1>5. Iterate(turn, first, n) \in X
  <2> HIDE DEF X
  <2> QED BY <1>3, <1>4, IterateLoop
<1> QED BY <1>1, <1>5

\* However long the walk, however small its budget (accrueWalk).
LEMMA AccrueVotes ==
  ASSUME NEW s, NEW q, Listed(s, q), NEW h \in Heights, Settled(s, h),
         NEW n \in Int, NEW budget \in Nat
  PROVE  Listed(AccrueWalk(s, h, n, budget), q)
<1> DEFINE limit  == IF n <= 0 \/ n > MaxAccrualDays THEN MaxAccrualDays ELSE n
           target == DayOf(h)
           w      == WalkDays(s, target, limit, budget)
           t      == AccrueWalk(s, h, n, budget)
<1>1. target \in Days /\ limit \in Nat
  BY DayOfCall, LasseMintAssumption
<1>2. CASE s.acc_day >= target
  BY <1>2 DEF AccrueWalk
<1>3. CASE ~ (s.acc_day >= target)
  <2>1. t = CreditWalk[w]
    BY <1>3, Zenon DEF AccrueWalk
  <2> HIDE DEF limit, target, t
  <2>2. w \in WalkState /\ Listed(w.store, q)
    BY <1>1, WalkDaysVotes
  <2>3. t \in Store
    <3>1. Settled(AccrueWalk(s, h, n, budget), h)
      BY AccrueFrame
    <3> QED BY <3>1 DEF Settled, t
  <2> HIDE DEF w
  <2> DEFINE alloc == Split(w.emitted)
             pob == SplitPoB(alloc.pob)
  <2>4. t = [w.store EXCEPT !.sup_emitted = @ + w.emitted,
                            !.pool_viral  = @ + pob.viral,
                            !.pool_deep   = @ + pob.deep,
                            !.pool_liq    = @ + alloc.liquidity,
                            !.pool_lshare = @ + w.lshare,
                            !.settled     = HeightOfDay(w.store.acc_day)]
    BY <2>1, <2>2 DEF CreditWalk
  <2> HIDE DEF alloc, pob
  <2>5. w.store \in Store
    BY <2>2 DEF WalkState
  <2>6. t.acc_day = w.store.acc_day /\ t.shr = w.store.shr /\ t.expl = w.store.expl
        /\ t.explCur = w.store.explCur
    BY <2>4, <2>5 DEF Store
  <2>7. SameVotes(w.store, t)
    BY <2>3, <2>6 DEF SameVotes
  <2> QED BY <2>2, <2>7, SameVotesListed DEF t
<1> QED BY <1>2, <1>3

-----------------------------------------------------------------------------
(* Positions come and go.                                                  *)

\* The positions due on day d are the same ones, with the same entries.
SameDue(q, r, day, cur, d) ==
  \A j : /\ (j \in DOMAIN q /\ MaturityDay(q[j]) = d /\ ~ Taken(day, cur, q[j]))
              <=> (j \in DOMAIN r /\ MaturityDay(r[j]) = d /\ ~ Taken(day, cur, r[j]))
         /\ j \in DOMAIN q /\ j \in DOMAIN r /\ MaturityDay(q[j]) = d /\ ~ Taken(day, cur, q[j])
              => r[j].expChunk = q[j].expChunk /\ r[j].shares = q[j].shares

\* A list is right for positions that are due in the same way.
LEMMA ListsStay ==
  ASSUME NEW chunks, NEW q, NEW day, NEW cur, NEW d, Lists(chunks, q, day, cur, d),
         NEW r, SameDue(q, r, day, cur, d)
  PROVE  Lists(chunks, r, day, cur, d)
<1>1. ASSUME NEW i PROVE Entries(r, DueIn(r, day, cur, d, i)) = Entries(q, DueIn(q, day, cur, d, i))
  <2> DEFINE K == DueIn(q, day, cur, d, i)
             L == DueIn(r, day, cur, d, i)
  <2>1. \A j : j \in L <=> j \in K
    BY DEF DueIn, SameDue
  <2>2. \A j \in K : EntryOf(j, r[j]) = EntryOf(j, q[j])
    BY DEF DueIn, SameDue, EntryOf
  <2> HIDE DEF K, L
  <2>3. L = K
    BY <2>1
  <2> QED BY <2>2, <2>3 DEF Entries, K, L
<1>2. ASSUME NEW k \in DOMAIN r, MaturityDay(r[k]) = d, ~ Taken(day, cur, r[k])
      PROVE  r[k].expChunk \in DOMAIN chunks
  <2>1. k \in DOMAIN q /\ MaturityDay(q[k]) = d /\ ~ Taken(day, cur, q[k])
    BY <1>2 DEF SameDue
  <2>2. r[k].expChunk = q[k].expChunk
    BY <2>1 DEF SameDue
  <2> QED BY <2>1, <2>2 DEF Lists
<1> QED BY <1>1, <1>2 DEF Lists

\* The voters of an account are the same ones, with the same shares.
SameVoters(q, r, day, cur, a) ==
  \A j : /\ (j \in DOMAIN q /\ j[1] = a /\ ~ Taken(day, cur, q[j]))
              <=> (j \in DOMAIN r /\ j[1] = a /\ ~ Taken(day, cur, r[j]))
         /\ j \in DOMAIN q /\ j \in DOMAIN r /\ j[1] = a => r[j].shares = q[j].shares

\* A vote is right for positions that vote in the same way.
LEMMA VotersStay ==
  ASSUME NEW q, NEW r, NEW day, NEW cur, NEW a, SameVoters(q, r, day, cur, a)
  PROVE  Total(SharesIn(r), VotersOf(r, day, cur, a)) = Total(SharesIn(q), VotersOf(q, day, cur, a))
<1> DEFINE K == VotersOf(q, day, cur, a)
           L == VotersOf(r, day, cur, a)
           f == SharesIn(q)
           g == SharesIn(r)
<1>1. \A j : j \in L <=> j \in K
  BY DEF VotersOf, SameVoters
<1>2. \A j \in K : j \in DOMAIN q /\ j \in DOMAIN r /\ j[1] = a
  BY DEF VotersOf, SameVoters
<1>3. \A j \in K : g[j] = f[j]
  BY <1>2 DEF SharesIn, SameVoters
<1> HIDE DEF K, L, f, g
<1>4. L = K
  BY <1>1
<1>5. Total(g, K) = Total(f, K)
  BY <1>3, TotalSame
<1> QED BY <1>4, <1>5 DEF K, L, f, g

\* A position more changes the vote of its owner and the list of its day only.
LEMMA JoinedOthers ==
  ASSUME NEW q, NEW k, NEW m, NEW r, Joined(q, k, m, r), NEW day, NEW cur
  PROVE  /\ \A d : MaturityDay(m) # d => SameDue(q, r, day, cur, d)
         /\ \A a : k[1] # a => SameVoters(q, r, day, cur, a)
BY DEF Joined, SameDue, SameVoters

\* A position less changes only those too, and nothing when it was taken.
LEMMA PartedOthers ==
  ASSUME NEW q, NEW k, NEW r, Parted(q, k, r), NEW day, NEW cur
  PROVE  /\ \A d : MaturityDay(q[k]) # d \/ Taken(day, cur, q[k]) => SameDue(q, r, day, cur, d)
         /\ \A a : k[1] # a \/ Taken(day, cur, q[k]) => SameVoters(q, r, day, cur, a)
BY DEF Parted, SameDue, SameVoters

\* The vote of an account with one position more.
LEMMA VotesMore ==
  ASSUME NEW q, Recorded(q), NEW k, NEW m, NEW r, Joined(q, k, m, r), m.shares \in Nat,
         NEW day, NEW cur, ~ Taken(day, cur, m), NEW a, k[1] = a
  PROVE  Total(SharesIn(r), VotersOf(r, day, cur, a)) = Total(SharesIn(q), VotersOf(q, day, cur, a)) + m.shares
<1> DEFINE K == VotersOf(q, day, cur, a)
           L == VotersOf(r, day, cur, a)
           f == SharesIn(q)
           g == SharesIn(r)
<1>1. K \subseteq DOMAIN q /\ IsFiniteSet(K)
  <2>1. K \in SUBSET DOMAIN q
    BY DEF VotersOf
  <2> HIDE DEF K
  <2> QED BY <2>1, FS_Subset DEF Recorded
<1>2. \A j \in DOMAIN q : f[j] \in Nat /\ g[j] = f[j]
  BY RecordedTypes DEF SharesIn, Joined
<1>3. k \notin K /\ g[k] = m.shares
  BY DEF VotersOf, SharesIn, Joined
<1>4. \A j : j \in L <=> j \in K \/ j = k
  BY DEF VotersOf, Joined
<1> HIDE DEF K, L, f, g
<1>5. L = K \union {k}
  BY <1>4
<1>6. \A x \in K : f[x] \in Nat /\ g[x] = f[x]
  BY <1>1, <1>2
<1>7. Total(g, L) = Total(f, K) + g[k]
  BY <1>1, <1>3, <1>5, <1>6, TotalGains
<1> QED BY <1>3, <1>7 DEF K, L, f, g

\* The vote of an account with one position less: nothing is cut off at zero.
LEMMA VotesLess ==
  ASSUME NEW q, Recorded(q), NEW k, NEW r, Parted(q, k, r),
         NEW day, NEW cur, ~ Taken(day, cur, q[k]), NEW a, k[1] = a
  PROVE  /\ Total(SharesIn(r), VotersOf(r, day, cur, a)) = Total(SharesIn(q), VotersOf(q, day, cur, a)) - q[k].shares
         /\ Total(SharesIn(q), VotersOf(q, day, cur, a)) \in Nat
         /\ Total(SharesIn(q), VotersOf(q, day, cur, a)) >= q[k].shares
<1> DEFINE K == VotersOf(q, day, cur, a)
           L == VotersOf(r, day, cur, a)
           f == SharesIn(q)
           g == SharesIn(r)
<1>1. K \subseteq DOMAIN q /\ IsFiniteSet(K)
  <2>1. K \in SUBSET DOMAIN q
    BY DEF VotersOf
  <2> HIDE DEF K
  <2> QED BY <2>1, FS_Subset DEF Recorded
<1>2. \A j \in DOMAIN q : f[j] \in Nat /\ f[j] = q[j].shares
  BY RecordedTypes DEF SharesIn
<1>3. k \in K /\ \A j \in DOMAIN r : j \in DOMAIN q /\ g[j] = f[j]
  BY DEF VotersOf, SharesIn, Parted
<1>4. \A j : j \in L <=> j \in K /\ j # k
  BY DEF VotersOf, Parted
<1>5. L \subseteq DOMAIN r
  BY DEF VotersOf
<1> HIDE DEF K, L, f, g
<1>6. L = K \ {k}
  BY <1>4
<1>7. (\A x \in K : f[x] \in Nat) /\ (\A x \in L : g[x] = f[x])
  BY <1>1, <1>2, <1>3, <1>5
<1>8. Total(g, L) = Total(f, K) - f[k]
  BY <1>1, <1>3, <1>6, <1>7, TotalLoses
<1>9. Total(f, K) >= f[k] /\ Total(f, K) \in Nat
  BY <1>1, <1>3, <1>7, TotalRemove, TotalIsNat
<1>10. f[k] = q[k].shares
  BY <1>1, <1>2, <1>3
<1> QED BY <1>8, <1>9, <1>10 DEF K, L, f, g

\* A position is appended to the list of its day (scheduleExpiryEntries).
LEMMA ListsMore ==
  ASSUME NEW q, Recorded(q), NEW k, NEW m, NEW r, Joined(q, k, m, r), EntryOf(k, m) \in Entry,
         NEW d, MaturityDay(m) = d, NEW day, NEW cur, ~ Taken(day, cur, m),
         NEW chunks \in Seq(Seq(Entry)), Lists(chunks, q, day, cur, d),
         NEW new, new = AddExpiryEntry(chunks, EntryOf(k, m)), m.expChunk = Len(new)
  PROVE  Lists(new, r, day, cur, d) /\ Len(new) >= Len(chunks) /\ Len(new) \in Nat
<1> DEFINE n == Len(chunks)
           e == EntryOf(k, m)
           at == m.expChunk
           Q(i) == DueIn(q, day, cur, d, i)
           R(i) == DueIn(r, day, cur, d, i)
<1>1. n \in Nat /\ DOMAIN chunks = 1 .. n /\ \A i \in 1 .. n : chunks[i] \in Seq(Entry)
  OBVIOUS
<1>2. k \notin DOMAIN q /\ DOMAIN r = DOMAIN q \cup {k} /\ r[k] = m /\ \A j \in DOMAIN q : r[j] = q[j]
  BY DEF Joined
<1>3. \A i : i # at => R(i) = Q(i)
  BY <1>2 DEF DueIn
<1>4. \A i : i = at => R(i) = Q(i) \cup {k} /\ k \notin Q(i)
  BY <1>2 DEF DueIn
<1>5. \A i : \A j \in Q(i) : j \in DOMAIN q
  BY DEF DueIn
<1> HIDE DEF Q, R, at, n, e
<1>6. ASSUME NEW i, i # at PROVE Entries(r, R(i)) = Entries(q, Q(i))
  <2>1. \A j \in Q(i) : EntryOf(j, r[j]) = EntryOf(j, q[j])
    BY <1>2, <1>5
  <2> QED BY <1>3, <1>6, <2>1 DEF Entries
<1>7. ASSUME NEW c \in Seq(Entry), Holds(c, Entries(q, Q(at)))
      PROVE  Holds(Append(c, e), Entries(r, R(at)))
  <2> DEFINE E == Entries(q, Q(at))
             F == Entries(r, R(at))
  <2>1. k \notin DOMAIN E /\ DOMAIN F = DOMAIN E \cup {k} /\ F[k] = e
    BY <1>2, <1>4 DEF Entries, e
  <2>2. \A j \in DOMAIN E : F[j] = E[j]
    BY <1>2, <1>4, <1>5 DEF Entries
  <2>3. e \in Entry /\ Holds(c, E)
    BY <1>7 DEF e
  <2> HIDE DEF E, F
  <2>4. Joined(E, k, e, F)
    BY <2>1, <2>2 DEF Joined
  <2>5. Holds(Append(c, e), F)
    BY <2>3, <2>4, ChunkMore
  <2> QED BY <2>5 DEF F
<1>8. CASE n > 0 /\ chunks[n] # <<>> /\ Len(chunks[n]) < ExpiryChunkSize
  <2> DEFINE c == Append(chunks[n], e)
  <2>1. new = [chunks EXCEPT ![n] = c]
    BY <1>8 DEF AddExpiryEntry, n, e
  <2>2. chunks[n] \in Seq(Entry) /\ n \in 1 .. n
    BY <1>1, <1>8
  <2> HIDE DEF c
  <2>3. DOMAIN new = 1 .. n /\ Len(new) = n /\ new[n] = c /\ \A i \in 1 .. n : i # n => new[i] = chunks[i]
    <3>1. Len(chunks) = n
      BY DEF n
    <3> QED BY <1>1, <2>1, <2>2, <3>1
  <2>4. at = n
    BY <2>3 DEF at
  <2>5. ASSUME NEW i \in 1 .. n PROVE Holds(new[i], Entries(r, R(i)))
    <3>1. Holds(chunks[i], Entries(q, Q(i)))
      BY <1>1 DEF Lists, Q
    <3>2. CASE i = n
      BY <1>7, <2>2, <2>3, <2>4, <3>1, <3>2 DEF c
    <3>3. CASE i # n
      BY <1>6, <2>3, <2>4, <3>1, <3>3
    <3> QED BY <3>2, <3>3
  <2>6. ASSUME NEW j \in DOMAIN r, MaturityDay(r[j]) = d, ~ Taken(day, cur, r[j])
        PROVE  r[j].expChunk \in 1 .. n
    BY <1>1, <1>2, <2>2, <2>4, <2>6 DEF Lists, at
  <2>7. Lists(new, r, day, cur, d)
    BY <2>3, <2>5, <2>6 DEF Lists, R
  <2>8. Len(new) >= n /\ Len(new) \in Nat
    BY <1>1, <2>3
  <2>9. Len(chunks) = n
    BY DEF n
  <2> QED BY <2>7, <2>8, <2>9
<1>9. CASE ~ (n > 0 /\ chunks[n] # <<>> /\ Len(chunks[n]) < ExpiryChunkSize)
  <2> DEFINE c == <<e>>
  <2>1. new = Append(chunks, c)
    BY <1>9 DEF AddExpiryEntry, n, e
  <2>2. c \in Seq(Entry) /\ c = Append(<<>>, e) /\ <<>> \in Seq(Entry)
    BY DEF e
  <2> HIDE DEF c
  <2>3. DOMAIN new = 1 .. n + 1 /\ Len(new) = n + 1 /\ new[n + 1] = c /\ \A i \in 1 .. n : new[i] = chunks[i]
    <3>1. Len(chunks) = n
      BY DEF n
    <3> QED BY <1>1, <2>1, <2>2, <3>1
  <2>4. at = n + 1
    BY <2>3 DEF at
  <2>5. Q(n + 1) = {}
    <3>1. \A j \in Q(n + 1) : j \in DOMAIN q /\ MaturityDay(q[j]) = d /\ ~ Taken(day, cur, q[j])
                                /\ q[j].expChunk = n + 1
      BY DEF Q, DueIn
    <3>2. \A j \in Q(n + 1) : n + 1 \in 1 .. n
      BY <1>1, <3>1 DEF Lists
    <3> QED BY <1>1, <3>2
  <2>6. Holds(<<>>, Entries(q, Q(n + 1)))
    <3>1. DOMAIN Entries(q, {}) = {}
      BY DEF Entries
    <3> QED BY <2>5, <3>1, ChunkEmpty
  <2>7. ASSUME NEW i \in 1 .. n + 1 PROVE Holds(new[i], Entries(r, R(i)))
    <3>1. CASE i = n + 1
      BY <1>7, <2>2, <2>3, <2>4, <2>6, <3>1
    <3>2. CASE i # n + 1
      <4>1. i \in 1 .. n
        BY <1>1, <3>2
      <4>2. Holds(chunks[i], Entries(q, Q(i)))
        BY <1>1, <4>1 DEF Lists, Q
      <4> QED BY <1>6, <2>3, <2>4, <3>2, <4>1, <4>2
    <3> QED BY <3>1, <3>2
  <2>8. ASSUME NEW j \in DOMAIN r, MaturityDay(r[j]) = d, ~ Taken(day, cur, r[j])
        PROVE  r[j].expChunk \in 1 .. n + 1
    <3>1. CASE j = k
      BY <1>1, <1>2, <2>4, <3>1 DEF at
    <3>2. CASE j # k
      <4>1. j \in DOMAIN q /\ r[j] = q[j]
        BY <1>2, <3>2
      <4>2. r[j].expChunk \in 1 .. n
        BY <1>1, <2>8, <4>1 DEF Lists
      <4> QED BY <1>1, <4>2
    <3> QED BY <3>1, <3>2
  <2>9. Lists(new, r, day, cur, d)
    BY <2>3, <2>7, <2>8 DEF Lists, R
  <2>10. Len(new) >= n /\ Len(new) \in Nat
    BY <1>1, <2>3
  <2>11. Len(chunks) = n
    BY DEF n
  <2> QED BY <2>9, <2>10, <2>11
<1> QED BY <1>8, <1>9

\* A list keeps its chunks when an entry is removed.
LEMMA ListKeeps ==
  ASSUME NEW chunks \in Seq(Seq(Entry)), NEW i, NEW e
  PROVE  Len(RemoveExpiryEntry(chunks, i, e)) = Len(chunks)
<1> DEFINE c == chunks[i]
           hits == {j \in DOMAIN c : c[j] = e}
           hit == CHOOSE j \in hits : \A k \in hits : j <= k
           rest == SubSeq(c, 1, hit - 1) \o SubSeq(c, hit + 1, Len(c))
           new == RemoveExpiryEntry(chunks, i, e)
<1>1. new = chunks \/ new = [chunks EXCEPT ![i] = rest]
  BY DEF RemoveExpiryEntry
<1> HIDE DEF rest, new
<1>2. CASE new = chunks
  BY <1>2 DEF new
<1>3. CASE new = [chunks EXCEPT ![i] = rest]
  <2>1. Len([chunks EXCEPT ![i] = rest]) = Len(chunks)
    OBVIOUS
  <2> QED BY <1>3, <2>1 DEF new
<1> QED BY <1>1, <1>2, <1>3

\* A position is removed from the list of its day (removeExpiryEntry).
LEMMA ListsLess ==
  ASSUME NEW q, Recorded(q), NEW k, NEW r, Parted(q, k, r),
         NEW d, MaturityDay(q[k]) = d, NEW day, NEW cur, ~ Taken(day, cur, q[k]),
         NEW chunks \in Seq(Seq(Entry)), Lists(chunks, q, day, cur, d),
         NEW new, new = RemoveExpiryEntry(chunks, q[k].expChunk, EntryOf(k, q[k]))
  PROVE  Lists(new, r, day, cur, d)
<1> DEFINE n == Len(chunks)
           e == EntryOf(k, q[k])
           at == q[k].expChunk
           Q(i) == DueIn(q, day, cur, d, i)
           R(i) == DueIn(r, day, cur, d, i)
           c == chunks[at]
           hits == {j \in DOMAIN c : c[j] = e}
           hit == CHOOSE j \in hits : \A i \in hits : j <= i
           rest == SubSeq(c, 1, hit - 1) \o SubSeq(c, hit + 1, Len(c))
           E == Entries(q, Q(at))
           F == Entries(r, R(at))
<1>1. n \in Nat /\ DOMAIN chunks = 1 .. n /\ \A i \in 1 .. n : chunks[i] \in Seq(Entry)
  OBVIOUS
<1>2. k \in DOMAIN q /\ DOMAIN r = DOMAIN q \ {k} /\ \A j \in DOMAIN r : r[j] = q[j]
  BY DEF Parted
<1>3. at \in 1 .. n /\ c \in Seq(Entry)
  BY <1>1, <1>2 DEF Lists
<1>4. k \in Q(at)
  BY <1>2 DEF DueIn
<1>5. Holds(c, E)
  BY <1>1, <1>3 DEF Lists
<1>6. \A i : i # at => R(i) = Q(i)
  BY <1>2 DEF DueIn
<1>7. R(at) = Q(at) \ {k}
  BY <1>2 DEF DueIn
<1>8. \A i : \A j \in R(i) : j \in DOMAIN r
  BY DEF DueIn
<1>9. DOMAIN E = Q(at) /\ E[k] = e
  BY <1>4 DEF Entries
<1>10. DOMAIN F = DOMAIN E \ {k} /\ \A j \in DOMAIN F : F[j] = E[j]
  <2>1. DOMAIN F = R(at)
    BY DEF Entries
  <2>2. \A j \in R(at) : F[j] = E[j]
    BY <1>2, <1>7, <1>8 DEF Entries
  <2> QED BY <1>7, <1>9, <2>1, <2>2
<1> HIDE DEF E, F, Q, R, n, at, e
<1>11. hits # {}
  <2>1. PICK p \in Bijection(DOMAIN E, DOMAIN c) : \A j \in DOMAIN E : c[p[j]] = E[j]
    BY <1>5 DEF Holds
  <2>2. p \in [DOMAIN E -> DOMAIN c]
    BY <2>1, BijectionIs
  <2> HIDE DEF c
  <2>3. p[k] \in DOMAIN c /\ c[p[k]] = e
    BY <1>4, <1>9, <2>1, <2>2
  <2> QED BY <2>3
<1>12. hit \in DOMAIN c /\ c[hit] = e
  <2>1. hits \subseteq Nat
    BY <1>3
  <2>2. \E j \in hits : \A i \in hits : j <= i
    <3> HIDE DEF hits
    <3> QED BY <1>11, <2>1, LeastExists
  <2>3. hit \in hits
    <3> HIDE DEF hits
    <3> QED BY <2>2
  <2> HIDE DEF hit
  <2> QED BY <2>3
<1>13. new = [chunks EXCEPT ![at] = rest]
  BY <1>1, <1>3, <1>11 DEF RemoveExpiryEntry, at, e
<1> HIDE DEF hit, hits
<1>14. Holds(rest, F)
  <2>1. k \in DOMAIN E /\ c[hit] = E[k]
    BY <1>4, <1>9, <1>12
  <2>2. Parted(E, k, F)
    BY <1>10, <2>1 DEF Parted
  <2> HIDE DEF c
  <2> QED BY <1>3, <1>5, <1>12, <2>1, <2>2, ChunkLess
<1> HIDE DEF rest, c
<1>15. DOMAIN new = 1 .. n /\ new[at] = rest /\ \A i \in 1 .. n : i # at => new[i] = chunks[i]
  BY <1>1, <1>3, <1>13
<1>16. ASSUME NEW i \in 1 .. n PROVE Holds(new[i], Entries(r, R(i)))
  <2>1. CASE i = at
    BY <1>14, <1>15, <2>1 DEF F
  <2>2. CASE i # at
    <3>1. Holds(chunks[i], Entries(q, Q(i)))
      BY <1>1 DEF Lists, Q
    <3>2. \A j \in R(i) : EntryOf(j, r[j]) = EntryOf(j, q[j])
      BY <1>2, <1>8
    <3>3. Entries(r, R(i)) = Entries(q, Q(i))
      BY <1>6, <2>2, <3>2 DEF Entries
    <3> QED BY <1>15, <2>2, <3>1, <3>3
  <2> QED BY <2>1, <2>2
<1>17. ASSUME NEW j \in DOMAIN r, MaturityDay(r[j]) = d, ~ Taken(day, cur, r[j])
       PROVE  r[j].expChunk \in 1 .. n
  <2>1. j \in DOMAIN q /\ r[j] = q[j]
    BY <1>2
  <2> QED BY <1>1, <1>17, <2>1 DEF Lists
<1> QED BY <1>15, <1>16, <1>17 DEF Lists, R, n

-----------------------------------------------------------------------------
(* The steps that add or remove one position.                              *)

\* From s to t and from positions q to r, only the vote of account a and the
\* list of day d changed, and both as they should.
Moved(s, t, q, r, d, a) ==
  LET day == s.acc_day
      cur == s.explCur[day]
  IN  /\ t.acc_day = day /\ t.explCur = s.explCur
      /\ \A b \in Accounts \ {a} : t.shr[b] = s.shr[b] /\ SameVoters(q, r, day, cur, b)
      /\ t.shr[a] = Total(SharesIn(r), VotersOf(r, day, cur, a))
      /\ \A x \in Days \ {d} : t.expl[x] = s.expl[x] /\ SameDue(q, r, day, cur, x)
      /\ Lists(t.expl[d], r, day, cur, d)
      /\ Len(t.expl[d]) \in Nat /\ Len(t.expl[d]) >= Len(s.expl[d])

\* One vote and one list changed, everything else stayed.
LEMMA MovedListed ==
  ASSUME NEW s, NEW q, Listed(s, q), NEW t \in Store, NEW r, Recorded(r),
         NEW d \in Days, NEW a \in Accounts, Moved(s, t, q, r, d, a)
  PROVE  Listed(t, r)
<1> DEFINE day == s.acc_day
           cur == s.explCur[day]
<1>1. /\ t.acc_day = day /\ t.explCur = s.explCur /\ t.explCur[day] = cur
      /\ \A b \in Accounts \ {a} : t.shr[b] = s.shr[b] /\ SameVoters(q, r, day, cur, b)
      /\ t.shr[a] = Total(SharesIn(r), VotersOf(r, day, cur, a))
      /\ \A x \in Days \ {d} : t.expl[x] = s.expl[x] /\ SameDue(q, r, day, cur, x)
      /\ Lists(t.expl[d], r, day, cur, d)
      /\ Len(t.expl[d]) \in Nat /\ Len(t.expl[d]) >= Len(s.expl[d])
  BY DEF Moved
<1>2. /\ s \in Store /\ Voting(s.shr, q, day, cur) /\ Listing(s.expl, q, day, cur)
      /\ \A x \in Days \ {day} : s.explCur[x] = 0
      /\ cur = 0 \/ cur < Len(s.expl[day])
  BY DEF Listed
<1>3. day \in Days /\ cur \in Nat /\ \A x \in Days : Len(s.expl[x]) \in Nat
  BY <1>2, StoreFields
<1> HIDE DEF day, cur
<1>4. Voting(t.shr, r, day, cur)
  <2> SUFFICES ASSUME NEW b \in Accounts
               PROVE  t.shr[b] = Total(SharesIn(r), VotersOf(r, day, cur, b))
    BY DEF Voting
  <2>1. CASE b = a
    BY <1>1, <2>1
  <2>2. CASE b # a
    <3>1. t.shr[b] = s.shr[b] /\ SameVoters(q, r, day, cur, b)
      BY <1>1, <2>2
    <3>2. s.shr[b] = Total(SharesIn(q), VotersOf(q, day, cur, b))
      BY <1>2 DEF Voting
    <3> QED BY <3>1, <3>2, VotersStay
  <2> QED BY <2>1, <2>2
<1>5. Listing(t.expl, r, day, cur)
  <2> SUFFICES ASSUME NEW x \in Days PROVE Lists(t.expl[x], r, day, cur, x)
    BY DEF Listing
  <2>1. CASE x = d
    BY <1>1, <2>1
  <2>2. CASE x # d
    <3>1. t.expl[x] = s.expl[x] /\ SameDue(q, r, day, cur, x)
      BY <1>1, <2>2
    <3>2. Lists(s.expl[x], q, day, cur, x)
      BY <1>2 DEF Listing
    <3> QED BY <3>1, <3>2, ListsStay
  <2> QED BY <2>1, <2>2
<1>6. cur = 0 \/ cur < Len(t.expl[day])
  <2>1. CASE day = d
    <3> DEFINE x == Len(t.expl[d])
               y == Len(s.expl[d])
    <3>1. x \in Nat /\ y \in Nat /\ x >= y /\ (cur = 0 \/ cur < y)
      BY <1>1, <1>2, <1>3, <2>1
    <3> HIDE DEF x, y
    <3>2. cur = 0 \/ cur < x
      BY <1>3, <3>1
    <3> QED BY <2>1, <3>2 DEF x
  <2>2. CASE day # d
    BY <1>1, <1>2, <1>3, <2>2
  <2> QED BY <2>1, <2>2
<1>7. \A x \in Days \ {day} : t.explCur[x] = 0
  BY <1>1, <1>2
<1> QED BY <1>1, <1>4, <1>5, <1>6, <1>7 DEF Listed

\* A list does not shrink by an entry added to it, and has a chunk then.
LEMMA ListGrows ==
  ASSUME NEW chunks \in Seq(Seq(Entry)), NEW e \in Entry,
         NEW new, new = AddExpiryEntry(chunks, e)
  PROVE  Len(new) \in Nat \ {0} /\ Len(new) >= Len(chunks)
<1> DEFINE n == Len(chunks)
           c == Append(chunks[n], e)
<1>1. n \in Nat
  OBVIOUS
<1>2. CASE n > 0 /\ chunks[n] # <<>> /\ Len(chunks[n]) < ExpiryChunkSize
  <2>1. new = [chunks EXCEPT ![n] = c]
    BY <1>2 DEF AddExpiryEntry
  <2> HIDE DEF c
  <2>2. Len(new) = n
    BY <2>1
  <2> QED BY <1>1, <1>2, <2>2
<1>3. CASE ~ (n > 0 /\ chunks[n] # <<>> /\ Len(chunks[n]) < ExpiryChunkSize)
  <2>1. new = Append(chunks, <<e>>)
    BY <1>3 DEF AddExpiryEntry
  <2>2. Len(new) = n + 1
    BY <2>1
  <2> QED BY <1>1, <2>2
<1> QED BY <1>2, <1>3

\* A new position votes and is listed from the start (registerMints).
LEMMA RegisterVotes ==
  ASSUME NEW s, NEW q, Listed(s, q), NEW a \in Accounts, NEW k, k[1] = a,
         NEW m, Staked(m), Earns(s, m), NEW r, Joined(q, k, m, r),
         m.expChunk = Len(AddExpiryEntry(s.expl[MaturityDay(m)], EntryOf(k, m)))
  PROVE  Listed(RegisterMint(s, a, m), r)
<1> DEFINE day    == s.acc_day
           cur    == s.explCur[day]
           d      == MaturityDay(m)
           e      == EntryOf(k, m)
           chunks == s.expl[d]
           new    == AddExpiryEntry(chunks, e)
           t      == RegisterMint(s, a, m)
<1>1. /\ s \in Store /\ Recorded(q) /\ Voting(s.shr, q, day, cur) /\ Listing(s.expl, q, day, cur)
      /\ cur = 0 \/ cur < Len(s.expl[day])
  BY DEF Listed
<1>2. /\ m.shares \in Nat /\ d \in Days /\ d \in Nat /\ Placed(m)
  BY HoldingFields DEF Staked
<1>3. /\ day \in Days /\ day \in Nat /\ cur \in Nat
      /\ s.shr \in [Accounts -> Nat] /\ s.expl \in [Days -> Seq(Seq(Entry))]
  BY <1>1, StoreFields
<1>4. t \in Store /\ t.acc_day = day
  BY <1>1, <1>2, RegisterMintFrame DEF SameYield
<1>5. /\ t.shr = [s.shr EXCEPT ![a] = @ + m.shares]
      /\ t.expl = [s.expl EXCEPT ![d] = new] /\ t.explCur = s.explCur
  <2>1. EntryOf(k, m) = [owner |-> a, shares |-> m.shares]
    BY DEF EntryOf
  <2>2. s.expl[d] = chunks
    OBVIOUS
  <2> HIDE DEF new
  <2>3. new = AddExpiryEntry(s.expl[d], [owner |-> a, shares |-> m.shares])
    BY <2>1 DEF new
  <2> HIDE DEF d
  <2> QED BY <1>1, <1>2, <1>3, <2>3 DEF RegisterMint, d, Store
<1>6. e \in Entry /\ chunks \in Seq(Seq(Entry))
  BY <1>2, <1>3 DEF EntryOf, Entry
<1>7. Lists(chunks, q, day, cur, d)
  BY <1>1, <1>2 DEF Listing
<1>8. d >= day /\ m.expChunk = Len(new)
  BY <1>2, <1>3 DEF Earns
<1> HIDE DEF e, t
<1>9. Len(new) \in Nat \ {0} /\ Len(new) >= Len(chunks) /\ Len(chunks) \in Nat
  <2>1. Len(new) \in Nat \ {0} /\ Len(new) >= Len(chunks)
    BY <1>6, ListGrows
  <2> HIDE DEF new, chunks
  <2>2. Len(chunks) \in Nat
    BY <1>6
  <2> QED BY <2>1, <2>2
<1>10. ~ Taken(day, cur, m)
  <2>1. CASE day = d
    <3> DEFINE x == Len(new)
               y == Len(chunks)
    <3>1. cur = 0 \/ cur < y
      BY <1>1, <2>1
    <3>2. x \in Nat \ {0} /\ y \in Nat /\ x >= y /\ m.expChunk = x
      BY <1>8, <1>9
    <3> HIDE DEF x, y, cur
    <3>3. ~ cur >= m.expChunk
      BY <1>3, <3>1, <3>2
    <3> HIDE DEF day
    <3> QED BY <1>2, <1>3, <2>1, <3>3 DEF Taken
  <2>2. CASE day # d
    <3> HIDE DEF day, d, cur
    <3>1. ~ day > d
      BY <1>2, <1>3, <1>8
    <3> QED BY <2>2, <3>1 DEF Taken, d
  <2> QED BY <2>1, <2>2
<1> HIDE DEF chunks, new, d, cur, day
<1>11. Lists(new, r, day, cur, d)
  BY <1>1, <1>6, <1>7, <1>8, <1>10, ListsMore DEF new, e, d
<1>12. Total(SharesIn(r), VotersOf(r, day, cur, a))
         = Total(SharesIn(q), VotersOf(q, day, cur, a)) + m.shares
  BY <1>1, <1>2, <1>10, VotesMore
<1>13. s.shr[a] = Total(SharesIn(q), VotersOf(q, day, cur, a))
  BY <1>1 DEF Voting
<1>14. t.shr[a] = Total(SharesIn(r), VotersOf(r, day, cur, a))
  BY <1>3, <1>5, <1>12, <1>13
<1>15. \A b \in Accounts \ {a} : t.shr[b] = s.shr[b] /\ SameVoters(q, r, day, cur, b)
  BY <1>3, <1>5, JoinedOthers
<1>16. \A x \in Days \ {d} : t.expl[x] = s.expl[x] /\ SameDue(q, r, day, cur, x)
  BY <1>3, <1>5, JoinedOthers DEF d
<1>17. t.expl[d] = new /\ s.expl[d] = chunks
  BY <1>2, <1>3, <1>5 DEF chunks
<1>18. Moved(s, t, q, r, d, a)
  BY <1>4, <1>5, <1>9, <1>11, <1>14, <1>15, <1>16, <1>17 DEF Moved, day, cur
<1>19. Recorded(r)
  <2>1. IsFiniteSet(DOMAIN q) /\ \A j \in DOMAIN q : j[1] \in Accounts /\ Staked(q[j]) /\ q[j].expChunk # 0
    BY <1>1 DEF Recorded
  <2>2. DOMAIN r = DOMAIN q \cup {k} /\ r[k] = m /\ \A j \in DOMAIN q : r[j] = q[j]
    BY DEF Joined
  <2>3. IsFiniteSet(DOMAIN r)
    BY <2>1, <2>2, FS_AddElement
  <2>4. m.expChunk # 0
    BY <1>8, <1>9
  <2>5. \A j \in DOMAIN r : j[1] \in Accounts /\ Staked(r[j]) /\ r[j].expChunk # 0
    BY <2>1, <2>2, <2>4
  <2> QED BY <2>3, <2>5 DEF Recorded
<1>20. Listed(t, r)
  BY <1>2, <1>4, <1>18, <1>19, MovedListed
<1> QED BY <1>20 DEF t

\* A position less leaves recorded positions.
LEMMA PartedRecorded ==
  ASSUME NEW q, Recorded(q), NEW k, NEW r, Parted(q, k, r)
  PROVE  Recorded(r)
<1>1. IsFiniteSet(DOMAIN q) /\ \A j \in DOMAIN q : j[1] \in Accounts /\ Staked(q[j]) /\ q[j].expChunk # 0
  BY DEF Recorded
<1>2. DOMAIN r \subseteq DOMAIN q /\ \A j \in DOMAIN r : r[j] = q[j]
  BY DEF Parted
<1>3. IsFiniteSet(DOMAIN r)
  BY <1>1, <1>2, FS_Subset
<1> QED BY <1>1, <1>2, <1>3 DEF Recorded

\* A new position records the chunk its entry goes into (registerMints).
LEMMA NewChunk ==
  ASSUME NEW s \in Store, NEW a \in Accounts, NEW principal \in Nat, NEW shares \in Nat,
         NEW start \in Heights, NEW days \in MinMintDays .. MaxMintDays,
         NEW k, k[1] = a, NEW m, m = NewMint(s, a, principal, shares, start, days)
  PROVE  m.expChunk = Len(AddExpiryEntry(s.expl[MaturityDay(m)], EntryOf(k, m)))
<1> DEFINE u == [principal |-> principal, shares |-> shares, start |-> start, days |-> days,
                 goodAccounting |-> FALSE, ended |-> FALSE, accStart |-> s.acc_per,
                 expChunk |-> 0]
           d == MaturityDay(u)
           n == Len(RegisterMint(s, a, u).expl[d])
<1>1. m = [u EXCEPT !.expChunk = n]
  BY DEF NewMint
<1> HIDE DEF n
<1>2. m.expChunk = n /\ m.shares = shares /\ m.start = u.start /\ m.days = u.days
  BY <1>1
<1>3. u.shares = shares /\ u.start = start /\ u.days = days
  OBVIOUS
<1> HIDE DEF u
<1>4. MaturityDay(m) = d
  BY <1>2 DEF MaturityDay, MaturityHeight
<1>5. d \in Days
  BY <1>3, MaturityInDays
<1> HIDE DEF d
<1>6. EntryOf(k, m) = [owner |-> a, shares |-> u.shares]
  BY <1>2, <1>3 DEF EntryOf
<1>7. RegisterMint(s, a, u).expl[d] = AddExpiryEntry(s.expl[d], EntryOf(k, m))
  <2> DEFINE new == AddExpiryEntry(s.expl[d], EntryOf(k, m))
  <2>1. s.expl \in [Days -> Seq(Seq(Entry))]
    BY StoreFields
  <2>2. new = AddExpiryEntry(s.expl[d], [owner |-> a, shares |-> u.shares])
    BY <1>6
  <2> HIDE DEF new
  <2>3. RegisterMint(s, a, u).expl = [s.expl EXCEPT ![d] = new]
    BY <1>5, <2>1, <2>2 DEF RegisterMint, d, Store
  <2>4. RegisterMint(s, a, u).expl[d] = new
    BY <1>5, <2>1, <2>3
  <2> QED BY <2>4 DEF new
<1> QED BY <1>2, <1>4, <1>7 DEF n

\* Releasing a position that votes takes its vote and its entry back.
LEMMA ReleaseListed ==
  ASSUME NEW s, NEW q, Listed(s, q), NEW a \in Accounts, NEW k, k[1] = a,
         NEW m, q[k] = m, NEW r, Parted(q, k, r), ~ Taken(s.acc_day, s.explCur[s.acc_day], m)
  PROVE  Listed(ReleaseVotes(s, a, m), r)
<1> DEFINE day    == s.acc_day
           cur    == s.explCur[day]
           d      == MaturityDay(m)
           chunks == s.expl[d]
           new    == RemoveExpiryEntry(chunks, m.expChunk, EntryOf(k, m))
           v      == s.shr[a]
           t      == ReleaseVotes(s, a, m)
<1>1. /\ s \in Store /\ Recorded(q) /\ Voting(s.shr, q, day, cur) /\ Listing(s.expl, q, day, cur)
  BY DEF Listed
<1>2. k \in DOMAIN q /\ DOMAIN r = DOMAIN q \ {k} /\ \A j \in DOMAIN r : r[j] = q[j]
  BY DEF Parted
<1>3. Staked(m)
  BY <1>1, <1>2 DEF Recorded
<1>4. /\ m.shares \in Nat /\ d \in Days /\ Placed(m) /\ m \in Mint
  BY <1>3, HoldingFields DEF Staked
<1>5. /\ day \in Days /\ day \in Nat /\ cur \in Nat
      /\ s.shr \in [Accounts -> Nat] /\ s.expl \in [Days -> Seq(Seq(Entry))]
  BY <1>1, StoreFields
<1>6. t \in Store /\ t.acc_day = day
  BY <1>1, <1>4, ReleaseVotesFrame DEF SameYield
<1>7. /\ t.shr = [s.shr EXCEPT ![a] = Monus(v, m.shares)]
      /\ t.expl = [s.expl EXCEPT ![d] = new] /\ t.explCur = s.explCur
  <2>1. EntryOf(k, m) = [owner |-> a, shares |-> m.shares]
    BY DEF EntryOf
  <2>2. s.expl[d] = chunks
    OBVIOUS
  <2> HIDE DEF new
  <2>3. new = RemoveExpiryEntry(s.expl[d], m.expChunk, [owner |-> a, shares |-> m.shares])
    BY <2>1 DEF new
  <2> HIDE DEF d
  <2> QED BY <1>1, <1>4, <1>5, <2>3 DEF ReleaseVotes, d, Store
<1>8. chunks \in Seq(Seq(Entry)) /\ Len(chunks) \in Nat
  <2>1. chunks \in Seq(Seq(Entry))
    BY <1>4, <1>5
  <2> HIDE DEF chunks
  <2> QED BY <2>1
<1>9. Lists(chunks, q, day, cur, d)
  BY <1>1, <1>4 DEF Listing
<1> HIDE DEF t
<1>10. ~ Taken(day, cur, q[k])
  OBVIOUS
<1> HIDE DEF chunks, new, d, cur, day
<1>11. Lists(new, r, day, cur, d) /\ Len(new) = Len(chunks)
  <2>1. MaturityDay(q[k]) = d /\ new = RemoveExpiryEntry(chunks, q[k].expChunk, EntryOf(k, q[k]))
    BY DEF d, new
  <2>2. Recorded(q) /\ chunks \in Seq(Seq(Entry))
    BY <1>1, <1>8
  <2>3. Lists(new, r, day, cur, d)
    BY <1>9, <1>10, <2>1, <2>2, ListsLess
  <2>4. Len(new) = Len(chunks)
    BY <2>2, ListKeeps DEF new
  <2> QED BY <2>3, <2>4
<1>12. /\ Total(SharesIn(r), VotersOf(r, day, cur, a))
            = Total(SharesIn(q), VotersOf(q, day, cur, a)) - m.shares
       /\ Total(SharesIn(q), VotersOf(q, day, cur, a)) \in Nat
       /\ Total(SharesIn(q), VotersOf(q, day, cur, a)) >= m.shares
  BY <1>1, <1>10, VotesLess
<1>13. v = Total(SharesIn(q), VotersOf(q, day, cur, a))
  BY <1>1 DEF Voting
<1>14. t.shr[a] = Total(SharesIn(r), VotersOf(r, day, cur, a))
  <2>1. t.shr[a] = Monus(v, m.shares)
    BY <1>5, <1>7
  <2> HIDE DEF v
  <2>2. Monus(v, m.shares) = v - m.shares
    BY <1>4, <1>12, <1>13 DEF Monus
  <2> QED BY <1>12, <1>13, <2>1, <2>2
<1>15. \A b \in Accounts \ {a} : t.shr[b] = s.shr[b] /\ SameVoters(q, r, day, cur, b)
  BY <1>5, <1>7, PartedOthers
<1>16. \A x \in Days \ {d} : t.expl[x] = s.expl[x] /\ SameDue(q, r, day, cur, x)
  BY <1>5, <1>7, PartedOthers DEF d
<1>17. t.expl[d] = new /\ s.expl[d] = chunks
  BY <1>4, <1>5, <1>7 DEF chunks
<1>18. Len(new) \in Nat /\ Len(new) >= Len(chunks)
  BY <1>8, <1>11
<1>19. Moved(s, t, q, r, d, a)
  BY <1>6, <1>7, <1>11, <1>14, <1>15, <1>16, <1>17, <1>18 DEF Moved, day, cur
<1>20. Recorded(r)
  BY <1>1, PartedRecorded
<1>21. Listed(t, r)
  BY <1>4, <1>6, <1>19, <1>20, MovedListed
<1> QED BY <1>21 DEF t

\* A position the walk has taken already leaves nothing behind.
LEMMA TakenListed ==
  ASSUME NEW s, NEW q, Listed(s, q), NEW k, NEW r, Parted(q, k, r),
         Taken(s.acc_day, s.explCur[s.acc_day], q[k])
  PROVE  Listed(s, r)
<1> DEFINE day == s.acc_day
           cur == s.explCur[day]
<1>1. /\ s \in Store /\ Recorded(q) /\ Voting(s.shr, q, day, cur) /\ Listing(s.expl, q, day, cur)
  BY DEF Listed
<1>2. /\ \A d : SameDue(q, r, day, cur, d)
      /\ \A a : SameVoters(q, r, day, cur, a)
  BY PartedOthers
<1> HIDE DEF day, cur
<1>3. Voting(s.shr, r, day, cur)
  BY <1>1, <1>2, VotersStay DEF Voting
<1>4. Listing(s.expl, r, day, cur)
  BY <1>1, <1>2, ListsStay DEF Listing
<1>5. Recorded(r)
  BY <1>1, PartedRecorded
<1> QED BY <1>1, <1>3, <1>4, <1>5 DEF Listed, day, cur

\* What closing a position leaves of votes and lists (endMint).
LEMMA ReleasedVotes ==
  ASSUME NEW s, NEW q, Listed(s, q), NEW a \in Accounts, NEW k, k[1] = a,
         NEW m, q[k] = m, NEW r, Parted(q, k, r),
         NEW accrued \in Nat, accrued <= s.pool_lshare
  PROVE  Listed(Released(s, a, m, accrued), r)
<1> DEFINE day     == MaturityDay(m)
           retired == s.acc_day > day
           p       == s.pool_lshare - accrued
           paid    == [s EXCEPT !.pool_lshare = p]
           skipped == retired \/ s.explCur[day] >= m.expChunk
           unvoted == IF skipped THEN paid ELSE ReleaseVotes(paid, a, m)
           closed  == [unvoted EXCEPT !.shares_total = @ - m.shares]
           due     == UnscheduleExpiry(closed, day, m.shares)
           t       == Released(s, a, m, accrued)
<1>1. /\ s \in Store /\ Recorded(q)
      /\ \A d \in Days \ {s.acc_day} : s.explCur[d] = 0
  BY DEF Listed
<1>2. k \in DOMAIN q
  BY DEF Parted
<1>3. /\ m.shares \in Nat /\ m.expChunk \in Nat \ {0} /\ day \in Days /\ day \in Nat
  BY <1>1, <1>2, RecordedTypes
<1>4. t = IF retired THEN unvoted ELSE due
  BY DEF Released
<1> HIDE DEF t
<1>5. s.acc_day \in Days /\ s.acc_day \in Nat /\ p \in Nat
  BY <1>1, StoreFields
<1>6. skipped <=> Taken(s.acc_day, s.explCur[s.acc_day], m)
  <2> DEFINE x == s.acc_day
             c == s.explCur[day]
  <2>1. c >= m.expChunk => day = x
    BY <1>1, <1>3
  <2>2. x = day => s.explCur[x] = c
    OBVIOUS
  <2> HIDE DEF x, c
  <2>3. skipped <=> x > day \/ (x = day /\ c >= m.expChunk)
    BY <2>1 DEF x, c
  <2>4. x > day \/ (x = day /\ c >= m.expChunk) <=> x > day \/ (x = day /\ s.explCur[x] >= m.expChunk)
    BY <2>2
  <2> QED BY <2>3, <2>4 DEF Taken, x
<1> HIDE DEF p, skipped
<1>7. SameVotes(s, paid)
  BY <1>1, <1>5 DEF SameVotes, Store
<1>8. Listed(paid, q)
  BY <1>7, SameVotesListed
<1>9. paid.acc_day = s.acc_day /\ paid.explCur = s.explCur
  BY <1>7 DEF SameVotes
<1> HIDE DEF paid, day
<1>10. Listed(unvoted, r)
  <2>1. CASE skipped
    <3>1. Taken(paid.acc_day, paid.explCur[paid.acc_day], q[k])
      BY <1>6, <1>9, <2>1
    <3>2. Listed(paid, r)
      BY <1>8, <3>1, TakenListed
    <3> QED BY <2>1, <3>2
  <2>2. CASE ~ skipped
    <3>1. ~ Taken(paid.acc_day, paid.explCur[paid.acc_day], m)
      BY <1>6, <1>9, <2>2
    <3>2. Listed(ReleaseVotes(paid, a, m), r)
      BY <1>8, <3>1, ReleaseListed
    <3> QED BY <2>2, <3>2
  <2> QED BY <2>1, <2>2
<1> HIDE DEF unvoted
<1>11. unvoted \in Store
  BY <1>10 DEF Listed
<1>12. SameVotes(unvoted, closed)
  <2> DEFINE n == unvoted.shares_total - m.shares
  <2>1. n \in Int /\ closed = [unvoted EXCEPT !.shares_total = n]
    BY <1>3, <1>11, StoreFields
  <2> HIDE DEF n
  <2> QED BY <1>11, <2>1 DEF SameVotes, Store
<1>13. Listed(closed, r)
  BY <1>10, <1>12, SameVotesListed
<1> HIDE DEF closed
<1>14. SameVotes(closed, due)
  <2>1. closed \in Store
    BY <1>12 DEF SameVotes
  <2>2. due \in Store
    BY <1>3, <2>1, UnscheduleExpiryFrame
  <2> QED BY <2>1, <2>2 DEF SameVotes, UnscheduleExpiry, Store
<1>15. Listed(due, r)
  BY <1>13, <1>14, SameVotesListed
<1> HIDE DEF due
<1> QED BY <1>4, <1>10, <1>15 DEF t

-----------------------------------------------------------------------------
(* The actions.                                                            *)

\* The inductive invariant.
VotesInv == BooksInv /\ Listed(store, Positions(mint))

VotesStay == Listed(store', Positions(mint'))

\* The walk that every ordinary call performs first.
LEMMA AccrueVotesNow ==
  ASSUME VotesInv
  PROVE  Listed(Accrue(store, height), Positions(mint))
<1>1. /\ Settled(store, height) /\ height \in Heights
  BY BooksRows DEF VotesInv
<1>2. MaxAccrualDays \in Int /\ UserRetireBudget \in Nat
  BY LasseMintAssumption
<1> QED BY <1>1, <1>2, AccrueVotes DEF VotesInv, Accrue

\* A call that only walks.
LEMMA WalkVotes ==
  ASSUME VotesInv, NEW n \in Int, NEW budget \in Nat,
         store' = AccrueWalk(store, height, n, budget), mint' = mint
  PROVE  VotesStay
<1>1. /\ Settled(store, height) /\ height \in Heights
  BY BooksRows DEF VotesInv
<1>2. Listed(AccrueWalk(store, height, n, budget), Positions(mint))
  BY <1>1, AccrueVotes DEF VotesInv
<1> QED BY <1>2 DEF VotesStay

\* A new position on the store s.
LEMMA NewPositionVotes ==
  ASSUME mint \in [Accounts -> Seq(Mint)], NEW s, Listed(s, Positions(mint)), NEW a \in Accounts,
         NEW principal \in Nat, NEW shares \in Nat \ {0}, NEW start \in Heights,
         NEW days \in MinMintDays .. MaxMintDays,
         NEW m, m = NewMint(s, a, principal, shares, start, days), Earns(s, m),
         mint' = [mint EXCEPT ![a] = Append(@, m)], store' = RegisterMint(s, a, m)
  PROVE  VotesStay
<1> DEFINE q == Positions(mint)
           r == Positions(mint')
           k == <<a, Len(mint[a]) + 1>>
<1>1. s \in Store
  BY DEF Listed
<1>2. Staked(m) /\ ~ m.ended
  BY <1>1, NewHolding
<1>3. Joined(q, k, m, r)
  BY <1>2, AppendPositions
<1>4. k[1] = a
  OBVIOUS
<1> HIDE DEF q, r, k
<1>5. m.expChunk = Len(AddExpiryEntry(s.expl[MaturityDay(m)], EntryOf(k, m)))
  BY <1>1, <1>4, NewChunk
<1>6. Listed(s, q)
  BY DEF q
<1>7. Listed(RegisterMint(s, a, m), r)
  BY <1>2, <1>3, <1>4, <1>5, <1>6, RegisterVotes
<1> QED BY <1>7 DEF VotesStay, r

\* The owner's migration of one account.
LEMMA CreditMigrationVotes ==
  ASSUME VotesInv, NEW a \in Accounts, CreditMigration(a)
  PROVE  VotesStay
<1> DEFINE staked == Snapshot[a].staked
           m      == NewMint(store, a, staked, staked, GenesisHeight, MigrationMintDays)
<1>1. staked \in Nat /\ GenesisHeight \in Heights /\ MigrationMintDays \in MinMintDays .. MaxMintDays
  BY LasseMintAssumption
<1>2. /\ store \in Store /\ Settled(store, height) /\ height \in Heights
      /\ mint \in [Accounts -> Seq(Mint)] /\ Listed(store, Positions(mint))
  BY BooksRows DEF VotesInv
<1>3. /\ store.settled <= GenesisHeight
      /\ IF staked > 0
         THEN /\ mint' = [mint EXCEPT ![a] = Append(@, m)]
              /\ store' = RegisterMint(store, a, m)
         ELSE UNCHANGED <<mint, store>>
  BY DEF CreditMigration
<1> HIDE DEF staked
<1>4. CASE staked > 0
  <2>1. staked \in Nat \ {0}
    BY <1>1, <1>4
  <2>2. Placed(m)
    BY <1>1, <1>2, <2>1, NewHolding
  <2>3. mint' = [mint EXCEPT ![a] = Append(@, m)] /\ store' = RegisterMint(store, a, m)
    BY <1>3, <1>4
  <2>4. store.acc_day = 0
    BY <1>2, <1>3, WalkAtGenesis
  <2>5. m = NewMint(store, a, staked, staked, GenesisHeight, MigrationMintDays)
    OBVIOUS
  <2> HIDE DEF m
  <2>6. Earns(store, m)
    BY <1>2, <2>2, <2>4, EarnsFromNow
  <2> QED BY <1>1, <1>2, <2>1, <2>3, <2>5, <2>6, NewPositionVotes
<1>5. CASE ~ (staked > 0)
  BY <1>2, <1>3, <1>5 DEF VotesStay
<1> QED BY <1>4, <1>5

\* A mint: the walk first, then the position.
LEMMA CreateMintVotes ==
  ASSUME VotesInv, NEW a \in Accounts, NEW p \in Principals, NEW d \in Durations,
         CreateMint(a, p, d)
  PROVE  VotesStay
<1> DEFINE s      == Accrue(store, height)
           params == [volumeStart |-> VolumeStart, volumeEnd |-> VolumeEnd,
                      shareRate |-> ShareRate(height)]
           shares == ComputeShares(p, d, params)
           m      == NewMint(s, a, p, shares, height, d)
<1>1. /\ p \in Nat /\ d \in MinMintDays .. MaxMintDays /\ shares > 0
      /\ mint' = [mint EXCEPT ![a] = Append(@, m)]
      /\ store' = RegisterMint(s, a, m)
  BY LasseMintAssumption DEF CreateMint, MayMint
<1>2. height \in Heights /\ height \in Nat /\ mint \in [Accounts -> Seq(Mint)]
  BY BooksRows DEF VotesInv
<1>3. Settled(s, height) /\ s \in Store
  BY AccrueBooksNow DEF VotesInv
<1>4. Listed(s, Positions(mint))
  BY AccrueVotesNow
<1>5. shares \in Nat \ {0}
  <2>1. params.volumeStart \in Nat /\ params.volumeEnd \in Nat
        /\ params.shareRate \in Nat \ {0}
    BY <1>2, LasseMintAssumption, ShareRatePositive
  <2>2. d \in Nat
    BY <1>1, EngineAssumption
  <2> HIDE DEF params
  <2>3. shares \in Nat
    BY <1>1, <2>1, <2>2, ComputeSharesNat
  <2> QED BY <1>1, <2>3
<1>6. m = NewMint(s, a, p, shares, height, d)
  OBVIOUS
<1> HIDE DEF s, shares
<1>7. Placed(m) /\ m.start = height
  BY <1>1, <1>2, <1>3, <1>5, NewHolding
<1> HIDE DEF m
<1>8. Earns(s, m)
  <2>1. m.start >= height
    BY <1>2, <1>7
  <2> QED BY <1>2, <1>3, <1>7, <2>1, EarnsFromNow
<1> QED BY <1>1, <1>2, <1>4, <1>5, <1>6, <1>8, NewPositionVotes

\* Arming changes nothing that votes or lists speak of.
LEMMA ArmVotes ==
  ASSUME VotesInv, NEW a \in Accounts, NEW id \in DOMAIN mint[a], ArmGoodAccounting(a, id)
  PROVE  VotesStay
<1> DEFINE m     == mint[a][id]
           armed == [m EXCEPT !.goodAccounting = TRUE]
           q     == Positions(mint)
           r     == Positions(mint')
           k     == <<a, id>>
           day   == store.acc_day
           cur   == store.explCur[day]
<1>1. mint' = [mint EXCEPT ![a][id] = armed] /\ ~ m.ended /\ store' = store
  BY DEF ArmGoodAccounting, CanArmGoodAccounting
<1>2. /\ mint \in [Accounts -> Seq(Mint)] /\ store \in Store /\ Recorded(q)
      /\ Voting(store.shr, q, day, cur) /\ Listing(store.expl, q, day, cur) /\ Listed(store, q)
  BY BooksRows DEF VotesInv, Listed
<1>3. m \in Mint
  <2>1. mint[a] \in Seq(Mint)
    BY <1>2
  <2> QED BY <2>1
<1> HIDE DEF m
<1>4. /\ armed \in Mint /\ ~ armed.ended /\ armed.shares = m.shares
      /\ armed.start = m.start /\ armed.days = m.days /\ armed.expChunk = m.expChunk
  BY <1>1, <1>3 DEF Mint
<1> HIDE DEF armed
<1>5. /\ k \in DOMAIN q /\ q[k] = m /\ DOMAIN r = DOMAIN q /\ r[k] = armed
      /\ \A j \in DOMAIN q \ {k} : r[j] = q[j]
  <2>1. Replaced(q, k, m, armed, r)
    BY <1>1, <1>2, ReplacePositions DEF m
  <2> HIDE DEF q, r, k
  <2> QED BY <1>4, <2>1 DEF Replaced
<1> HIDE DEF q, r, k, day, cur
<1>6. \A j \in DOMAIN q : j[1] \in Accounts /\ Staked(q[j]) /\ q[j].expChunk # 0
  BY <1>2 DEF Recorded
<1>7. Staked(armed)
  <2>1. Staked(m)
    BY <1>5, <1>6
  <2> QED BY <1>4, <2>1 DEF Staked, Placed
<1>8. \A j \in DOMAIN q :
        /\ Staked(r[j]) /\ r[j].shares = q[j].shares /\ r[j].expChunk = q[j].expChunk
        /\ MaturityDay(r[j]) = MaturityDay(q[j])
  <2> TAKE j \in DOMAIN q
  <2>1. CASE j = k
    <3>1. MaturityDay(armed) = MaturityDay(m)
      BY <1>4 DEF MaturityDay, MaturityHeight
    <3> QED BY <1>4, <1>5, <1>7, <2>1, <3>1
  <2>2. CASE j # k
    BY <1>5, <1>6, <2>2
  <2> QED BY <2>1, <2>2
<1>9. Recorded(r)
  BY <1>2, <1>5, <1>6, <1>8 DEF Recorded
<1>10. \A j \in DOMAIN q : Taken(day, cur, r[j]) <=> Taken(day, cur, q[j])
  BY <1>8 DEF Taken
<1>11. \A d : SameDue(q, r, day, cur, d)
  BY <1>5, <1>8, <1>10 DEF SameDue
<1>12. \A b : SameVoters(q, r, day, cur, b)
  BY <1>5, <1>8, <1>10 DEF SameVoters
<1>13. Voting(store.shr, r, day, cur)
  <2> SUFFICES ASSUME NEW b \in Accounts
               PROVE  store.shr[b] = Total(SharesIn(r), VotersOf(r, day, cur, b))
    BY DEF Voting
  <2>1. store.shr[b] = Total(SharesIn(q), VotersOf(q, day, cur, b))
    BY <1>2 DEF Voting
  <2>2. SameVoters(q, r, day, cur, b)
    BY <1>12
  <2> QED BY <2>1, <2>2, VotersStay
<1>14. Listing(store.expl, r, day, cur)
  BY <1>2, <1>11, ListsStay DEF Listing
<1>15. Listed(store, r)
  BY <1>2, <1>9, <1>13, <1>14 DEF Listed, day, cur
<1> QED BY <1>1, <1>15 DEF VotesStay, r

\* Recycling touches neither votes nor lists.
LEMMA RecycleRows ==
  ASSUME NEW s \in Store, NEW amount
  PROVE  /\ Recycle(s, amount).acc_day = s.acc_day /\ Recycle(s, amount).shr = s.shr
         /\ Recycle(s, amount).expl = s.expl /\ Recycle(s, amount).explCur = s.explCur
BY DEF Recycle, Store

\* A gift to a pool (FundPool).
LEMMA FundPoolVotes ==
  ASSUME VotesInv, NEW a \in Accounts, NEW f \in Funding, FundPool(a, f[1], f[2])
  PROVE  VotesStay
<1> DEFINE target == f[1]
           amount == f[2]
           all    == Split(amount)
           pob    == CASE target = "pob" -> amount [] target = "all" -> all.pob [] OTHER -> 0
           viral  == SplitPoB(pob).viral
           recycled == CASE target = "lshare" -> amount [] target = "all" -> all.lshare
                         [] OTHER -> 0
           x      == store.pool_viral + viral + (IF target = "viral" THEN amount ELSE 0)
           y      == store.pool_deep + (pob - viral) + (IF target = "deep" THEN amount ELSE 0)
           z      == store.pool_liq + (CASE target = "liquidity" -> amount
                                         [] target = "all" -> all.liquidity [] OTHER -> 0)
           given  == [store EXCEPT !.pool_viral = x, !.pool_deep = y, !.pool_liq = z]
<1>1. store' = Recycle(given, recycled) /\ mint' = mint
  BY DEF FundPool
<1>2. store' \in Store
  BY FundPoolBooks DEF VotesInv, BooksStay, Sound
<1>3. store \in Store /\ Listed(store, Positions(mint))
  BY DEF VotesInv, Listed
<1>4. store.pool_viral \in Nat /\ store.pool_deep \in Nat /\ store.pool_liq \in Nat
  BY <1>3, StoreFields
<1>5. amount \in Nat
  BY LasseMintAssumption
<1> HIDE DEF target, amount
<1>6. all.lshare \in Nat /\ all.liquidity \in Nat /\ all.pob \in Nat
  BY <1>5, SplitExact
<1> HIDE DEF all
<1>7. pob \in Nat
  BY <1>5, <1>6
<1> HIDE DEF pob, recycled
<1>8. viral \in Nat /\ pob - viral \in Nat
  BY <1>7, SplitPoBExact
<1> HIDE DEF viral
<1>9. x \in Nat /\ y \in Nat /\ z \in Nat
  BY <1>4, <1>5, <1>6, <1>8
<1> HIDE DEF x, y, z
<1>10. /\ given \in Store /\ given.acc_day = store.acc_day /\ given.shr = store.shr
       /\ given.expl = store.expl /\ given.explCur = store.explCur
  BY <1>3, <1>9 DEF Store
<1> HIDE DEF given
<1>11. SameVotes(store, store')
  BY <1>1, <1>2, <1>10, RecycleRows DEF SameVotes
<1> QED BY <1>1, <1>3, <1>11, SameVotesListed DEF VotesStay

\* A claim, an early end or a sweep (endMint).
LEMMA EndMintVotes ==
  ASSUME VotesInv, NEW a \in Accounts, NEW id \in DOMAIN mint[a], NEW sweep,
         EndMint(a, id, sweep)
  PROVE  VotesStay
<1> DEFINE m         == mint[a][id]
           s         == Accrue(store, height)
           day       == MaturityDay(m)
           accEnd    == IF IsMature(m, height) THEN s.accAt[day] ELSE s.acc_per
           e         == Entitlement(m.shares, m.accStart, accEnd)
           accrued   == AtMost(e, s.pool_lshare)
           rest      == SettleMint(m, height, accrued).toRewardPool
           released  == Released(s, a, m, accrued)
           ended     == [m EXCEPT !.ended = TRUE]
           q         == Positions(mint)
           r         == Positions(mint')
           k         == <<a, id>>
<1>1. ~ m.ended /\ mint' = [mint EXCEPT ![a][id] = ended]
  BY DEF EndMint
<1>2. store' = Recycle(released, rest)
  BY DEF EndMint, Released
<1>3. store' \in Store
  BY EndMintBooks DEF VotesInv, BooksStay, Sound
<1>4. /\ mint \in [Accounts -> Seq(Mint)] /\ height \in Heights
      /\ Listed(s, q)
  BY BooksRows, AccrueVotesNow DEF VotesInv
<1>5. m \in Mint
  <2>1. mint[a] \in Seq(Mint)
    BY <1>4
  <2> QED BY <2>1
<1>6. ended.ended
  <2> HIDE DEF m
  <2> QED BY <1>5 DEF Mint
<1>7. Replaced(q, k, m, ended, r)
  BY <1>1, <1>4, ReplacePositions
<1>8. k[1] = a
  OBVIOUS
<1> HIDE DEF m, q, r, k, ended
<1>9. Parted(q, k, r) /\ q[k] = m
  BY <1>6, <1>7 DEF Replaced, Parted
<1>10. /\ m.shares \in Nat /\ m.accStart \in Nat /\ day \in Days
       /\ s \in Store /\ s.pool_lshare \in Nat /\ s.accAt \in [Days -> Nat] /\ s.acc_per \in Nat
  <2>1. s \in Store /\ Recorded(q)
    BY <1>4 DEF Listed
  <2>2. Staked(m)
    BY <1>9, <2>1 DEF Recorded, Parted
  <2> QED BY <2>1, <2>2, HoldingFields, StoreFields
<1> HIDE DEF s
<1>11. accrued \in Nat /\ accrued <= s.pool_lshare
  <2>1. accEnd \in Nat
    BY <1>10
  <2>2. e \in Nat
    <3> HIDE DEF accEnd
    <3>1. accEnd <= accEnd
      BY <2>1
    <3> QED BY <1>10, <2>1, <3>1, EntitlementMono
  <2> HIDE DEF e, accEnd
  <2> QED BY <1>10, <2>2 DEF AtMost
<1> HIDE DEF accrued, rest
<1>12. Listed(released, r)
  BY <1>4, <1>8, <1>9, <1>11, ReleasedVotes
<1> HIDE DEF released
<1>13. SameVotes(released, store')
  <2>1. released \in Store
    BY <1>12 DEF Listed
  <2> QED BY <1>2, <1>3, <2>1, RecycleRows DEF SameVotes
<1>14. Listed(store', r)
  BY <1>12, <1>13, SameVotesListed
<1> QED BY <1>14 DEF VotesStay, r

-----------------------------------------------------------------------------
(* The theorem.                                                            *)

\* Nobody votes before the first call.
LEMMA InitVotes == Init => VotesInv
<1> SUFFICES ASSUME Init PROVE VotesInv
  OBVIOUS
<1> DEFINE q == Positions(mint)
           day == store.acc_day
           cur == store.explCur[day]
<1>1. BooksInv
  BY InitBooks
<1>2. store \in Store
  BY <1>1, BooksRows
<1>3. /\ \A d \in Days : store.explCur[d] = 0 /\ store.expl[d] = <<>>
      /\ \A a \in Accounts : store.shr[a] = 0 /\ mint[a] = <<>>
  BY DEF Init
<1>4. DOMAIN q = {}
  <2>1. LiveOf(mint) = {}
    <3>1. \A a \in Accounts : DOMAIN mint[a] = {}
      BY <1>3
    <3> QED BY <3>1 DEF LiveOf
  <2> QED BY <2>1 DEF Positions
<1>5. cur = 0
  BY <1>2, <1>3, StoreFields
<1> HIDE DEF q, day, cur
<1>6. Recorded(q)
  BY <1>4, FS_EmptySet DEF Recorded
<1>7. Voting(store.shr, q, day, cur)
  <2> SUFFICES ASSUME NEW a \in Accounts
               PROVE  store.shr[a] = Total(SharesIn(q), VotersOf(q, day, cur, a))
    BY DEF Voting
  <2>1. VotersOf(q, day, cur, a) = {}
    BY <1>4 DEF VotersOf
  <2> QED BY <1>3, <2>1, TotalEmpty
<1>8. Listing(store.expl, q, day, cur)
  <2> SUFFICES ASSUME NEW d \in Days PROVE Lists(store.expl[d], q, day, cur, d)
    BY DEF Listing
  <2>1. store.expl[d] = <<>> /\ DOMAIN <<>> = {}
    BY <1>3
  <2> QED BY <1>4, <2>1 DEF Lists
<1>9. Listed(store, q)
  BY <1>2, <1>3, <1>5, <1>6, <1>7, <1>8 DEF Listed, day, cur
<1> QED BY <1>1, <1>9 DEF VotesInv, q

\* Every step keeps votes and lists together.
LEMMA NextVotes == VotesInv /\ [Next]_vars => VotesInv'
<1> SUFFICES ASSUME VotesInv, [Next]_vars PROVE VotesInv'
  OBVIOUS
<1>1. BooksInv'
  BY NextBooks DEF VotesInv
<1>2. ASSUME UNCHANGED <<store, mint>> PROVE VotesStay
  BY <1>2 DEF VotesInv, VotesStay
<1>3. ASSUME Settle PROVE VotesStay
  <2>1. MaxAccrualDays \in Int /\ UserRetireBudget \in Nat
    BY LasseMintAssumption
  <2> QED BY <1>3, <2>1, WalkVotes DEF Settle, Accrue
<1>4. ASSUME NEW n \in AdvanceSteps, Advance(n) PROVE VotesStay
  <2>1. n \in Int /\ MaxRetirePerWalk \in Nat
    BY LasseMintAssumption
  <2> QED BY <1>4, <2>1, WalkVotes DEF Advance, AccrueSteps
<1>5. ASSUME NEW a \in Accounts, CreditMigration(a) PROVE VotesStay
  BY <1>5, CreditMigrationVotes
<1>6. ASSUME NEW a \in Accounts, NEW p \in Principals, NEW d \in Durations, CreateMint(a, p, d)
      PROVE  VotesStay
  BY <1>6, CreateMintVotes
<1>7. ASSUME NEW a \in Accounts, NEW id \in DOMAIN mint[a], ClaimMint(a, id) \/ SweepMint(a, id)
      PROVE  VotesStay
  BY <1>7, EndMintVotes DEF ClaimMint, SweepMint
<1>8. ASSUME NEW a \in Accounts, NEW id \in DOMAIN mint[a], ArmGoodAccounting(a, id)
      PROVE  VotesStay
  BY <1>8, ArmVotes
<1>9. ASSUME NEW a \in Accounts, NEW f \in Funding, FundPool(a, f[1], f[2])
      PROVE  VotesStay
  BY <1>9, FundPoolVotes
<1>10. ASSUME Tick \/ UNCHANGED vars PROVE VotesStay
  BY <1>2, <1>10 DEF Tick, vars
<1>11. VotesStay
  BY <1>3, <1>4, <1>5, <1>6, <1>7, <1>8, <1>9, <1>10 DEF Next
<1> QED BY <1>1, <1>11 DEF VotesInv, VotesStay

\* The invariant in the words of the properties.
LEMMA VotersVote == VotesInv => VotesEndAtMaturity
<1> SUFFICES ASSUME VotesInv, NEW a \in Accounts
             PROVE  store.shr[a] = SharesOf({k \in LiveIds : k[1] = a /\ ~ Unvoted(M(k))})
  BY DEF VotesEndAtMaturity
<1> DEFINE q == Positions(mint)
           day == store.acc_day
           cur == store.explCur[day]
           V == {k \in LiveIds : k[1] = a /\ ~ Unvoted(M(k))}
           f == [k \in V |-> M(k).shares]
           g == SharesIn(q)
<1>1. LiveIds = DOMAIN q /\ \A k \in LiveIds : q[k] = M(k)
  BY OpenPosition DEF VotesInv
<1>2. store.shr[a] = Total(g, VotersOf(q, day, cur, a))
  BY DEF VotesInv, Listed, Voting
<1>3. \A k : Unvoted(M(k)) <=> Taken(day, cur, M(k))
  BY DEF Unvoted, Retired, Taken
<1> HIDE DEF q, day, cur
<1>4. V = VotersOf(q, day, cur, a)
  BY <1>1, <1>3 DEF VotersOf
<1>5. \A k \in V : f[k] = g[k]
  BY <1>1 DEF SharesIn
<1> HIDE DEF V, f, g
<1>6. Total(f, V) = Total(g, V)
  BY <1>5, TotalSame
<1> QED BY <1>2, <1>4, <1>6 DEF SharesOf, V, f

\* The same for the lists, counted as the property counts them.
LEMMA ListsMatch == VotesInv => ExpiryListsMatchMints
<1> SUFFICES ASSUME VotesInv, NEW d \in Days
             PROVE  LET due    == {k \in LiveIds : MaturityDay(M(k)) = d /\ ~ Unvoted(M(k))}
                        chunks == store.expl[d]
                    IN  \A i \in DOMAIN chunks \union {M(k).expChunk : k \in due} :
                          LET chunk == IF i \in DOMAIN chunks THEN chunks[i] ELSE <<>>
                              mine  == {k \in due : M(k).expChunk = i}
                          IN  /\ Len(chunk) = Cardinality(mine)
                              /\ \A k \in mine :
                                   LET same(e) == e = [owner |-> k[1], shares |-> M(k).shares]
                                   IN  Cardinality({j \in DOMAIN chunk : same(chunk[j])})
                                         = Cardinality({l \in mine : same([owner  |-> l[1],
                                                                            shares |-> M(l).shares])})
  BY DEF ExpiryListsMatchMints
<1> DEFINE q == Positions(mint)
           day == store.acc_day
           cur == store.explCur[day]
           due == {k \in LiveIds : MaturityDay(M(k)) = d /\ ~ Unvoted(M(k))}
           chunks == store.expl[d]
<1>1. LiveIds = DOMAIN q /\ \A k \in LiveIds : q[k] = M(k)
  BY OpenPosition DEF VotesInv
<1>2. /\ store \in Store /\ Recorded(q) /\ Lists(chunks, q, day, cur, d)
  BY DEF VotesInv, Listed, Listing
<1>3. \A k : Unvoted(M(k)) <=> Taken(day, cur, M(k))
  BY DEF Unvoted, Retired, Taken
<1>4. chunks \in Seq(Seq(Entry)) /\ IsFiniteSet(DOMAIN q)
  BY <1>2, StoreFields DEF Recorded
<1> HIDE DEF q, day, cur, chunks
<1>5. \A k : k \in due <=> k \in DOMAIN q /\ MaturityDay(q[k]) = d /\ ~ Taken(day, cur, q[k])
  BY <1>1, <1>3
<1>6. \A k \in due : q[k] = M(k) /\ M(k).expChunk \in DOMAIN chunks
  BY <1>1, <1>2, <1>5 DEF Lists
<1> HIDE DEF due
<1>7. ASSUME NEW i \in DOMAIN chunks \union {M(k).expChunk : k \in due}
      PROVE  LET chunk == IF i \in DOMAIN chunks THEN chunks[i] ELSE <<>>
                 mine  == {k \in due : M(k).expChunk = i}
             IN  /\ Len(chunk) = Cardinality(mine)
                 /\ \A k \in mine :
                      LET same(e) == e = [owner |-> k[1], shares |-> M(k).shares]
                      IN  Cardinality({j \in DOMAIN chunk : same(chunk[j])})
                            = Cardinality({l \in mine : same([owner  |-> l[1],
                                                               shares |-> M(l).shares])})
  <2> DEFINE c == IF i \in DOMAIN chunks THEN chunks[i] ELSE <<>>
             mine == {k \in due : M(k).expChunk = i}
             E == Entries(q, mine)
  <2>1. i \in DOMAIN chunks /\ c = chunks[i]
    BY <1>6, <1>7
  <2>2. mine = DueIn(q, day, cur, d, i)
    <3>1. \A k : k \in mine <=> k \in DOMAIN q /\ MaturityDay(q[k]) = d /\ ~ Taken(day, cur, q[k])
                                  /\ q[k].expChunk = i
      BY <1>5, <1>6, <1>7
    <3> HIDE DEF mine
    <3> QED BY <3>1 DEF DueIn
  <2>3. \A k \in mine : k \in due
    OBVIOUS
  <2> HIDE DEF c, mine
  <2>4. Holds(c, E) /\ c \in Seq(Entry)
    BY <1>2, <1>4, <2>1, <2>2 DEF Lists
  <2>5. DOMAIN E = mine /\ IsFiniteSet(mine)
    <3>1. mine \subseteq DOMAIN q
      BY <2>2 DEF DueIn
    <3> QED BY <1>4, <3>1, FS_Subset DEF Entries
  <2>6. \A l \in mine : E[l] = [owner |-> l[1], shares |-> M(l).shares]
    BY <1>6, <2>3 DEF Entries, EntryOf
  <2> HIDE DEF E
  <2>7. /\ Len(c) = Cardinality(mine)
        /\ \A e : Cardinality({j \in DOMAIN c : c[j] = e}) = Cardinality({l \in mine : E[l] = e})
    BY <2>4, <2>5, ChunkCounts, ZenonT(60)
  <2>8. \A k \in mine :
          Cardinality({j \in DOMAIN c : c[j] = [owner |-> k[1], shares |-> M(k).shares]})
            = Cardinality({l \in mine : [owner |-> l[1], shares |-> M(l).shares]
                                         = [owner |-> k[1], shares |-> M(k).shares]})
    <3> TAKE k \in mine
    <3> DEFINE e == [owner |-> k[1], shares |-> M(k).shares]
    <3>1. {l \in mine : E[l] = e} = {l \in mine : [owner |-> l[1], shares |-> M(l).shares] = e}
      BY <2>6
    <3> HIDE DEF e
    <3>2. Cardinality({j \in DOMAIN c : c[j] = e})
            = Cardinality({l \in mine : [owner |-> l[1], shares |-> M(l).shares] = e})
      BY <2>7, <3>1
    <3> QED BY <3>2 DEF e
  <2> QED BY <2>7, <2>8 DEF c, mine
<1> QED BY <1>7 DEF due, chunks

\* Both, and the denominator.
LEMMA VotesTell ==
  ASSUME VotesInv
  PROVE  VotesMatchLists
BY VotersVote, ListsMatch, DenominatorHolds DEF VotesInv, VotesMatchLists

(* What earns, what votes and the lists by which the walk takes both back  *)
(* agree with the open mints, entry by entry, at every point at which a    *)
(* walk can stop (accrual.go, endMint).                                    *)
THEOREM VotesMatch == Spec => []VotesMatchLists
<1>1. Spec => []VotesInv
  BY InitVotes, NextVotes, PTL DEF Spec
<1> QED BY <1>1, VotesTell, PTL

-----------------------------------------------------------------------------
(* A walk in slices.                                                       *)

\* The turns of drainExpiryList's loop, and the state it starts in.
DrainTurn(chunks) ==
  [r \in DrainState |->
     IF r.cur >= Len(chunks) \/ r.budget < Len(chunks[r.cur + 1]) THEN r
     ELSE [shr    |-> Retire(r.shr, chunks[r.cur + 1]),
           budget |-> r.budget - Len(chunks[r.cur + 1]),
           cur    |-> r.cur + 1]]

DrainFirst(w) ==
  [shr |-> w.store.shr, budget |-> w.budget, cur |-> w.store.explCur[w.store.acc_day]]

LEMMA DrainIs ==
  ASSUME NEW w \in WalkState, NEW chunks, chunks = w.store.expl[w.store.acc_day],
         NEW last \in DrainState, last = Iterate(DrainTurn(chunks), DrainFirst(w), Len(chunks))
  PROVE  DrainExpiryList(w) = Drained(w, last)
<1> DEFINE day == w.store.acc_day
           leave == [r \in DrainState |->
                   LET fin == r.cur >= Len(chunks)
                   IN  [w EXCEPT
                          !.store.shr = r.shr,
                          !.store.expl[day] =
                             IF fin THEN <<>>
                             ELSE [i \in 1 .. Len(chunks) |->
                                     IF i <= r.cur THEN <<>> ELSE chunks[i]],
                          !.store.explCur[day] = IF fin THEN 0 ELSE r.cur,
                          !.budget = r.budget,
                          !.stopped = ~ fin]]
<1>1. DrainExpiryList(w) = leave[Iterate(DrainTurn(chunks), DrainFirst(w), Len(chunks))]
  BY DEF DrainExpiryList, DrainTurn, DrainFirst
<1>2. leave[last] = Drained(w, last)
  BY DEF Drained, Leftover
<1> HIDE DEF leave
<1> QED BY <1>1, <1>2

\* The positions whose votes the walk has not taken.
Untaken(q, day, cur) == {k \in DOMAIN q : ~ Taken(day, cur, q[k])}

\* A budget for them all.
Ample(budget, q, day, cur) == budget \in Nat /\ Cardinality(Untaken(q, day, cur)) <= budget

\* With an ample budget no chunk is too long, and what is left of the budget
\* is ample for the chunks and days behind it.
LEMMA ChunkAfforded ==
  ASSUME NEW q, Recorded(q), NEW day \in Days, NEW cur \in Nat, NEW c \in Nat, c >= cur,
         NEW chunk \in Seq(Entry), Holds(chunk, Entries(q, DueIn(q, day, cur, day, c + 1))),
         NEW budget, Ample(budget, q, day, c)
  PROVE  Len(chunk) <= budget /\ Ample(budget - Len(chunk), q, day, c + 1)
<1> DEFINE D == DueIn(q, day, cur, day, c + 1)
           U == Untaken(q, day, c)
           V == Untaken(q, day, c + 1)
<1>1. \A k \in DOMAIN q : q[k].expChunk \in Nat \ {0} /\ MaturityDay(q[k]) \in Nat
  BY RecordedTypes
<1>2. day \in Nat
  BY DEF Days
<1>3. \A k \in DOMAIN q : k \in D <=> MaturityDay(q[k]) = day /\ q[k].expChunk = c + 1
  BY <1>1, <1>2 DEF DueIn, Taken
<1>4. \A k \in DOMAIN q : (k \in U <=> ~ Taken(day, c, q[k])) /\ (k \in V <=> ~ Taken(day, c + 1, q[k]))
  BY DEF Untaken
<1>5. D \subseteq DOMAIN q /\ U \subseteq DOMAIN q /\ V \subseteq DOMAIN q
  BY DEF DueIn, Untaken
<1> HIDE DEF D, U, V
<1>6. \A k \in DOMAIN q : k \in U <=> k \in V \/ k \in D
  <2>1. \A k \in DOMAIN q : ~ Taken(day, c, q[k]) <=>
           ~ Taken(day, c + 1, q[k]) \/ (MaturityDay(q[k]) = day /\ q[k].expChunk = c + 1)
    BY <1>1, <1>2 DEF Taken
  <2> QED BY <1>3, <1>4, <2>1
<1>7. \A k \in DOMAIN q : ~ (k \in V /\ k \in D)
  <2>1. \A k \in DOMAIN q : MaturityDay(q[k]) = day /\ q[k].expChunk = c + 1 => Taken(day, c + 1, q[k])
    BY <1>1, <1>2 DEF Taken
  <2> QED BY <1>3, <1>4, <2>1
<1>8. U = V \cup D /\ V \cap D = {} /\ IsFiniteSet(V) /\ IsFiniteSet(D) /\ IsFiniteSet(U)
  BY <1>5, <1>6, <1>7, FS_Subset DEF Recorded
<1>9. Cardinality(U) = Cardinality(V) + Cardinality(D) - Cardinality(V \cap D)
  BY <1>8, FS_Union
<1>10. Cardinality(V \cap D) = 0 /\ Cardinality(V) \in Nat /\ Cardinality(D) \in Nat
  BY <1>8, FS_EmptySet, FS_CardinalityType
<1>11. Len(chunk) = Cardinality(D)
  <2>1. DOMAIN Entries(q, D) = D
    BY DEF Entries
  <2>2. IsFiniteSet(DOMAIN Entries(q, D)) /\ Holds(chunk, Entries(q, D))
    BY <1>8, <2>1 DEF D
  <2> QED BY <2>1, <2>2, ChunkCounts
<1>12. budget \in Nat /\ Cardinality(U) <= budget
  BY DEF Ample, U
<1> QED BY <1>9, <1>10, <1>11, <1>12 DEF Ample, V

\* The states of a drain that the budget suffices for.
Afforded(q, day, cur) == {r \in DrainState : r.cur >= cur /\ Ample(r.budget, q, day, r.cur)}

\* With an ample budget every chunk is taken, and no vote depends on how ample
\* it was.
LEMMA FullDrain ==
  ASSUME NEW w \in WalkState, NEW v \in WalkState, SameVotes(w.store, v.store),
         NEW q, Listed(w.store, q), NEW day, day = w.store.acc_day,
         Ample(w.budget, q, day, w.store.explCur[day]), Ample(v.budget, q, day, w.store.explCur[day])
  PROVE  \E r \in DrainState, t \in DrainState :
           /\ DrainExpiryList(w) = Drained(w, r) /\ DrainExpiryList(v) = Drained(v, t)
           /\ r.shr = t.shr /\ r.cur = t.cur /\ r.cur >= Len(w.store.expl[day])
           /\ Ample(r.budget, q, day, r.cur)
<1> DEFINE chunks == w.store.expl[day]
           cur == w.store.explCur[day]
           gap == v.budget - w.budget
           X == {r \in Afforded(q, day, cur) : Ample(r.budget + gap, q, day, r.cur)}
           image == [r \in X |-> [shr |-> r.shr, budget |-> r.budget + gap, cur |-> r.cur]]
           turn == DrainTurn(chunks)
           first == DrainFirst(w)
           n == Len(chunks)
           last == Iterate(turn, first, n)
<1>1. /\ w.store \in Store /\ day \in Days /\ cur \in Nat /\ chunks \in Seq(Seq(Entry))
      /\ w.budget \in Nat /\ v.budget \in Nat /\ w.store.shr \in [Accounts -> Nat]
  BY DEF WalkState, Store
<1>2. gap \in Int /\ w.budget + gap = v.budget /\ n \in Nat /\ DOMAIN chunks = 1 .. n
      /\ \A i \in 1 .. n : chunks[i] \in Seq(Entry) /\ Len(chunks[i]) \in Nat
  <2>1. gap \in Int /\ w.budget + gap = v.budget
    BY <1>1
  <2> HIDE DEF gap, chunks
  <2>2. n \in Nat /\ DOMAIN chunks = 1 .. n /\ \A i \in 1 .. n : chunks[i] \in Seq(Entry)
    BY <1>1
  <2>3. \A i \in 1 .. n : Len(chunks[i]) \in Nat
    BY <2>2
  <2> QED BY <2>1, <2>2, <2>3
<1>3. DrainFirst(v) = [shr |-> w.store.shr, budget |-> v.budget, cur |-> cur]
      /\ v.store.expl[v.store.acc_day] = chunks
  BY DEF DrainFirst, SameVotes
<1>4. first \in X /\ image[first] = DrainFirst(v)
  <2>1. first = [shr |-> w.store.shr, budget |-> w.budget, cur |-> cur]
    BY DEF DrainFirst
  <2>2. first \in DrainState /\ Ample(w.budget, q, day, cur) /\ Ample(w.budget + gap, q, day, cur)
    BY <1>1, <1>2, <2>1 DEF DrainState
  <2> HIDE DEF first, gap, cur
  <2>3. first \in X
    BY <1>1, <2>1, <2>2 DEF Afforded
  <2> QED BY <1>2, <1>3, <2>1, <2>3
<1>5. Recorded(q) /\ Lists(chunks, q, day, cur, day)
  BY <1>1 DEF Listed, Listing
<1>6. \A r \in DrainState : turn[r] = IF r.cur >= n \/ r.budget < Len(chunks[r.cur + 1]) THEN r
                                      ELSE [shr    |-> Retire(r.shr, chunks[r.cur + 1]),
                                            budget |-> r.budget - Len(chunks[r.cur + 1]),
                                            cur    |-> r.cur + 1]
  BY DEF DrainTurn
<1> HIDE DEF turn, chunks, cur, gap, n
<1>7. ASSUME NEW r \in X, ~ r.cur >= n
      PROVE  LET chunk == chunks[r.cur + 1]
             IN  /\ Retire(r.shr, chunk) \in [Accounts -> Nat]
                 /\ \A b : Ample(b, q, day, r.cur) =>
                            Len(chunk) <= b /\ Ample(b - Len(chunk), q, day, r.cur + 1)
  <2>1. r \in DrainState /\ r.cur \in Nat /\ r.cur >= cur /\ r.shr \in [Accounts -> Nat]
    BY DEF Afforded, DrainState
  <2>2. r.cur + 1 \in DOMAIN chunks
    BY <1>2, <1>7, <2>1
  <2> DEFINE chunk == chunks[r.cur + 1]
  <2>3. chunk \in Seq(Entry) /\ Holds(chunk, Entries(q, DueIn(q, day, cur, day, r.cur + 1)))
    BY <1>2, <1>5, <2>2 DEF Lists
  <2>4. Retire(r.shr, chunk) \in [Accounts -> Nat]
    BY <2>1, <2>3, RetireType
  <2> HIDE DEF chunk
  <2>5. ASSUME NEW b, Ample(b, q, day, r.cur)
        PROVE  Len(chunk) <= b /\ Ample(b - Len(chunk), q, day, r.cur + 1)
    BY <1>1, <1>5, <2>1, <2>3, <2>5, ChunkAfforded
  <2> QED BY <2>4, <2>5, Zenon DEF chunk
<1>8. \A r \in X : turn[r] \in X /\ turn[image[r]] = image[turn[r]]
  <2> SUFFICES ASSUME NEW r \in X PROVE turn[r] \in X /\ turn[image[r]] = image[turn[r]]
    OBVIOUS
  <2> DEFINE z == image[r]
  <2>1. r \in DrainState /\ r.cur \in Nat /\ r.cur >= cur /\ r.budget \in Nat /\ r.budget + gap \in Nat
        /\ r.shr \in [Accounts -> Nat]
    BY DEF Afforded, DrainState, Ample
  <2>0. PICK total \in Nat : total = r.budget + gap
    BY <2>1
  <2>2. z = [shr |-> r.shr, budget |-> total, cur |-> r.cur]
    BY <2>0
  <2>6. Ample(r.budget, q, day, r.cur) /\ Ample(total, q, day, r.cur)
    BY <2>0 DEF Afforded
  <2>3. z \in DrainState
    BY <2>1, <2>2 DEF DrainState
  <2>4. CASE r.cur >= n
    <3>1. turn[r] = r /\ turn[z] = z
      BY <1>6, <2>1, <2>2, <2>3, <2>4
    <3> QED BY <3>1
  <2>5. CASE ~ r.cur >= n
    <3> DEFINE chunk == chunks[r.cur + 1]
               paid  == Retire(r.shr, chunk)
               len   == Len(chunk)
               left  == r.budget - len
               more  == total - len
    <3>1. /\ paid \in [Accounts -> Nat]
          /\ len <= r.budget /\ Ample(left, q, day, r.cur + 1)
          /\ len <= total /\ Ample(more, q, day, r.cur + 1)
      BY <1>7, <2>5, <2>6, Zenon
    <3>2. len \in Nat
      BY <1>2, <2>1, <2>5
    <3>3. \A y \in DrainState : y.cur = r.cur /\ ~ y.budget < len =>
             turn[y] = [shr |-> Retire(y.shr, chunk), budget |-> y.budget - len, cur |-> r.cur + 1]
      BY <1>6, <2>5
    <3> HIDE DEF chunk, len, turn, z, image
    <3>4. turn[r] = [shr |-> paid, budget |-> left, cur |-> r.cur + 1]
      BY <2>1, <3>1, <3>2, <3>3
    <3>5. turn[z] = [shr |-> paid, budget |-> more, cur |-> r.cur + 1]
      BY <2>2, <2>3, <3>1, <3>2, <3>3
    <3>10. left \in Nat /\ more \in Nat /\ left + gap = more
      BY <1>2, <2>0, <2>1, <3>1, <3>2, SMTT(60)
    <3>6. turn[r] \in DrainState
      BY <2>1, <3>1, <3>10, <3>4 DEF DrainState
    <3> HIDE DEF left, more, paid
    <3>7. turn[r] \in X
      BY <1>1, <2>1, <3>1, <3>10, <3>4, <3>6 DEF Afforded
    <3>8. image[turn[r]] = [shr |-> turn[r].shr, budget |-> turn[r].budget + gap, cur |-> turn[r].cur]
      BY <3>7 DEF image
    <3>9. image[turn[r]] = turn[z]
      BY <3>10, <3>4, <3>5, <3>8
    <3> QED BY <3>7, <3>9 DEF z
  <2> QED BY <2>4, <2>5
<1> HIDE DEF first, X, image
<1>9. last \in X /\ Iterate(turn, DrainFirst(v), n) = image[last]
  <2>1. first \in X /\ n \in Nat /\ (\A y \in X : turn[y] \in X) /\ (\A y \in X : turn[image[y]] = image[turn[y]])
    BY <1>2, <1>4, <1>8
  <2>2. Iterate(turn, first, n) \in X
    BY <2>1, IterateLoop
  <2>3. Iterate(turn, image[first], n) = image[Iterate(turn, first, n)]
    BY <2>1, IterateMaps, SMTT(60)
  <2> QED BY <1>4, <2>2, <2>3
<1>10. last.cur >= n
  <2> DEFINE S == {i \in Nat : LET r == Iterate(turn, first, i) IN r.cur >= i \/ r.cur >= n}
  <2>1. /\ Iterate(turn, first, 0) = first
        /\ \A i \in Nat : Iterate(turn, first, i + 1) = turn[Iterate(turn, first, i)]
        /\ \A i \in Nat : Iterate(turn, first, i) \in X
    BY <1>4, <1>8, IterateLoop
  <2>2. \A r \in X : r \in DrainState /\ r.cur \in Nat
    BY DEF X, Afforded, DrainState
  <2>3. 0 \in S
    BY <1>4, <2>1, <2>2
  <2>4. \A i \in S : i + 1 \in S
    <3> SUFFICES ASSUME NEW i \in S PROVE i + 1 \in S
      OBVIOUS
    <3> DEFINE r == Iterate(turn, first, i)
    <3>1. i \in Nat /\ (r.cur >= i \/ r.cur >= n)
      OBVIOUS
    <3>2. r \in X /\ r \in DrainState /\ r.cur \in Nat /\ Iterate(turn, first, i + 1) = turn[r]
      BY <2>1, <2>2, <3>1
    <3> HIDE DEF r
    <3>3. CASE r.cur >= n
      <4>1. turn[r] = r
        BY <1>6, <3>2, <3>3
      <4> QED BY <3>1, <3>2, <3>3, <4>1
    <3>4. CASE ~ r.cur >= n
      <4> DEFINE chunk == chunks[r.cur + 1]
      <4>1. Len(chunk) <= r.budget
        <5>1. Ample(r.budget, q, day, r.cur)
          BY <3>2 DEF X, Afforded
        <5> QED BY <1>7, <3>2, <3>4, <5>1
      <4>2. ~ r.budget < Len(chunk)
        <5>1. Len(chunk) \in Nat /\ r.budget \in Nat
          BY <1>2, <3>2, <3>4 DEF DrainState
        <5> QED BY <4>1, <5>1
      <4>3. turn[r] = [shr |-> Retire(r.shr, chunk), budget |-> r.budget - Len(chunk), cur |-> r.cur + 1]
        BY <1>6, <3>2, <3>4, <4>2
      <4>4. turn[r].cur >= i + 1
        BY <3>1, <3>2, <3>4, <4>3, <1>2
      <4> QED BY <3>1, <3>2, <4>4
    <3> QED BY <3>3, <3>4
  <2>5. S = Nat
    <3> HIDE DEF S
    <3>1. S \subseteq Nat
      BY DEF S
    <3> QED BY <2>3, <2>4, <3>1, SetInduction
  <2>6. n \in S
    BY <1>2, <2>5
  <2> QED BY <2>6
<1>11. last \in DrainState /\ Ample(last.budget, q, day, last.cur) /\ image[last].shr = last.shr
        /\ image[last].cur = last.cur /\ image[last] \in DrainState
  <2>1. last \in DrainState /\ Ample(last.budget, q, day, last.cur) /\ last.budget + gap \in Nat
    BY <1>9 DEF X, Afforded, Ample
  <2>2. image[last] = [shr |-> last.shr, budget |-> last.budget + gap, cur |-> last.cur]
    BY <1>9 DEF image
  <2> HIDE DEF last
  <2> QED BY <2>1, <2>2 DEF DrainState
<1>12. DrainExpiryList(w) = Drained(w, last)
  <2>1. chunks = w.store.expl[w.store.acc_day]
    BY DEF chunks
  <2> QED BY <1>11, <2>1, DrainIs DEF turn, first, n
<1>13. DrainExpiryList(v) = Drained(v, image[last])
  <2> DEFINE l == image[last]
  <2>1. l = Iterate(turn, DrainFirst(v), n) /\ l \in DrainState
    BY <1>9, <1>11
  <2> HIDE DEF l, last
  <2> QED BY <1>3, <2>1, DrainIs DEF turn, n, l
<1> HIDE DEF last
<1> QED BY <1>10, <1>11, <1>12, <1>13 DEF n, chunks

-----------------------------------------------------------------------------
\* Stores that agree row by row are one.
LEMMA SameStore ==
  ASSUME NEW s \in Store, NEW t \in Store,
         s.acc_per = t.acc_per, s.acc_held = t.acc_held, s.acc_day = t.acc_day,
         s.settled = t.settled, s.shares_total = t.shares_total, s.shr = t.shr,
         s.exp = t.exp, s.accAt = t.accAt, s.expl = t.expl, s.explCur = t.explCur,
         s.sup_emitted = t.sup_emitted, s.pool_lshare = t.pool_lshare,
         s.pool_viral = t.pool_viral, s.pool_deep = t.pool_deep, s.pool_liq = t.pool_liq
  PROVE  s = t
<1>1. s = [acc_per |-> s.acc_per, acc_held |-> s.acc_held, acc_day |-> s.acc_day, settled
          |-> s.settled, shares_total |-> s.shares_total, shr |-> s.shr, exp |-> s.exp,
          accAt |-> s.accAt, expl |-> s.expl, explCur |-> s.explCur, sup_emitted |->
          s.sup_emitted, pool_lshare |-> s.pool_lshare, pool_viral |-> s.pool_viral,
          pool_deep |-> s.pool_deep, pool_liq |-> s.pool_liq]
  BY Zenon DEF Store
<1>2. t = [acc_per |-> t.acc_per, acc_held |-> t.acc_held, acc_day |-> t.acc_day, settled
          |-> t.settled, shares_total |-> t.shares_total, shr |-> t.shr, exp |-> t.exp,
          accAt |-> t.accAt, expl |-> t.expl, explCur |-> t.explCur, sup_emitted |->
          t.sup_emitted, pool_lshare |-> t.pool_lshare, pool_viral |-> t.pool_viral,
          pool_deep |-> t.pool_deep, pool_liq |-> t.pool_liq]
  BY Zenon DEF Store
<1> QED BY <1>1, <1>2

\* What is divided among the pools comes out even for a multiple of eight.
LEMMA EightsSplit ==
  ASSUME NEW e \in Nat
  PROVE  /\ Split(8 * e).lshare = 2 * e /\ Split(8 * e).liquidity = 2 * e /\ Split(8 * e).pob = 4 * e
         /\ SplitPoB(4 * e).viral = e /\ SplitPoB(4 * e).deep = 3 * e
<1>1. MulDiv(8 * e, 25, 100) = 2 * e
  <2>1. (8 * e) * 25 = 100 * (2 * e) + 0 /\ (8 * e) * 25 \in Nat /\ 2 * e \in Nat
    OBVIOUS
  <2> DEFINE p == (8 * e) * 25
             c == 2 * e
  <2> HIDE DEF p, c
  <2>2. p \div 100 = c
    BY <2>1, QuotientIs DEF p, c
  <2> QED BY <2>2 DEF MulDiv, p, c
<1>2. MulDiv(4 * e, 25, 100) = e
  <2>1. (4 * e) * 25 = 100 * e + 0 /\ (4 * e) * 25 \in Nat
    OBVIOUS
  <2> DEFINE p == (4 * e) * 25
  <2> HIDE DEF p
  <2>2. p \div 100 = e
    BY <2>1, QuotientIs DEF p
  <2> QED BY <2>2 DEF MulDiv, p
<1>3. 8 * e - 2 * e - 2 * e = 4 * e /\ 4 * e - e = 3 * e
  OBVIOUS
<1> QED BY <1>1, <1>2, <1>3 DEF Split, SplitPoB

\* A day's emission is a multiple of eight.
LEMMA DayInEights ==
  ASSUME NEW d \in Nat
  PROVE  \E e \in Nat : EmissionBetween(HeightOfDay(d), HeightOfDay(d + 1)) = 8 * e
<1> DEFINE amount == EmissionBetween(HeightOfDay(d), HeightOfDay(d + 1))
           g == HeightsPerDay \div 8
<1>1. PICK R \in Nat : amount = R * HeightsPerDay
  BY DayIsUniform
<1>2. g \in Nat /\ HeightsPerDay = 8 * g
  <2>1. HeightsPerDay \in Nat /\ HeightsPerDay % 8 = 0 /\ 8 \in Nat \ {0}
    BY EngineAssumption
  <2> QED BY <2>1
<1> HIDE DEF amount, g
<1>3. R * g \in Nat /\ R * HeightsPerDay = 8 * (R * g)
  BY <1>2, ProductNat
<1> QED BY <1>1, <1>3 DEF amount

\* The rows CreditWalk leaves, for an emission of eight times e.
Credited(t, w, e) ==
  /\ t \in Store
  /\ t.acc_per = w.store.acc_per /\ t.acc_held = w.store.acc_held /\ t.acc_day = w.store.acc_day
  /\ t.settled = HeightOfDay(w.store.acc_day) /\ t.shares_total = w.store.shares_total
  /\ t.shr = w.store.shr /\ t.exp = w.store.exp /\ t.accAt = w.store.accAt
  /\ t.expl = w.store.expl /\ t.explCur = w.store.explCur
  /\ t.sup_emitted = w.store.sup_emitted + 8 * e
  /\ t.pool_lshare = w.store.pool_lshare + w.lshare
  /\ t.pool_viral = w.store.pool_viral + e /\ t.pool_deep = w.store.pool_deep + 3 * e
  /\ t.pool_liq = w.store.pool_liq + 2 * e

LEMMA CreditRows ==
  ASSUME NEW w \in WalkState, NEW e \in Nat, w.emitted = 8 * e
  PROVE  Credited(CreditWalk[w], w, e)
<1> PICK t : t = CreditWalk[w]
  OBVIOUS
<1> DEFINE s == w.store
           settled == HeightOfDay(s.acc_day)
<1>1. s \in Store /\ w.lshare \in Nat
  BY DEF WalkState
<1>2. t = [s EXCEPT !.sup_emitted = @ + 8 * e, !.pool_viral = @ + e, !.pool_deep = @ + 3 * e,
                    !.pool_liq = @ + 2 * e, !.pool_lshare = @ + w.lshare, !.settled = settled]
  <2> DEFINE alloc == Split(w.emitted)
             pob == SplitPoB(alloc.pob)
  <2>1. t = [s EXCEPT !.sup_emitted = @ + w.emitted, !.pool_viral = @ + pob.viral,
                      !.pool_deep = @ + pob.deep, !.pool_liq = @ + alloc.liquidity,
                      !.pool_lshare = @ + w.lshare, !.settled = settled]
    BY DEF CreditWalk
  <2>2. alloc.liquidity = 2 * e /\ pob.viral = e /\ pob.deep = 3 * e
    BY EightsSplit
  <2> HIDE DEF alloc, pob, s, settled
  <2> QED BY <2>1, <2>2
<1>3. settled \in Nat
  BY <1>1, StoreFields, HeightOfDayNat
<1> HIDE DEF settled
<1> DEFINE a == 8 * e
           b == 3 * e
           c == 2 * e
<1>4. a \in Nat /\ b \in Nat /\ c \in Nat
  OBVIOUS
<1>5. t = [s EXCEPT !.sup_emitted = @ + a, !.pool_viral = @ + e, !.pool_deep = @ + b,
                    !.pool_liq = @ + c, !.pool_lshare = @ + w.lshare, !.settled = settled]
  BY <1>2
<1> HIDE DEF s, a, b, c
<1>6. t \in Store
  <2> DEFINE emitted == s.sup_emitted + a
             viral   == s.pool_viral + e
             deep    == s.pool_deep + b
             liq     == s.pool_liq + c
             lshare  == s.pool_lshare + w.lshare
  <2>1. emitted \in Nat /\ viral \in Nat /\ deep \in Nat /\ liq \in Nat /\ lshare \in Nat
    <3>1. /\ s.sup_emitted \in Nat /\ s.pool_viral \in Nat /\ s.pool_deep \in Nat
          /\ s.pool_liq \in Nat /\ s.pool_lshare \in Nat
      BY <1>1, StoreFields
    <3> QED BY <1>1, <1>4, <3>1
  <2>2. t = [s EXCEPT !.sup_emitted = emitted, !.pool_viral = viral, !.pool_deep = deep,
                      !.pool_liq = liq, !.pool_lshare = lshare, !.settled = settled]
    BY <1>5
  <2> HIDE DEF emitted, viral, deep, liq, lshare
  <2> QED BY <1>1, <1>3, <2>1, <2>2, ZenonT(60) DEF Store
<1>7. /\ t.acc_per = s.acc_per /\ t.acc_held = s.acc_held /\ t.acc_day = s.acc_day
      /\ t.settled = settled /\ t.shares_total = s.shares_total
      /\ t.shr = s.shr /\ t.exp = s.exp /\ t.accAt = s.accAt
      /\ t.expl = s.expl /\ t.explCur = s.explCur
      /\ t.sup_emitted = s.sup_emitted + a
      /\ t.pool_lshare = s.pool_lshare + w.lshare
      /\ t.pool_viral = s.pool_viral + e /\ t.pool_deep = s.pool_deep + b
      /\ t.pool_liq = s.pool_liq + c
  BY <1>1, <1>5 DEF Store
<1> QED BY <1>6, <1>7 DEF s, a, b, c, settled, Credited

\* A store after its day was drained and closed, with the votes the drain left.
DayDone(s, shr) ==
  LET day    == s.acc_day
      amount == EmissionBetween(HeightOfDay(day), HeightOfDay(day + 1))
      step   == AccumulatorStep(s.acc_per, Split(amount).lshare, s.acc_held, s.shares_total)
      nobody == s.exp[day] = 0
  IN  [s EXCEPT !.shr = shr, !.expl[day] = <<>>, !.explCur[day] = 0,
                !.acc_per = step.acc, !.acc_held = step.held,
                !.shares_total = IF nobody THEN @ ELSE Monus(@, s.exp[day]),
                !.exp[day] = 0,
                !.accAt[day] = IF nobody THEN @ ELSE step.acc,
                !.acc_day = day + 1]

\* Draining a list to its end and closing the day.
LEMMA DoneIs ==
  ASSUME NEW w \in WalkState, NEW r \in DrainState, r.cur >= Len(w.store.expl[w.store.acc_day]),
         NEW amount, amount = EmissionBetween(HeightOfDay(w.store.acc_day), HeightOfDay(w.store.acc_day + 1))
  PROVE  /\ ~ Drained(w, r).stopped
         /\ CloseDay(Drained(w, r))
              = [store |-> DayDone(w.store, r.shr), emitted |-> w.emitted + amount,
                 lshare |-> w.lshare + Split(amount).lshare, budget |-> r.budget, stopped |-> FALSE]
<1> DEFINE s == w.store
           day == s.acc_day
           chunks == s.expl[day]
           u == Drained(w, r)
           t == [s EXCEPT !.shr = r.shr, !.expl[day] = <<>>, !.explCur[day] = 0]
<1>1. s \in Store /\ day \in Days
  BY DEF WalkState, Store
<1>2. u = [w EXCEPT !.store = t, !.budget = r.budget, !.stopped = FALSE]
  <2>1. Leftover(chunks, r.cur) = <<>>
    BY DEF Leftover
  <2>2. u = [w EXCEPT !.store.shr = r.shr, !.store.expl[day] = Leftover(chunks, r.cur),
                      !.store.explCur[day] = IF r.cur >= Len(chunks) THEN 0 ELSE r.cur,
                      !.budget = r.budget, !.stopped = ~ (r.cur >= Len(chunks))]
    BY DEF Drained
  <2> HIDE DEF u
  <2>3. u = [w EXCEPT !.store.shr = r.shr, !.store.expl[day] = <<>>, !.store.explCur[day] = 0,
                      !.budget = r.budget, !.stopped = FALSE]
    BY <2>1, <2>2
  <2> QED BY <2>3 DEF WalkState, Store
<1> HIDE DEF u
<1>3. u.store = t /\ u.emitted = w.emitted /\ u.lshare = w.lshare /\ u.budget = r.budget /\ u.stopped = FALSE
  <2> HIDE DEF t
  <2> QED BY <1>2 DEF WalkState
<1> DEFINE step == AccumulatorStep(s.acc_per, Split(amount).lshare, s.acc_held, s.shares_total)
           per == step.acc
           held == step.held
           paid == [t EXCEPT !.acc_per = per, !.acc_held = held]
           x == ExpireDay(paid, day)
<1>4. t.acc_day = day /\ t.acc_per = s.acc_per /\ t.acc_held = s.acc_held /\ t.shares_total = s.shares_total
      /\ t.exp = s.exp /\ t.accAt = s.accAt
  BY <1>1 DEF Store
<1>5. CloseDay(u) = [store |-> [x EXCEPT !.acc_day = day + 1], emitted |-> w.emitted + amount,
                     lshare |-> w.lshare + Split(amount).lshare, budget |-> r.budget, stopped |-> FALSE]
  <2> HIDE DEF t
  <2> QED BY <1>3, <1>4 DEF CloseDay
<1> HIDE DEF per, held
<1>6. [x EXCEPT !.acc_day = day + 1] = DayDone(s, r.shr)
  <2>1. DayDone(s, r.shr) = [s EXCEPT !.shr = r.shr, !.expl[day] = <<>>, !.explCur[day] = 0,
                !.acc_per = per, !.acc_held = held,
                !.shares_total = IF s.exp[day] = 0 THEN @ ELSE Monus(@, s.exp[day]),
                !.exp[day] = 0,
                !.accAt[day] = IF s.exp[day] = 0 THEN @ ELSE per,
                !.acc_day = day + 1]
    BY DEF DayDone, per, held
  <2>2. paid = [s EXCEPT !.shr = r.shr, !.expl[day] = <<>>, !.explCur[day] = 0,
                         !.acc_per = per, !.acc_held = held]
    BY <1>1 DEF Store
  <2>3. paid.exp = s.exp /\ paid.shares_total = s.shares_total /\ paid.accAt = s.accAt /\ paid.acc_per = per
    BY <1>1, <2>2 DEF Store
  <2>4. CASE s.exp[day] = 0
    <3>1. x = paid
      BY <2>3, <2>4 DEF ExpireDay
    <3> HIDE DEF x, paid
    <3>2. s.exp = [s.exp EXCEPT ![day] = 0] /\ s.accAt = [s.accAt EXCEPT ![day] = @]
      BY <1>1, <2>4 DEF Store
    <3>3. DayDone(s, r.shr) = [s EXCEPT !.shr = r.shr, !.expl[day] = <<>>, !.explCur[day] = 0,
                !.acc_per = per, !.acc_held = held, !.acc_day = day + 1]
      <4> DEFINE d == DayDone(s, r.shr)
                 E == [s.exp EXCEPT ![day] = 0]
                 A == [s.accAt EXCEPT ![day] = s.accAt[day]]
      <4>1. d = [s EXCEPT !.shr = r.shr, !.expl[day] = <<>>, !.explCur[day] = 0,
                !.acc_per = per, !.acc_held = held, !.shares_total = s.shares_total,
                !.exp = E, !.accAt = A, !.acc_day = day + 1]
        <5> HIDE DEF d
        <5>1. d = [s EXCEPT !.shr = r.shr, !.expl[day] = <<>>, !.explCur[day] = 0,
                !.acc_per = per, !.acc_held = held, !.shares_total = s.shares_total,
                !.exp[day] = 0, !.accAt[day] = s.accAt[day], !.acc_day = day + 1]
          BY <2>1, <2>4 DEF d
        <5> QED BY <1>1, <5>1 DEF Store
      <4> HIDE DEF d, E, A
      <4>2. d = [s EXCEPT !.shr = r.shr, !.expl[day] = <<>>, !.explCur[day] = 0,
                !.acc_per = per, !.acc_held = held, !.shares_total = s.shares_total,
                !.exp = s.exp, !.accAt = s.accAt, !.acc_day = day + 1]
        <5>1. E = s.exp /\ A = s.accAt
          BY <3>2 DEF E, A
        <5> QED BY <4>1, <5>1
      <4>3. d = [s EXCEPT !.shr = r.shr, !.expl[day] = <<>>, !.explCur[day] = 0,
                !.acc_per = per, !.acc_held = held, !.acc_day = day + 1]
        BY <1>1, <4>2 DEF Store
      <4> QED BY <4>3 DEF d
    <3> QED BY <1>1, <2>2, <3>1, <3>3 DEF Store
  <2>5. CASE s.exp[day] # 0
    <3>1. x = [paid EXCEPT !.shares_total = Monus(@, s.exp[day]), !.exp[day] = 0, !.accAt[day] = per]
      BY <2>3, <2>5 DEF ExpireDay
    <3> HIDE DEF x, paid
    <3> QED BY <1>1, <2>1, <2>2, <2>5, <3>1 DEF Store
  <2> QED BY <2>4, <2>5
<1> QED BY <1>3, <1>5, <1>6 DEF u

\* The rows of a closed day, one by one.
LEMMA DoneRows ==
  ASSUME NEW s \in Store, NEW shr, NEW t, t = DayDone(s, shr),
         NEW day, day = s.acc_day,
         NEW step, step = AccumulatorStep(s.acc_per,
                            Split(EmissionBetween(HeightOfDay(day), HeightOfDay(day + 1))).lshare,
                            s.acc_held, s.shares_total)
  PROVE  /\ t.acc_per = step.acc /\ t.acc_held = step.held /\ t.acc_day = day + 1
         /\ t.shares_total = IF s.exp[day] = 0 THEN s.shares_total ELSE Monus(s.shares_total, s.exp[day])
         /\ t.shr = shr /\ t.exp = [s.exp EXCEPT ![day] = 0]
         /\ t.accAt = [s.accAt EXCEPT ![day] = IF s.exp[day] = 0 THEN s.accAt[day] ELSE step.acc]
         /\ t.expl = [s.expl EXCEPT ![day] = <<>>] /\ t.explCur = [s.explCur EXCEPT ![day] = 0]
         /\ t.settled = s.settled /\ t.sup_emitted = s.sup_emitted
         /\ t.pool_lshare = s.pool_lshare /\ t.pool_viral = s.pool_viral
         /\ t.pool_deep = s.pool_deep /\ t.pool_liq = s.pool_liq
<1> DEFINE per == step.acc
           held == step.held
           nobody == s.exp[day] = 0
           less == Monus(s.shares_total, s.exp[day])
<1>1. t = [s EXCEPT !.shr = shr, !.expl[day] = <<>>, !.explCur[day] = 0,
                    !.acc_per = per, !.acc_held = held,
                    !.shares_total = IF nobody THEN @ ELSE less,
                    !.exp[day] = 0, !.accAt[day] = IF nobody THEN @ ELSE per,
                    !.acc_day = day + 1]
  BY DEF DayDone
<1> HIDE DEF per, held, nobody, less
<1>2. /\ t.acc_per = per /\ t.acc_held = held /\ t.acc_day = day + 1
      /\ t.shares_total = IF nobody THEN s.shares_total ELSE less
      /\ t.shr = shr /\ t.exp = [s.exp EXCEPT ![day] = 0]
      /\ t.accAt = [s.accAt EXCEPT ![day] = IF nobody THEN s.accAt[day] ELSE per]
      /\ t.expl = [s.expl EXCEPT ![day] = <<>>] /\ t.explCur = [s.explCur EXCEPT ![day] = 0]
  BY <1>1 DEF Store
<1>3. /\ t.settled = s.settled /\ t.sup_emitted = s.sup_emitted
      /\ t.pool_lshare = s.pool_lshare /\ t.pool_viral = s.pool_viral
      /\ t.pool_deep = s.pool_deep /\ t.pool_liq = s.pool_liq
  BY <1>1 DEF Store
<1> QED BY <1>2, <1>3 DEF per, held, nobody, less

\* The cursor of a closed day is gone, and the pools wait for what it brings.
LEMMA DoneKeeps ==
  ASSUME NEW s \in Store, NEW shr
  PROVE  LET t == DayDone(s, shr)
         IN  /\ t.explCur = [s.explCur EXCEPT ![s.acc_day] = 0]
             /\ t.pool_lshare = s.pool_lshare /\ t.pool_viral = s.pool_viral
             /\ t.pool_deep = s.pool_deep /\ t.pool_liq = s.pool_liq
<1> DEFINE day == s.acc_day
           t == DayDone(s, shr)
           amount == EmissionBetween(HeightOfDay(day), HeightOfDay(day + 1))
           step == AccumulatorStep(s.acc_per, Split(amount).lshare, s.acc_held, s.shares_total)
           total == IF s.exp[day] = 0 THEN s.shares_total ELSE Monus(s.shares_total, s.exp[day])
           mark == IF s.exp[day] = 0 THEN s.accAt[day] ELSE step.acc
<1> HIDE DEF amount
<1>1. t = [s EXCEPT !.shr = shr, !.expl[day] = <<>>, !.explCur[day] = 0,
                    !.acc_per = step.acc, !.acc_held = step.held, !.shares_total = total,
                    !.exp[day] = 0, !.accAt[day] = mark, !.acc_day = day + 1]
  BY DEF DayDone, amount
<1> HIDE DEF t, step, total, mark
<1>2. /\ t.explCur = [s.explCur EXCEPT ![day] = 0]
      /\ t.pool_lshare = s.pool_lshare /\ t.pool_viral = s.pool_viral
      /\ t.pool_deep = s.pool_deep /\ t.pool_liq = s.pool_liq
  BY <1>1 DEF Store
<1> QED BY <1>2 DEF t

\* Crediting what was found up to a day and then the day is crediting both at
\* once: every pool takes a fixed part of an emission that divides by eight.
LEMMA CreditTwice ==
  ASSUME NEW w \in WalkState, NEW e \in Nat, w.emitted = 8 * e,
         NEW s, s = CreditWalk[w], NEW shr,
         NEW amount, amount = EmissionBetween(HeightOfDay(w.store.acc_day), HeightOfDay(w.store.acc_day + 1)),
         NEW x \in WalkState, x.store = DayDone(w.store, shr), x.emitted = w.emitted + amount,
         x.lshare = w.lshare + Split(amount).lshare,
         NEW y \in WalkState, y.store = DayDone(s, shr), y.emitted = amount,
         y.lshare = Split(amount).lshare
  PROVE  CreditWalk[y] = CreditWalk[x] /\ \E i \in Nat : x.emitted = 8 * i
<1> DEFINE day == w.store.acc_day
           step == AccumulatorStep(w.store.acc_per, Split(amount).lshare, w.store.acc_held, w.store.shares_total)
<1>1. w.store \in Store /\ day \in Nat /\ w.lshare \in Nat /\ y.lshare \in Nat
  BY StoreFields DEF WalkState
<1>2. PICK f \in Nat : amount = 8 * f
  BY <1>1, DayInEights
<1>3. x.emitted = 8 * (e + f) /\ e + f \in Nat /\ y.emitted = 8 * f
  BY <1>2
<1>4. /\ s \in Store
      /\ s.acc_per = w.store.acc_per /\ s.acc_held = w.store.acc_held /\ s.acc_day = day
      /\ s.shares_total = w.store.shares_total /\ s.exp = w.store.exp /\ s.accAt = w.store.accAt
      /\ s.expl = w.store.expl /\ s.explCur = w.store.explCur
      /\ s.sup_emitted = w.store.sup_emitted + 8 * e /\ s.pool_lshare = w.store.pool_lshare + w.lshare
      /\ s.pool_viral = w.store.pool_viral + e /\ s.pool_deep = w.store.pool_deep + 3 * e
      /\ s.pool_liq = w.store.pool_liq + 2 * e
  BY CreditRows DEF Credited
<1> HIDE DEF day, step
<1>6. /\ x.store.acc_per = step.acc /\ x.store.acc_held = step.held /\ x.store.acc_day = day + 1
      /\ x.store.shares_total = IF w.store.exp[day] = 0 THEN w.store.shares_total
                                ELSE Monus(w.store.shares_total, w.store.exp[day])
      /\ x.store.shr = shr /\ x.store.exp = [w.store.exp EXCEPT ![day] = 0]
      /\ x.store.accAt = [w.store.accAt EXCEPT ![day] = IF w.store.exp[day] = 0 THEN w.store.accAt[day]
                                                        ELSE step.acc]
      /\ x.store.expl = [w.store.expl EXCEPT ![day] = <<>>]
      /\ x.store.explCur = [w.store.explCur EXCEPT ![day] = 0]
      /\ x.store.sup_emitted = w.store.sup_emitted /\ x.store.pool_lshare = w.store.pool_lshare
      /\ x.store.pool_viral = w.store.pool_viral /\ x.store.pool_deep = w.store.pool_deep
      /\ x.store.pool_liq = w.store.pool_liq
  BY <1>1, DoneRows, SMTT(60) DEF day, step
<1>7. /\ y.store.acc_per = step.acc /\ y.store.acc_held = step.held /\ y.store.acc_day = day + 1
      /\ y.store.shares_total = IF s.exp[day] = 0 THEN s.shares_total
                                ELSE Monus(s.shares_total, s.exp[day])
      /\ y.store.shr = shr /\ y.store.exp = [s.exp EXCEPT ![day] = 0]
      /\ y.store.accAt = [s.accAt EXCEPT ![day] = IF s.exp[day] = 0 THEN s.accAt[day] ELSE step.acc]
      /\ y.store.expl = [s.expl EXCEPT ![day] = <<>>]
      /\ y.store.explCur = [s.explCur EXCEPT ![day] = 0]
      /\ y.store.sup_emitted = s.sup_emitted /\ y.store.pool_lshare = s.pool_lshare
      /\ y.store.pool_viral = s.pool_viral /\ y.store.pool_deep = s.pool_deep
      /\ y.store.pool_liq = s.pool_liq
  BY <1>4, DoneRows, SMTT(60) DEF day, step
<1>5. /\ x.store.acc_per = y.store.acc_per /\ x.store.acc_held = y.store.acc_held
      /\ x.store.acc_day = y.store.acc_day /\ x.store.shares_total = y.store.shares_total
      /\ x.store.shr = y.store.shr /\ x.store.exp = y.store.exp /\ x.store.accAt = y.store.accAt
      /\ x.store.expl = y.store.expl /\ x.store.explCur = y.store.explCur
  BY <1>4, <1>6, <1>7
<1> PICK a : a = CreditWalk[x]
  OBVIOUS
<1> PICK b : b = CreditWalk[y]
  OBVIOUS
<1> DEFINE g == e + f
<1>8. g \in Nat /\ x.emitted = 8 * g
  BY <1>3
<1> HIDE DEF g
<1>9. Credited(a, x, g)
  BY <1>8, CreditRows
<1>10. Credited(b, y, f)
  BY <1>2, <1>3, CreditRows
<1>11. /\ w.store.sup_emitted \in Nat /\ w.store.pool_lshare \in Nat /\ w.store.pool_viral \in Nat
       /\ w.store.pool_deep \in Nat /\ w.store.pool_liq \in Nat
  BY <1>1, StoreFields
<1>12. a.sup_emitted = b.sup_emitted /\ a.pool_viral = b.pool_viral /\ a.pool_deep = b.pool_deep
       /\ a.pool_liq = b.pool_liq
  <2>1. /\ a.sup_emitted = w.store.sup_emitted + 8 * g /\ a.pool_viral = w.store.pool_viral + g
        /\ a.pool_deep = w.store.pool_deep + 3 * g /\ a.pool_liq = w.store.pool_liq + 2 * g
    BY <1>6, <1>9 DEF Credited
  <2>2. /\ b.sup_emitted = w.store.sup_emitted + 8 * e + 8 * f
        /\ b.pool_viral = w.store.pool_viral + e + f
        /\ b.pool_deep = w.store.pool_deep + 3 * e + 3 * f /\ b.pool_liq = w.store.pool_liq + 2 * e + 2 * f
    BY <1>4, <1>7, <1>10 DEF Credited
  <2> QED BY <1>11, <2>1, <2>2 DEF g
<1>13. a.pool_lshare = b.pool_lshare
  <2>1. a.pool_lshare = w.store.pool_lshare + (w.lshare + y.lshare)
    BY <1>6, <1>9 DEF Credited
  <2>2. b.pool_lshare = w.store.pool_lshare + w.lshare + y.lshare
    BY <1>4, <1>7, <1>10 DEF Credited
  <2> QED BY <1>1, <1>11, <2>1, <2>2
<1>14. a = b
  <2>1. /\ a \in Store /\ b \in Store /\ a.settled = b.settled
        /\ a.acc_per = b.acc_per /\ a.acc_held = b.acc_held /\ a.acc_day = b.acc_day
        /\ a.shares_total = b.shares_total /\ a.shr = b.shr /\ a.exp = b.exp /\ a.accAt = b.accAt
        /\ a.expl = b.expl /\ a.explCur = b.explCur
    BY <1>5, <1>9, <1>10 DEF Credited
  <2> QED BY <1>12, <1>13, <2>1, SameStore
<1> QED BY <1>8, <1>14

\* The loop of accrueWalk, and the state it starts in.
WalkTurn(target) ==
  LET close == [w \in WalkState |-> IF w.stopped THEN w ELSE CloseDay(w)]
  IN  [w \in WalkState |->
         IF w.stopped \/ w.store.acc_day >= target THEN w ELSE close[DrainExpiryList(w)]]

WalkFirst(s, budget) ==
  [store |-> s, emitted |-> 0, lshare |-> 0, budget |-> budget, stopped |-> FALSE]

LEMMA WalkIs ==
  ASSUME NEW s, NEW target, NEW n, NEW budget
  PROVE  WalkDays(s, target, n, budget) = Iterate(WalkTurn(target), WalkFirst(s, budget), n)
BY DEF WalkDays, WalkTurn, WalkFirst

\* The states of a walk that nothing stops short of the target.
Walking(q, target) ==
  {w \in WalkState :
     /\ Listed(w.store, q) /\ ~ w.stopped /\ w.store.acc_day <= target
     /\ Ample(w.budget, q, w.store.acc_day, w.store.explCur[w.store.acc_day])
     /\ \E e \in Nat : w.emitted = 8 * e}

\* A turn is the closing of one more day.
LEMMA TurnCloses ==
  ASSUME NEW target, NEW w \in WalkState, ~ w.stopped, ~ w.store.acc_day >= target,
         NEW r \in DrainState, DrainExpiryList(w) = Drained(w, r), DrainExpiryList(w) \in WalkState,
         r.cur >= Len(w.store.expl[w.store.acc_day])
  PROVE  WalkTurn(target)[w] = CloseDay(DrainExpiryList(w)) /\ ~ DrainExpiryList(w).stopped
<1> DEFINE u == DrainExpiryList(w)
           amount == EmissionBetween(HeightOfDay(w.store.acc_day), HeightOfDay(w.store.acc_day + 1))
<1>1. PICK a : a = amount
  OBVIOUS
<1>2. ~ Drained(w, r).stopped
  BY <1>1, DoneIs
<1>3. ~ u.stopped
  BY <1>2
<1>4. WalkTurn(target)[w] = IF u.stopped THEN u ELSE CloseDay(u)
  <2> HIDE DEF u
  <2>1. u \in WalkState
    BY DEF u
  <2>2. WalkTurn(target)[w] = [x \in WalkState |-> IF x.stopped THEN x ELSE CloseDay(x)][u]
    BY DEF WalkTurn, u
  <2> QED BY <2>1, <2>2
<1> HIDE DEF u
<1> QED BY <1>3, <1>4 DEF u

\* What a finished drain has not taken the days behind it have not either.
LEMMA NothingLeft ==
  ASSUME NEW q, Recorded(q), NEW day \in Nat, NEW cur \in Nat, NEW chunks \in Seq(Seq(Entry)),
         Lists(chunks, q, day, cur, day), NEW last \in Nat, last >= Len(chunks),
         NEW budget, Ample(budget, q, day, last)
  PROVE  Ample(budget, q, day + 1, 0)
<1> DEFINE U == Untaken(q, day, last)
           V == Untaken(q, day + 1, 0)
<1>1. \A k \in DOMAIN q : q[k].expChunk \in Nat \ {0} /\ MaturityDay(q[k]) \in Nat
  BY RecordedTypes
<1>2. V \subseteq U /\ U \subseteq DOMAIN q
  <2> SUFFICES ASSUME NEW k \in V PROVE k \in U
    BY DEF Untaken
  <2>1. k \in DOMAIN q /\ ~ Taken(day + 1, 0, q[k])
    BY DEF Untaken
  <2>2. MaturityDay(q[k]) \in Nat /\ MaturityDay(q[k]) >= day + 1
    BY <1>1, <2>1 DEF Taken
  <2>3. ~ Taken(day, last, q[k])
    BY <2>2 DEF Taken
  <2> QED BY <2>1, <2>3 DEF Untaken
<1>3. IsFiniteSet(U) /\ IsFiniteSet(V) /\ Cardinality(V) <= Cardinality(U)
  <2> HIDE DEF U, V
  <2> QED BY <1>2, FS_Subset DEF Recorded
<1>4. Cardinality(U) \in Nat /\ Cardinality(V) \in Nat
  BY <1>3, FS_CardinalityType
<1> HIDE DEF U, V
<1> QED BY <1>3, <1>4 DEF Ample, U, V

\* A walk of one day from a store that was credited for the days before leaves
\* the store that crediting one day more leaves.
LEMMA OneMoreDay ==
  ASSUME NEW q, NEW target \in Days, NEW w \in Walking(q, target), ~ w.store.acc_day >= target,
         NEW budget, Ample(budget, q, w.store.acc_day, w.store.explCur[w.store.acc_day])
  PROVE  LET s == CreditWalk[w]
             v == WalkFirst(s, budget)
             x == WalkTurn(target)[w]
             amount == EmissionBetween(HeightOfDay(w.store.acc_day), HeightOfDay(w.store.acc_day + 1))
         IN  /\ x \in Walking(q, target) /\ x.store.acc_day = w.store.acc_day + 1
             /\ x.emitted = w.emitted + amount /\ x.lshare = w.lshare + Split(amount).lshare
             /\ \E shr : x.store = DayDone(w.store, shr)
             /\ CreditWalk[WalkTurn(target)[v]] = CreditWalk[x]
<1> DEFINE s == CreditWalk[w]
           v == WalkFirst(s, budget)
           day == w.store.acc_day
           cur == w.store.explCur[day]
           amount == EmissionBetween(HeightOfDay(day), HeightOfDay(day + 1))
           x == WalkTurn(target)[w]
           y == WalkTurn(target)[v]
           u == DrainExpiryList(w)
           z == DrainExpiryList(v)
<1>1. /\ w \in WalkState /\ Listed(w.store, q) /\ ~ w.stopped /\ day <= target
      /\ Ample(w.budget, q, day, cur) /\ budget \in Nat
  BY DEF Walking, Ample
<1>2. PICK e \in Nat : w.emitted = 8 * e
  BY DEF Walking
<1>3. Credited(s, w, e)
  BY <1>1, <1>2, CreditRows
<1>4. w.store \in Store /\ s \in Store /\ day \in Nat /\ day + 1 \in Days
  <2>1. w.store \in Store /\ s \in Store
    BY <1>1, <1>3 DEF WalkState, Credited
  <2>2. day \in Nat /\ target \in Nat
    BY <2>1, StoreFields, ConstantTypes DEF Days
  <2> HIDE DEF day
  <2>3. day < target
    BY <2>2 DEF day
  <2> QED BY <2>1, <2>2, <2>3, ConstantTypes DEF Days
<1>5. SameVotes(w.store, s) /\ s.acc_day = day
  BY <1>3 DEF Credited, SameVotes
<1> HIDE DEF s
<1>6. /\ v \in WalkState /\ v.store = s /\ v.budget = budget /\ v.emitted = 0 /\ v.lshare = 0 /\ ~ v.stopped
  BY <1>1, <1>4 DEF WalkState, WalkFirst
<1> HIDE DEF v
<1>7. PICK r \in DrainState, t \in DrainState :
        /\ u = Drained(w, r) /\ z = Drained(v, t)
        /\ r.shr = t.shr /\ r.cur = t.cur /\ r.cur >= Len(w.store.expl[day])
        /\ Ample(r.budget, q, day, r.cur)
  BY <1>1, <1>5, <1>6, FullDrain
<1>8. u \in WalkState /\ z \in WalkState /\ u.store.acc_day = day /\ z.store.acc_day = day
  BY <1>1, <1>5, <1>6, DrainFrame DEF SameBooks
<1>9. t.cur >= Len(v.store.expl[v.store.acc_day]) /\ v.store.acc_day = day
  BY <1>5, <1>6, <1>7 DEF SameVotes
<1>10. x = CloseDay(u) /\ ~ u.stopped
  BY <1>1, <1>7, <1>8, TurnCloses
<1>11. y = CloseDay(z) /\ ~ z.stopped
  BY <1>6, <1>7, <1>8, <1>9, TurnCloses
<1>12. x \in WalkState /\ y \in WalkState
  BY <1>4, <1>8, <1>10, <1>11, CloseDayFrame
<1>13. x = [store |-> DayDone(w.store, r.shr), emitted |-> w.emitted + amount,
            lshare |-> w.lshare + Split(amount).lshare, budget |-> r.budget, stopped |-> FALSE]
  BY <1>1, <1>7, <1>10, DoneIs
<1>14. y = [store |-> DayDone(s, t.shr), emitted |-> 0 + amount,
            lshare |-> 0 + Split(amount).lshare, budget |-> t.budget, stopped |-> FALSE]
  BY <1>6, <1>7, <1>9, <1>11, DoneIs
<1>15. PICK f \in Nat : amount = 8 * f
  BY <1>4, DayInEights
<1>16. amount \in Nat /\ Split(amount).lshare \in Nat
  BY <1>4, <1>15, DayQuarters
<1> HIDE DEF x, y, u, z, amount
<1>17. /\ x.store = DayDone(w.store, r.shr) /\ x.emitted = w.emitted + amount
       /\ x.lshare = w.lshare + Split(amount).lshare
       /\ y.store = DayDone(s, r.shr) /\ y.emitted = amount /\ y.lshare = Split(amount).lshare
       /\ x.budget = r.budget /\ ~ x.stopped
  BY <1>7, <1>13, <1>14, <1>16
<1>18. CreditWalk[y] = CreditWalk[x] /\ \E i \in Nat : x.emitted = 8 * i
  BY <1>1, <1>2, <1>12, <1>17, CreditTwice DEF s, amount
<1>19. Listed(x.store, q)
  <2>1. Swept(u.store, q)
    BY <1>1, <1>10, DrainVotes DEF u
  <2> QED BY <1>4, <1>8, <1>10, <2>1, CloseVotes
<1>20. x.store.acc_day = day + 1
  BY <1>4, <1>8, <1>10, CloseDayFrame
<1>21. x.store.explCur[day + 1] = 0
  <2>1. x.store.explCur = [w.store.explCur EXCEPT ![day] = 0]
    BY <1>4, <1>17, DoneKeeps
  <2>2. w.store.explCur[day + 1] = 0
    <3>1. \A d \in Days \ {w.store.acc_day} : w.store.explCur[d] = 0
      BY <1>1 DEF Listed
    <3>2. day + 1 # w.store.acc_day
      BY <1>4
    <3> QED BY <1>4, <3>1, <3>2
  <2>3. DOMAIN w.store.explCur = Days
    BY <1>4 DEF Store
  <2> HIDE DEF day
  <2> QED BY <1>4, <2>1, <2>2, <2>3
<1>22. Ample(x.budget, q, day + 1, 0)
  <2>1. Recorded(q) /\ Lists(w.store.expl[day], q, day, cur, day) /\ cur \in Nat
        /\ w.store.expl[day] \in Seq(Seq(Entry))
    <3>1. day \in Days
      BY <1>4 DEF Store
    <3> QED BY <1>1, <1>4, <3>1 DEF Listed, Listing, Store
  <2>2. r.cur \in Nat
    BY DEF DrainState
  <2>3. Ample(r.budget, q, day + 1, 0)
    BY <1>4, <1>7, <2>1, <2>2, NothingLeft
  <2> QED BY <1>17, <2>3
<1>23. x \in Walking(q, target)
  <2>1. day + 1 <= target
    <3>1. day \in Nat /\ target \in Nat /\ ~ day >= target
      BY <1>4 DEF Days
    <3> HIDE DEF day
    <3> QED BY <3>1
  <2> HIDE DEF day
  <2> QED BY <1>12, <1>17, <1>18, <1>19, <1>20, <1>21, <1>22, <2>1 DEF Walking
<1> QED BY <1>17, <1>18, <1>20, <1>23 DEF x, y, v, s, amount

\* A budget of as many retirements as there are positions is ample on every day.
LEMMA AmpleForAll ==
  ASSUME NEW q, Recorded(q), NEW day, NEW cur
  PROVE  Ample(Cardinality(DOMAIN q), q, day, cur)
<1> DEFINE U == Untaken(q, day, cur)
<1>1. U \subseteq DOMAIN q
  BY DEF Untaken
<1>2. IsFiniteSet(DOMAIN q)
  BY DEF Recorded
<1> HIDE DEF U
<1>3. Cardinality(U) <= Cardinality(DOMAIN q) /\ Cardinality(DOMAIN q) \in Nat
  BY <1>1, <1>2, FS_Subset, FS_CardinalityType
<1> QED BY <1>3 DEF Ample, U

\* A turn of the loop stays within the states of a walk that nothing stops.
LEMMA WalkingOn ==
  ASSUME NEW q, NEW target \in Days, NEW w \in Walking(q, target)
  PROVE  /\ WalkTurn(target)[w] \in Walking(q, target)
         /\ w.store.acc_day >= target => WalkTurn(target)[w] = w
<1> PICK budget : budget = Cardinality(DOMAIN q)
  OBVIOUS
<1>1. w \in WalkState /\ Recorded(q)
  BY DEF Walking, Listed
<1>2. Ample(budget, q, w.store.acc_day, w.store.explCur[w.store.acc_day])
  BY <1>1, AmpleForAll
<1>3. CASE w.store.acc_day >= target
  <2>1. WalkTurn(target)[w] = w
    BY <1>1, <1>3 DEF WalkTurn
  <2> QED BY <2>1
<1>4. CASE ~ w.store.acc_day >= target
  BY <1>2, <1>4, OneMoreDay
<1> QED BY <1>3, <1>4

\* What the loop starts in is a state of the loop.
LEMMA FirstIsWalk ==
  ASSUME NEW s \in Store, NEW budget \in Nat
  PROVE  WalkFirst(s, budget) \in WalkState
BY DEF WalkFirst, WalkState

\* A walk that starts on such a store is such a walk.
LEMMA WalkStarts ==
  ASSUME NEW q, NEW s, Listed(s, q), NEW target, s.acc_day <= target
  PROVE  WalkFirst(s, Cardinality(DOMAIN q)) \in Walking(q, target)
<1> PICK budget : budget = Cardinality(DOMAIN q)
  OBVIOUS
<1> PICK w : w = WalkFirst(s, budget)
  OBVIOUS
<1>1. s \in Store /\ Ample(budget, q, s.acc_day, s.explCur[s.acc_day]) /\ budget \in Nat
  BY AmpleForAll DEF Listed, Ample
<1>2. w = [store |-> s, emitted |-> 0, lshare |-> 0, budget |-> budget, stopped |-> FALSE]
  BY DEF WalkFirst
<1>3. w \in WalkState
  BY <1>1, FirstIsWalk
<1>4. 0 = 8 * 0 /\ 0 \in Nat
  OBVIOUS
<1>5. w.store = s /\ w.emitted = 0 /\ w.budget = budget /\ w.stopped = FALSE
  BY <1>2
<1> QED BY <1>1, <1>3, <1>4, <1>5 DEF Walking

\* Crediting nothing changes nothing in a store that is settled.
LEMMA CreditNothing ==
  ASSUME NEW s \in Store, s.settled = HeightOfDay(s.acc_day), NEW budget \in Nat
  PROVE  CreditWalk[WalkFirst(s, budget)] = s
<1> PICK w : w = WalkFirst(s, budget)
  OBVIOUS
<1> PICK t : t = CreditWalk[w]
  OBVIOUS
<1>1. w \in WalkState /\ w.emitted = 8 * 0 /\ w.lshare = 0 /\ w.store = s
  BY DEF WalkFirst, WalkState
<1>2. Credited(t, w, 0)
  BY <1>1, CreditRows
<1>3. /\ s.sup_emitted \in Nat /\ s.pool_lshare \in Nat /\ s.pool_viral \in Nat
      /\ s.pool_deep \in Nat /\ s.pool_liq \in Nat
  BY StoreFields
<1>4. t \in Store /\ t.sup_emitted = s.sup_emitted /\ t.pool_lshare = s.pool_lshare
      /\ t.pool_viral = s.pool_viral /\ t.pool_deep = s.pool_deep /\ t.pool_liq = s.pool_liq
  BY <1>1, <1>2, <1>3 DEF Credited
<1>5. /\ s.acc_per = t.acc_per /\ s.acc_held = t.acc_held /\ s.acc_day = t.acc_day
      /\ s.settled = t.settled /\ s.shares_total = t.shares_total /\ s.shr = t.shr
      /\ s.exp = t.exp /\ s.accAt = t.accAt /\ s.expl = t.expl /\ s.explCur = t.explCur
  BY <1>1, <1>2 DEF Credited
<1>6. s = t
  BY <1>4, <1>5, SameStore
<1> QED BY <1>6

\* A slice takes what was credited so far one turn further.
LEMMA SliceIsTurn ==
  ASSUME NEW q, NEW h, DayOf(h) \in Days, NEW w \in Walking(q, DayOf(h))
  PROVE  /\ CreditWalk[w] \in Store
         /\ AccrueWalk(CreditWalk[w], h, 1, Cardinality(DOMAIN q))
              = CreditWalk[WalkTurn(DayOf(h))[w]]
<1> PICK target \in Days : target = DayOf(h)
  OBVIOUS
<1> PICK budget : budget = Cardinality(DOMAIN q)
  OBVIOUS
<1> PICK s : s = CreditWalk[w]
  OBVIOUS
<1>1. w \in WalkState /\ Listed(w.store, q) /\ Recorded(q) /\ w.store.acc_day <= target
      /\ \E e \in Nat : w.emitted = 8 * e
  BY DEF Walking, Listed
<1>2. /\ s \in Store /\ SameVotes(w.store, s) /\ s.acc_day = w.store.acc_day
  BY <1>1, CreditRows DEF Credited, SameVotes
<1>3. CASE w.store.acc_day >= target
  <2>1. WalkTurn(target)[w] = w
    BY <1>3, WalkingOn
  <2>2. AccrueWalk(s, h, 1, budget) = s
    BY <1>2, <1>3 DEF AccrueWalk
  <2> QED BY <1>2, <2>1, <2>2
<1>4. CASE ~ w.store.acc_day >= target
  <2> PICK v : v = WalkFirst(s, budget)
    OBVIOUS
  <2>1. Listed(s, q)
    BY <1>1, <1>2, SameVotesListed
  <2>2. v \in Walking(q, target)
    BY <1>1, <1>2, <2>1, WalkStarts
  <2>3. Iterate(WalkTurn(target), v, 1) = WalkTurn(target)[v]
    BY <2>2, WalkingOn, IterateOnce
  <2>4. WalkDays(s, target, 1, budget) = WalkTurn(target)[v]
    BY <2>3, WalkIs
  <2>5. AccrueWalk(s, h, 1, budget) = CreditWalk[WalkDays(s, target, 1, budget)]
    <3>1. ~ (1 <= 0 \/ 1 > MaxAccrualDays)
      BY LasseMintAssumption
    <3>2. ~ s.acc_day >= DayOf(h)
      BY <1>2, <1>4
    <3> QED BY <3>1, <3>2 DEF AccrueWalk
  <2>6. Ample(budget, q, w.store.acc_day, w.store.explCur[w.store.acc_day])
    BY <1>1, AmpleForAll
  <2>7. CreditWalk[WalkTurn(target)[v]] = CreditWalk[WalkTurn(target)[w]]
    BY <1>4, <2>6, OneMoreDay
  <2> QED BY <1>2, <2>4, <2>5, <2>7
<1> QED BY <1>3, <1>4

\* Slices of one day add up to the walk.
LEMMA SlicesAddUp ==
  ASSUME NEW q, NEW s, Listed(s, q), NEW h \in Heights, Settled(s, h),
         NEW n \in 1 .. MaxAccrualDays, s.acc_day + n = DayOf(h),
         NEW budget, budget = Cardinality(DOMAIN q)
  PROVE  AccrueWalk(s, h, n, budget)
           = Iterate([t \in Store |-> AccrueWalk(t, h, 1, budget)], s, n)
<1> PICK target \in Days : target = DayOf(h)
  BY DayOfCall
<1> DEFINE X == Walking(q, target)
           body == WalkTurn(target)
           slice == [t \in Store |-> AccrueWalk(t, h, 1, budget)]
           first == WalkFirst(s, budget)
<1>1. s \in Store /\ s.acc_day \in Nat /\ target \in Nat /\ n \in Nat /\ s.acc_day < target
      /\ s.settled = HeightOfDay(s.acc_day) /\ budget \in Nat
  <2>1. s \in Store /\ s.settled = HeightOfDay(s.acc_day) /\ Recorded(q)
    BY DEF Listed, Settled
  <2>2. s.acc_day \in Nat /\ target \in Nat /\ n \in Nat /\ n >= 1
    BY <2>1, StoreFields, LasseMintAssumption, ConstantTypes DEF Days
  <2>3. budget \in Nat
    BY <2>1, FS_CardinalityType DEF Recorded
  <2> QED BY <2>1, <2>2, <2>3
<1>2. first \in X
  BY <1>1, WalkStarts
<1>3. \A y \in X : body[y] \in X
  BY WalkingOn
<1>4. \A y \in X : slice[CreditWalk[y]] = CreditWalk[body[y]]
  BY DayOfCall, SliceIsTurn
<1>5. CreditWalk[first] = s
  BY <1>1, CreditNothing
<1>6. AccrueWalk(s, h, n, budget) = CreditWalk[Iterate(body, first, n)]
  <2>1. ~ (n <= 0 \/ n > MaxAccrualDays)
    BY LasseMintAssumption
  <2>2. ~ s.acc_day >= DayOf(h)
    BY <1>1
  <2>3. AccrueWalk(s, h, n, budget) = CreditWalk[WalkDays(s, target, n, budget)]
    BY <2>1, <2>2 DEF AccrueWalk
  <2> QED BY <2>3, WalkIs
<1>7. Iterate(slice, CreditWalk[first], n) = CreditWalk[Iterate(body, first, n)]
  <2> HIDE DEF X, body, slice, first
  <2> QED BY <1>1, <1>2, <1>3, <1>4, IterateMaps
<1> QED BY <1>5, <1>6, <1>7

\* From one state: every slice closes a day, and the days add up.
LEMMA SlicesHold ==
  ASSUME VotesInv
  PROVE  SlicedWalkAgrees
<1> DEFINE q == Positions(mint)
           n == DayOf(height) - store.acc_day
<1>1. Listed(store, q) /\ Settled(store, height) /\ height \in Heights /\ LiveIds = DOMAIN q
  BY BooksRows, OpenPosition DEF VotesInv
<1> HIDE DEF q
<1>2. ASSUME n \in 1 .. MaxAccrualDays
      PROVE  AccrueWalk(store, height, n, Cardinality(LiveIds))
               = Iterate([s \in Store |-> AccrueWalk(s, height, 1, Cardinality(LiveIds))], store, n)
  <2>1. store.acc_day \in Nat /\ DayOf(height) \in Nat
    BY <1>1, StoreFields, DayOfCall, ConstantTypes DEF Settled, Days
  <2>2. store.acc_day + n = DayOf(height)
    BY <2>1
  <2> HIDE DEF n
  <2> QED BY <1>1, <1>2, <2>2, SlicesAddUp
<1> QED BY <1>2 DEF SlicedWalkAgrees

(* Whatever was minted, claimed and given before, and wherever an earlier  *)
(* walk stopped, catching up in slices of one day and in one walk leave    *)
(* one and the same store, every pool included (accrueWalk).               *)
THEOREM SlicesAgree == Spec => []SlicedWalkAgrees
<1>1. VotesInv /\ [Next]_vars => VotesInv'
  BY NextVotes
<1> QED BY <1>1, SlicesHold, InitVotes, PTL DEF Spec

-----------------------------------------------------------------------------
(* What the site tells the owners.  Its views are functions of the state, *)
(* so they are compared with the calls taken from that state: what a       *)
(* closing pays, what the chain takes, what the next day brings.           *)

\* No position is owed more than the pool holds.
LEMMA OwedIsThere ==
  ASSUME NEW s, NEW q, NEW x, Sound(s, q, x), NEW k \in DOMAIN q
  PROVE  /\ Entitlement(q[k].shares, q[k].accStart, EndOf(s, q[k])) \in Nat
         /\ Entitlement(q[k].shares, q[k].accStart, EndOf(s, q[k])) <= x
<1> DEFINE m == q[k]
           e == EndOf(s, m)
           y == Entitlement(m.shares, m.accStart, e)
           o == Owed(s, q)
           K == DOMAIN q
           T == Total(o, K)
<1>1. /\ s \in Store /\ x \in Nat /\ IsFiniteSet(K) /\ Staked(m) /\ Started(s, m)
      /\ T + AccScale * s.acc_held <= AccScale * x /\ AccScale \in Nat \ {0}
  BY EngineAssumption DEF Sound
<1>2. \A j \in K : o[j] \in Nat
  <2>1. \A j \in K : Staked(q[j]) /\ Started(s, q[j])
    BY DEF Sound
  <2> QED BY <1>1, <2>1, CountsAreNat
<1>3. o[k] = m.shares * (e - m.accStart)
  BY DEF Owed
<1>4. m.shares \in Nat /\ m.accStart \in Nat /\ e \in Nat /\ m.accStart <= e
  <2>1. m.shares \in Nat /\ m.accStart \in Nat
    BY <1>1, HoldingFields
  <2>2. e \in m.accStart .. s.acc_per /\ e \in Nat /\ s.acc_per \in Nat
    BY <1>1, EndBetween, StoreFields
  <2> QED BY <2>1, <2>2
<1> HIDE DEF e, m, o, K
<1>5. y \in Nat /\ AccScale * y <= o[k]
  BY <1>3, <1>4, EntitlementBound
<1> HIDE DEF y
<1>6. T = Total(o, K \ {k}) + o[k] /\ Total(o, K \ {k}) \in Nat
  <2>1. k \in K
    BY DEF K
  <2>2. IsFiniteSet(K \ {k})
    BY <1>1, FS_RemoveElement
  <2>3. Total(o, K \ {k}) \in Nat
    BY <1>2, <2>2, TotalIsNat
  <2>4. Total(o, K \ {k}) = T - o[k] /\ T \in Nat
    BY <1>1, <1>2, <2>1, TotalRemove, TotalIsNat
  <2> HIDE DEF T
  <2> QED BY <1>2, <2>1, <2>3, <2>4
<1>7. AccScale * y <= AccScale * x
  <2> DEFINE a == AccScale * y
             b == AccScale * x
             c == AccScale * s.acc_held
             d == Total(o, K \ {k})
  <2>1. a \in Nat /\ b \in Nat /\ c \in Nat
    <3>1. s.acc_held \in Nat
      BY <1>1, StoreFields
    <3> QED BY <1>1, <1>5, <3>1, ProductNat
  <2>2. o[k] \in Nat
    BY <1>2 DEF K
  <2>3. a <= o[k] /\ T + c <= b /\ T = d + o[k] /\ d \in Nat
    BY <1>1, <1>5, <1>6
  <2> HIDE DEF a, b, c, d, T
  <2>4. a <= b
    BY <2>1, <2>2, <2>3
  <2> QED BY <2>4 DEF a, b
<1>8. y <= x
  BY <1>1, <1>5, <1>7, ScaledLess
<1> QED BY <1>5, <1>8 DEF y, e, m

\* Only a claim or a sweep of a position ends it.
LEMMA EndsByClosing ==
  ASSUME BooksInv, Next, NEW a \in Accounts, NEW id \in DOMAIN mint[a],
         ~ mint[a][id].ended, mint'[a][id].ended
  PROVE  \E sweep \in BOOLEAN : EndMint(a, id, sweep)
<1>1. mint \in [Accounts -> Seq(Mint)]
  BY BooksRows
<1>2. mint' # mint
  OBVIOUS
<1>3. ASSUME NEW b \in Accounts, NEW m, mint' = [mint EXCEPT ![b] = Append(@, m)] PROVE FALSE
  <2>1. CASE b # a
    BY <1>1, <1>3, <2>1
  <2>2. CASE b = a
    <3>1. mint[a] \in Seq(Mint) /\ mint'[a] = Append(mint[a], m)
      BY <1>1, <1>3, <2>2
    <3>2. mint'[a][id] = mint[a][id]
      BY <3>1
    <3> QED BY <3>2
  <2> QED BY <2>1, <2>2
<1>4. ~ Tick /\ ~ Settle /\ (\A n : ~ Advance(n)) /\ \A b, t, n : ~ FundPool(b, t, n)
  BY <1>2, Zenon DEF Tick, Settle, Advance, FundPool
<1>5. ASSUME NEW b \in Accounts PROVE ~ CreditMigration(b)
  BY <1>2, <1>3 DEF CreditMigration
<1>6. ASSUME NEW b \in Accounts, NEW p, NEW d PROVE ~ CreateMint(b, p, d)
  BY <1>3 DEF CreateMint
<1>7. ASSUME NEW b \in Accounts, NEW j \in DOMAIN mint[b], ArmGoodAccounting(b, j) PROVE FALSE
  <2>1. mint' = [mint EXCEPT ![b][j].goodAccounting = TRUE]
    BY <1>7 DEF ArmGoodAccounting
  <2>2. mint[a] \in Seq(Mint) /\ mint[a][id] \in Mint
    BY <1>1
  <2>3. mint'[a][id].ended = mint[a][id].ended
    BY <1>1, <2>1, <2>2 DEF Mint
  <2> QED BY <2>3
<1>8. ASSUME NEW b \in Accounts, NEW j \in DOMAIN mint[b], NEW sweep \in BOOLEAN, EndMint(b, j, sweep)
      PROVE  b = a /\ j = id
  <2>1. mint' = [mint EXCEPT ![b][j].ended = TRUE]
    BY <1>8 DEF EndMint
  <2>2. mint[a] \in Seq(Mint) /\ mint[a][id] \in Mint
    BY <1>1
  <2>3. ~ (b = a /\ j = id) => mint'[a][id] = mint[a][id]
    BY <1>1, <2>1, <2>2
  <2> QED BY <2>3
<1>9. PICK b \in Accounts : \E j \in DOMAIN mint[b] : ClaimMint(b, j) \/ SweepMint(b, j)
  BY <1>4, <1>5, <1>6, <1>7 DEF Next
<1>10. PICK j \in DOMAIN mint[b], sweep \in BOOLEAN : EndMint(b, j, sweep)
  BY <1>9 DEF ClaimMint, SweepMint
<1> QED BY <1>8, <1>10

\* What the views take for the end of a position's yield.
LEMMA ViewEnd ==
  ASSUME BooksInv, NEW a \in Accounts, NEW id \in OpenMints(a)
  PROVE  LET m == mint[a][id]
         IN  /\ Staked(m) /\ Started(store, m) /\ <<a, id>> \in DOMAIN Positions(mint)
             /\ Positions(mint)[<<a, id>>] = m
             /\ Retired(m) <=> ~ Earns(store, m)
             /\ Retired(m) => IsMature(m, height)
             /\ AccEnd(m) = EndOf(store, m)
<1> DEFINE k == <<a, id>>
           m == mint[a][id]
<1>1. k \in LiveIds /\ M(k) = m
  <2>1. k \in LiveIds
    BY DEF LiveIds, OpenMints
  <2> QED BY <2>1 DEF M
<1>2. /\ LiveIds = DOMAIN Positions(mint)
      /\ Positions(mint)[k] = M(k) /\ Staked(M(k)) /\ Started(store, M(k))
      /\ Retired(M(k)) <=> ~ Earns(store, M(k))
  BY <1>1, OpenPosition
<1> HIDE DEF m, k
<1>3. /\ k \in DOMAIN Positions(mint) /\ Positions(mint)[k] = m /\ Staked(m) /\ Started(store, m)
      /\ Retired(m) <=> ~ Earns(store, m)
  BY <1>1, <1>2
<1>4. Settled(store, height) /\ height \in Heights
  BY BooksRows
<1>5. Retired(m) => IsMature(m, height)
  BY <1>3, <1>4, RetiredIsMature
<1>6. AccEnd(m) = EndOf(store, m)
  BY <1>3, <1>5 DEF AccEnd, EndOf
<1> QED BY <1>3, <1>5, <1>6 DEF m, k

\* The yield a closing pays is all that was earned, and no less than was shown.
LEMMA ClosingYield ==
  ASSUME BooksInv, NEW a \in Accounts, NEW id \in OpenMints(a), NEW sweep, EndMint(a, id, sweep)
  PROVE  LET m == mint[a][id]
         IN  \E shown \in Nat, accrued \in Nat :
               /\ shown = Entitlement(m.shares, m.accStart, AccEnd(m))
               /\ shown <= accrued /\ (Retired(m) => accrued = shown)
               /\ bal' = [bal EXCEPT ![a] = @ + SettleMint(m, height, accrued).toOwner]
<1> DEFINE m == mint[a][id]
           s == Accrue(store, height)
           q == Positions(mint)
           k == <<a, id>>
           accEnd == IF IsMature(m, height) THEN s.accAt[MaturityDay(m)] ELSE s.acc_per
           c == EndOf(store, m)
           d == EndOf(s, m)
           accrued == Entitlement(m.shares, m.accStart, d)
           shown == Entitlement(m.shares, m.accStart, c)
<1>1. /\ Staked(m) /\ Started(store, m) /\ k \in DOMAIN q /\ q[k] = m
      /\ (Retired(m) <=> ~ Earns(store, m)) /\ AccEnd(m) = c
  BY ViewEnd
<1>2. /\ Settled(s, height) /\ s \in Store /\ Sound(s, q, s.pool_lshare) /\ Rises(store, s, q)
      /\ store \in Store /\ height \in Heights
  BY AccrueBooksNow, BooksRows
<1>3. /\ IsMature(m, height) => s.acc_day > MaturityDay(m)
      /\ bal' = [bal EXCEPT ![a] = @ + SettleMint(m, height,
                    AtMost(Entitlement(m.shares, m.accStart, accEnd), s.pool_lshare)).toOwner]
  BY DEF EndMint
<1> HIDE DEF m, s, q, k
<1>4. Started(s, m)
  BY <1>1, <1>2 DEF Sound
<1>5. /\ m.shares \in Nat /\ m.accStart \in Nat /\ MaturityDay(m) \in Nat /\ s.acc_day \in Nat
      /\ c \in Nat /\ d \in Nat
  BY <1>1, <1>2, <1>4, HoldingFields, StoreFields, EndBetween
<1>6. IsMature(m, height) <=> ~ Earns(s, m)
  <2>1. ~ Earns(s, m) => IsMature(m, height)
    BY <1>1, <1>2, RetiredIsMature
  <2> QED BY <1>3, <1>5, <2>1 DEF Earns
<1>7. accEnd = d
  BY <1>6 DEF EndOf
<1>8. d >= c /\ (~ Earns(store, m) => d = c)
  BY <1>1, <1>2 DEF Rises
<1> HIDE DEF c, d, accEnd
<1>9. shown \in Nat /\ accrued \in Nat /\ shown <= accrued
  BY <1>5, <1>8, EntitlementMono
<1>10. accrued <= s.pool_lshare /\ s.pool_lshare \in Nat
  BY <1>1, <1>2, OwedIsThere, StoreFields DEF d
<1>11. Retired(m) => accrued = shown
  BY <1>1, <1>8
<1> HIDE DEF accrued, shown
<1>12. AtMost(accrued, s.pool_lshare) = accrued
  BY <1>9, <1>10 DEF AtMost
<1>13. bal' = [bal EXCEPT ![a] = @ + SettleMint(m, height, accrued).toOwner]
  BY <1>3, <1>7, <1>12 DEF accrued
<1> QED BY <1>1, <1>9, <1>11, <1>13 DEF m, shown

\* What the development chain shows: no more, and the same where the two
\* figures cannot differ.
LEMMA DevShowsNoMore ==
  ASSUME BooksInv, NEW a \in Accounts, NEW id \in OpenMints(a)
  PROVE  LET m == mint[a][id]
         IN  /\ DevMintView(m).ifClaimedNow <= MintView(m).ifClaimedNow
             /\ Retired(m) \/ ~ MintView(m).mature => DevMintView(m) = MintView(m)
<1> DEFINE m == mint[a][id]
           y == Entitlement(m.shares, m.accStart, AccEnd(m))
           z == PendingYield(m)
<1>1. ~ m.ended
  BY DEF OpenMints
<1>2. /\ Staked(m) /\ Started(store, m) /\ AccEnd(m) = EndOf(store, m) /\ store \in Store
      /\ height \in Nat
  BY ViewEnd, BooksRows
<1> HIDE DEF m
<1>3. m.shares \in Nat /\ m.accStart \in Nat /\ AccEnd(m) \in Nat /\ m.principal \in Nat
      /\ m.start \in Nat /\ m.days \in Nat /\ m.goodAccounting \in BOOLEAN
  BY <1>2, HoldingFields, EndBetween
<1>4. y \in Nat
  <2> PICK e \in Nat : e = AccEnd(m)
    BY <1>3
  <2>1. e <= e
    OBVIOUS
  <2>2. Entitlement(m.shares, m.accStart, e) \in Nat
    BY <1>3, <2>1, EntitlementMono
  <2> QED BY <2>2
<1>5. z = IF IsMature(m, height) /\ ~ Retired(m) THEN 0 ELSE y
  BY <1>1 DEF PendingYield
<1> HIDE DEF y, z
<1>6. z \in Nat /\ z <= y
  BY <1>4, <1>5
<1>7. SettleMint(m, height, z).toOwner <= SettleMint(m, height, y).toOwner
  BY <1>2, <1>3, <1>4, <1>6, SettlementMono
<1>8. /\ DevMintView(m) = View(m, z, Claimable(m)) /\ MintView(m) = View(m, y, Claimable(m))
  BY DEF DevMintView, MintView, y, z
<1>9. /\ View(m, z, Claimable(m)).ifClaimedNow = SettleMint(m, height, z).toOwner
      /\ View(m, y, Claimable(m)).ifClaimedNow = SettleMint(m, height, y).toOwner
      /\ View(m, y, Claimable(m)).mature = IsMature(m, height)
  BY DEF View, MintPreview
<1>10. Retired(m) \/ ~ IsMature(m, height) => z = y
  BY <1>5
<1> QED BY <1>7, <1>8, <1>9, <1>10 DEF m

(* Whoever closes a position, and however far the walk lags: the owner is  *)
(* paid at least what the card showed at that height, and exactly that     *)
(* once the maturity day is closed; the cap of endMint never bites.  The   *)
(* development chain never shows more (mint.go, magi-backend.ts).          *)
THEOREM ClosingPays == Spec => ClosingPaysWhatIsShown
<1> DEFINE Told(a, id) ==
      LET m    == mint[a][id]
          v    == MintView(m)
          dev  == DevMintView(m)
          paid == bal'[a] - bal[a]
      IN  /\ mint'[a][id].ended =>
               /\ paid >= v.ifClaimedNow
               /\ Retired(m) => paid = v.ifClaimedNow
          /\ dev.ifClaimedNow <= v.ifClaimedNow
          /\ Retired(m) \/ ~ v.mature => dev = v
      AllTold == \A a \in Accounts : \A id \in OpenMints(a) : Told(a, id)
<1>1. ASSUME BooksInv, Next PROVE AllTold
  <2> SUFFICES ASSUME NEW a \in Accounts, NEW id \in OpenMints(a) PROVE Told(a, id)
    OBVIOUS
  <2> DEFINE m == mint[a][id]
             v == MintView(m)
             paid == bal'[a] - bal[a]
  <2>1. ASSUME mint'[a][id].ended PROVE paid >= v.ifClaimedNow /\ (Retired(m) => paid = v.ifClaimedNow)
    <3>1. id \in DOMAIN mint[a] /\ ~ mint[a][id].ended /\ mint'[a][id].ended
      BY <2>1 DEF OpenMints
    <3>2. PICK sweep \in BOOLEAN : EndMint(a, id, sweep)
      BY <1>1, <3>1, EndsByClosing
    <3>3. PICK shown \in Nat, accrued \in Nat :
            /\ shown = Entitlement(m.shares, m.accStart, AccEnd(m))
            /\ shown <= accrued /\ (Retired(m) => accrued = shown)
            /\ bal' = [bal EXCEPT ![a] = @ + SettleMint(m, height, accrued).toOwner]
      BY <1>1, <3>2, ClosingYield
    <3>4. /\ Staked(m) /\ height \in Nat /\ bal \in [Accounts -> Nat]
      BY <1>1, ViewEnd, BooksRows
    <3>5. v.ifClaimedNow = SettleMint(m, height, shown).toOwner
      BY <3>3 DEF MintView, View, MintPreview
    <3> HIDE DEF m, v
    <3>6. /\ SettleMint(m, height, shown).toOwner \in Nat
          /\ SettleMint(m, height, accrued).toOwner \in Nat
          /\ SettleMint(m, height, shown).toOwner <= SettleMint(m, height, accrued).toOwner
      BY <3>3, <3>4, HoldingFields, SettlementMono
    <3> DEFINE got == SettleMint(m, height, accrued).toOwner
               least == SettleMint(m, height, shown).toOwner
    <3>7. got \in Nat /\ least \in Nat /\ least <= got /\ (Retired(m) => got = least)
          /\ v.ifClaimedNow = least /\ bal' = [bal EXCEPT ![a] = @ + got]
      BY <3>3, <3>5, <3>6
    <3> HIDE DEF got, least
    <3>8. paid = got
      BY <3>4, <3>7
    <3> QED BY <3>7, <3>8
  <2>2. /\ DevMintView(m).ifClaimedNow <= v.ifClaimedNow
        /\ Retired(m) \/ ~ v.mature => DevMintView(m) = v
    BY <1>1, DevShowsNoMore
  <2> QED BY <2>1, <2>2
<1>2. BooksInv /\ [Next]_vars => [AllTold]_vars
  BY <1>1
<1> QED BY <1>2, BooksInvariant, PTL DEF Spec, ClosingPaysWhatIsShown

-----------------------------------------------------------------------------
(* The card, the timeline and the dashboard.                               *)

\* A day is the heights from its start to the start of the next.
LEMMA DayFromTo ==
  ASSUME NEW d \in Nat, NEW h \in Nat, HeightOfDay(d) <= h, h < HeightOfDay(d + 1)
  PROVE  DayOf(h) = d
<1> DEFINE p == d * HeightsPerDay
           r == h - GenesisHeight - p
<1>1. HeightsPerDay \in Nat \ {0} /\ GenesisHeight \in Nat \ {0}
  BY ConstantTypes
<1>2. p \in Nat
  BY <1>1, ProductNat
<1>3. HeightOfDay(d) = GenesisHeight + p /\ HeightOfDay(d + 1) = GenesisHeight + p + HeightsPerDay
  <2>1. HeightOfDay(d + 1) = HeightOfDay(d) + HeightsPerDay
    BY HeightOfDayNat
  <2> QED BY <2>1 DEF HeightOfDay
<1> HIDE DEF p
<1>4. r \in 0 .. HeightsPerDay - 1 /\ h - GenesisHeight = p + r /\ h >= GenesisHeight
  BY <1>1, <1>2, <1>3
<1> HIDE DEF r
<1>5. CASE h = GenesisHeight
  <2>1. p = 0
    BY <1>1, <1>2, <1>4, <1>5
  <2>2. d = 0
    <3>1. CASE d = 0
      BY <3>1
    <3>2. CASE d # 0
      <4>1. HeightsPerDay * 1 <= HeightsPerDay * d
        BY <1>1, <3>2, ProductMono
      <4>2. HeightsPerDay * d = 0
        BY <1>1, <2>1 DEF p
      <4> QED BY <1>1, <4>1, <4>2
    <3> QED BY <3>1, <3>2
  <2> QED BY <1>5, <2>2 DEF DayOf
<1>6. CASE h # GenesisHeight
  <2>1. DayOf(h) = (h - GenesisHeight) \div HeightsPerDay
    BY <1>1, <1>4, <1>6 DEF DayOf
  <2> DEFINE z == h - GenesisHeight
  <2>2. z = HeightsPerDay * d + r /\ z \in Nat
    <3>1. HeightsPerDay * d = p
      BY <1>1 DEF p
    <3> QED BY <1>1, <1>2, <1>4, <3>1
  <2> HIDE DEF z
  <2>3. z \div HeightsPerDay = d
    BY <1>1, <1>4, <2>2, QuotientIs
  <2> QED BY <2>1, <2>3 DEF z
<1> QED BY <1>5, <1>6

\* When the day of a height is over.
LEMMA DayEnds ==
  ASSUME NEW h \in Nat, h >= GenesisHeight
  PROVE  LET over == GenesisHeight + ((h - GenesisHeight) \div HeightsPerDay + 1) * HeightsPerDay
         IN  /\ over = HeightOfDay(DayOf(h) + 1)
             /\ DayOf(over) = DayOf(h) + 1 /\ DayOf(over - 1) = DayOf(h)
<1> DEFINE d == (h - GenesisHeight) \div HeightsPerDay
           over == GenesisHeight + (d + 1) * HeightsPerDay
<1>1. HeightsPerDay \in Nat \ {0} /\ GenesisHeight \in Nat \ {0} /\ h - GenesisHeight \in Nat
  BY ConstantTypes
<1>2. d = DayOf(h)
  <2>1. CASE h = GenesisHeight
    <3>1. 0 = HeightsPerDay * 0 + 0 /\ h - GenesisHeight = 0
      BY <1>1, <2>1
    <3> DEFINE z == h - GenesisHeight
    <3>2. z = 0 /\ d = z \div HeightsPerDay
      BY <3>1
    <3> HIDE DEF d, z
    <3>3. z \div HeightsPerDay = 0
      BY <1>1, <3>1, <3>2, QuotientIs
    <3> QED BY <1>1, <2>1, <3>2, <3>3 DEF DayOf
  <2>2. CASE h # GenesisHeight
    BY <1>1, <2>2 DEF DayOf
  <2> QED BY <2>1, <2>2
<1>3. d \in Nat
  BY <1>2, DayOfNat
<1> HIDE DEF d
<1>4. over = HeightOfDay(d + 1)
  BY DEF HeightOfDay
<1> HIDE DEF over
<1>5. /\ over \in Nat /\ over = HeightOfDay(d) + HeightsPerDay /\ HeightOfDay(d) \in Nat
      /\ HeightOfDay(d + 1 + 1) = over + HeightsPerDay /\ HeightOfDay(d) >= GenesisHeight
  BY <1>3, <1>4, HeightOfDayNat
<1>6. DayOf(over) = d + 1
  <2>1. d + 1 \in Nat /\ HeightOfDay(d + 1) <= over /\ over < HeightOfDay(d + 1 + 1)
    BY <1>1, <1>3, <1>4, <1>5
  <2> QED BY <1>5, <2>1, DayFromTo
<1>7. DayOf(over - 1) = d
  <2>1. over - 1 \in Nat /\ HeightOfDay(d) <= over - 1 /\ over - 1 < HeightOfDay(d + 1)
    BY <1>1, <1>4, <1>5
  <2> QED BY <1>3, <2>1, DayFromTo
<1> QED BY <1>2, <1>4, <1>6, <1>7 DEF over, d

\* The chain never goes back behind genesis.
LEMMA FromGenesis == Spec => [](height \in Nat /\ height >= GenesisHeight)
<1> DEFINE Past == height \in Nat /\ height >= GenesisHeight
<1>1. Init => Past
  BY ConstantTypes DEF Init
<1>2. Past /\ [Next]_vars => Past'
  <2> SUFFICES ASSUME Past, [Next]_vars PROVE Past'
    OBVIOUS
  <2>1. CASE Tick
    BY <2>1, ConstantTypes DEF Tick
  <2>2. CASE height' = height
    BY <2>2
  <2>3. \A n : Settle \/ Advance(n) => height' = height
    BY Zenon DEF Settle, Advance
  <2>4. \A a, p, d : CreditMigration(a) \/ CreateMint(a, p, d) => height' = height
    BY ZenonT(60) DEF CreditMigration, CreateMint
  <2>5. \A a, id : ClaimMint(a, id) \/ SweepMint(a, id) \/ ArmGoodAccounting(a, id) => height' = height
    <3>1. \A a, id, sweep : EndMint(a, id, sweep) => height' = height
      BY DEF EndMint
    <3>2. \A a, id : ArmGoodAccounting(a, id) => height' = height
      BY DEF ArmGoodAccounting
    <3> QED BY <3>1, <3>2, Zenon DEF ClaimMint, SweepMint
  <2>6. \A a, t, n : FundPool(a, t, n) => height' = height
    BY Zenon DEF FundPool
  <2> QED BY <2>1, <2>2, <2>3, <2>4, <2>5, <2>6, Zenon DEF Next, vars
<1> QED BY <1>1, <1>2, PTL DEF Spec

\* Grace ends at or after maturity, and the bleed after grace.
LEMMA BleedPhases ==
  ASSUME NEW m, m.start \in Nat, m.days \in Nat, m.goodAccounting \in BOOLEAN, height \in Nat
  PROVE  LET bleed == BleedRemaining(m, height)
         IN  /\ ~ IsMature(m, height) => bleed = MultScale
             /\ MultScale # 0
             /\ Phase(m) = "lock" <=> ~ IsMature(m, height)
             /\ Phase(m) = "liquidated" => bleed = 0
             /\ bleed \notin {0, MultScale} => Phase(m) = "bleed"
<1> DEFINE top == MaturityHeight(m)
           grace == GraceDaysFor(m) * HeightsPerDay
           span == BleedDays * HeightsPerDay
           bleed == BleedRemaining(m, height)
<1>1. /\ MultScale \in Nat \ {0} /\ HeightsPerDay \in Nat \ {0} /\ GraceDays \in Nat
      /\ BleedDays \in Nat \ {0} /\ GoodAccountingGraceDays \in Nat
  BY EngineAssumption
<1>2. top \in Nat
  <2>1. m.days * HeightsPerDay \in Nat
    BY <1>1, ProductNat
  <2> QED BY <2>1 DEF MaturityHeight
<1>3. grace \in Nat /\ span \in Nat
  <2>1. GraceDaysFor(m) \in Nat
    BY <1>1 DEF GraceDaysFor
  <2> QED BY <1>1, <2>1, ProductNat
<1>4. IsMature(m, height) <=> height >= top
  BY DEF IsMature
<1>5. /\ height <= top + grace => bleed = MultScale
      /\ height > top + grace /\ height - (top + grace) >= span => bleed = 0
  BY <1>2, <1>3 DEF BleedRemaining
<1>6. Phase(m) = CASE height < top -> "lock"
                   [] height \in top .. (top + grace) -> "grace"
                   [] height > top + grace /\ height < top + grace + span -> "bleed"
                   [] OTHER -> "liquidated"
  BY DEF Phase
<1> HIDE DEF top, grace, span, bleed
<1>7. CASE height < top
  BY <1>1, <1>2, <1>3, <1>4, <1>5, <1>6, <1>7 DEF bleed
<1>8. CASE height \in top .. (top + grace)
  BY <1>1, <1>2, <1>3, <1>4, <1>5, <1>6, <1>8 DEF bleed
<1>9. CASE height > top + grace /\ height < top + grace + span
  BY <1>1, <1>2, <1>3, <1>4, <1>5, <1>6, <1>9 DEF bleed
<1>10. CASE height > top + grace /\ ~ height < top + grace + span
  BY <1>1, <1>2, <1>3, <1>4, <1>5, <1>6, <1>10 DEF bleed
<1> QED BY <1>2, <1>3, <1>7, <1>8, <1>9, <1>10

\* What a card says of a position, and what its own walk would make of it.
CardIsTrue(a, id, walked) ==
  LET m  == mint[a][id]
      v  == MintView(m)
      b  == Button(v)
      ok == Accepted(m, walked)
  IN  /\ ok => b = "end early" \/ v.claimable
      /\ v.claimable /\ CaughtUp(walked, height) => ok
      /\ b = "waiting" => ~ ok
      /\ b = "nothing left" => v.ifClaimedNow = 0
      /\ Phase(m) = "lock" <=> b = "end early"
      /\ Phase(m) = "liquidated" => b = "nothing left"
      /\ Bleeding(v) => Phase(m) = "bleed"
      /\ id \in ClosingToday(a) =>
           /\ DayOf(DayCloses) > MaturityDay(m)
           /\ DayOf(DayCloses - 1) = MaturityDay(m)

LEMMA CardTells ==
  ASSUME BooksInv, height >= GenesisHeight, NEW a \in Accounts, NEW id \in OpenMints(a)
  PROVE  CardIsTrue(a, id, Accrue(store, height))
<1> DEFINE m == mint[a][id]
           v == MintView(m)
           b == Button(v)
           walked == Accrue(store, height)
           ok == Accepted(m, walked)
           mature == IsMature(m, height)
           bleed == BleedRemaining(m, height)
           day == MaturityDay(m)
           y == Entitlement(m.shares, m.accStart, AccEnd(m))
<1>1. /\ Staked(m) /\ Started(store, m) /\ AccEnd(m) = EndOf(store, m)
      /\ height \in Nat /\ Settled(walked, height) /\ store \in Store
  BY ViewEnd, BooksRows, AccrueBooksNow
<1>11. v.mature = mature /\ v.claimable = Claimable(m) /\ v.bleed = bleed
      /\ v.ifClaimedNow = SettleMint(m, height, y).toOwner
  BY DEF MintView, View, MintPreview
<1>12. id \in ClosingToday(a) => v.mature /\ ~ v.claimable
  BY DEF ClosingToday
<1> HIDE DEF m, walked
<1>2. /\ m.principal \in Nat /\ m.start \in Nat /\ m.days \in Nat /\ m.goodAccounting \in BOOLEAN
      /\ day \in Nat /\ m.shares \in Nat /\ m.accStart \in Nat /\ AccEnd(m) \in Nat
  BY <1>1, HoldingFields, EndBetween
<1>3. walked.acc_day \in Nat /\ walked.acc_day <= Today /\ Today \in Nat
  BY <1>1, StoreFields, DayOfNat DEF Settled, Today
<1>4. mature => day <= Today
  <2>1. MaturityHeight(m) \in Nat
    <3>1. m.days * HeightsPerDay \in Nat
      BY <1>2, ConstantTypes, ProductNat
    <3> QED BY <1>2, <3>1 DEF MaturityHeight
  <2> QED BY <1>1, <2>1, DayOfMono DEF IsMature, MaturityDay, Today
<1>5. /\ ~ mature => bleed = MultScale
      /\ MultScale # 0
      /\ Phase(m) = "lock" <=> ~ mature
      /\ Phase(m) = "liquidated" => bleed = 0
      /\ bleed \notin {0, MultScale} => Phase(m) = "bleed"
  BY <1>1, <1>2, BleedPhases
<1>6. mature \in BOOLEAN /\ (Claimable(m) <=> mature /\ Today > day) /\ Claimable(m) \in BOOLEAN
  BY DEF Claimable, IsMature
<1>7. ok <=> (mature => walked.acc_day > day)
  BY DEF Accepted
<1>8. CaughtUp(walked, height) <=> walked.acc_day >= Today
  BY DEF CaughtUp, Today
<1>9. mature /\ bleed = 0 => SettleMint(m, height, y).toOwner = 0
  <2>1. y \in Nat
    <3> PICK e \in Nat : e = AccEnd(m)
      BY <1>2
    <3>1. e <= e
      OBVIOUS
    <3>2. Entitlement(m.shares, m.accStart, e) \in Nat
      BY <1>2, <3>1, EntitlementMono
    <3> QED BY <3>2
  <2> HIDE DEF y
  <2>2. m.principal + y \in Nat /\ MultScale \in Nat \ {0}
    BY <1>2, <2>1, EngineAssumption
  <2>3. MulDiv(m.principal + y, 0, MultScale) = 0
    <3> DEFINE p == m.principal + y
    <3>1. p * 0 = 0 /\ 0 = MultScale * 0 + 0 /\ p \in Nat
      BY <2>2
    <3> HIDE DEF p
    <3>2. 0 \div MultScale = 0
      BY <2>2, <3>1, QuotientIs
    <3> QED BY <3>1, <3>2 DEF MulDiv, p
  <2>4. ASSUME mature, bleed = 0 PROVE SettleMint(m, height, y).toOwner = 0
    <3>1. SettleMint(m, height, y).toOwner = MulDiv(m.principal + y, bleed, MultScale)
      BY <2>4 DEF SettleMint
    <3> HIDE DEF bleed
    <3> QED BY <2>3, <2>4, <3>1
  <2> QED BY <2>4
<1>10. DayOf(DayCloses) = Today + 1 /\ DayOf(DayCloses - 1) = Today
  BY <1>1, DayEnds DEF DayCloses, Today
<1> HIDE DEF v, ok, mature, bleed, day, y
<1>13. /\ b = "nothing left" <=> bleed = 0
       /\ b = "end early" <=> bleed # 0 /\ ~ mature
       /\ b = "waiting" <=> bleed # 0 /\ mature /\ ~ Claimable(m)
  <2>1. b = CASE bleed = 0 -> "nothing left"
              [] bleed # 0 /\ ~ mature -> "end early"
              [] bleed # 0 /\ mature /\ ~ Claimable(m) -> "waiting"
              [] OTHER -> "claim"
    BY <1>11 DEF Button
  <2> HIDE DEF b
  <2> QED BY <1>6, <2>1
<1> HIDE DEF b
<1>14. Bleeding(v) <=> bleed \notin {0, MultScale}
  BY <1>11 DEF Bleeding
<1>15. ok => b = "end early" \/ v.claimable
  <2>1. CASE ~ mature
    <3>1. bleed # 0
      BY <1>5, <2>1, Zenon
    <3> QED BY <1>13, <2>1, <3>1, Zenon
  <2>2. CASE mature
    <3>1. walked.acc_day > day => Today > day
      BY <1>2, <1>3
    <3>2. ok => Claimable(m)
      BY <1>6, <1>7, <2>2, <3>1
    <3> QED BY <1>11, <3>2
  <2> QED BY <2>1, <2>2
<1>16. v.claimable /\ CaughtUp(walked, height) => ok
  BY <1>2, <1>3, <1>6, <1>7, <1>8, <1>11
<1>17. b = "waiting" => ~ ok
  BY <1>2, <1>3, <1>6, <1>7, <1>13
<1>18. b = "nothing left" => v.ifClaimedNow = 0
  BY <1>5, <1>9, <1>11, <1>13
<1>19. /\ Phase(m) = "lock" <=> b = "end early"
       /\ Phase(m) = "liquidated" => b = "nothing left"
       /\ Bleeding(v) => Phase(m) = "bleed"
  BY <1>5, <1>13, <1>14
<1>20. id \in ClosingToday(a) => DayOf(DayCloses) > day /\ DayOf(DayCloses - 1) = day
  BY <1>2, <1>3, <1>4, <1>6, <1>10, <1>11, <1>12
<1> QED BY <1>15, <1>16, <1>17, <1>18, <1>19, <1>20 DEF CardIsTrue, m, v, b, ok, walked, day

\* When nothing waits, the dry run refuses none of the batch.
LEMMA TakesAll ==
  ASSUME BooksInv, height >= GenesisHeight, NEW a \in Accounts,
         CaughtUp(Accrue(store, height), height), ClosingToday(a) = {},
         Cardinality(ClaimableNow(a)) <= MaxClaimAllBatch
  PROVE  ClaimAllBatch(a, Accrue(store, height)) = ClaimableNow(a)
<1> DEFINE walked == Accrue(store, height)
           C == ClaimableNow(a)
           matured == {id \in NeedAttention(a) : MintView(mint[a][id]).mature}
           first == {id \in matured : Cardinality({i \in matured : i <= id}) <= MaxClaimAllBatch}
           refused == {id \in first : ~ Accepted(mint[a][id], walked)}
<1>1. \A id : MintView(mint[a][id]).claimable => MintView(mint[a][id]).mature
  BY DEF MintView, View, Claimable
<1>2. C = {id \in OpenMints(a) : MintView(mint[a][id]).claimable}
  BY DEF ClaimableNow
<1>3. matured = C
  <2>1. matured = {id \in OpenMints(a) : MintView(mint[a][id]).mature}
    BY DEF NeedAttention
  <2>2. \A id \in OpenMints(a) : MintView(mint[a][id]).mature => MintView(mint[a][id]).claimable
    BY DEF ClosingToday
  <2> HIDE DEF matured, C
  <2> QED BY <1>1, <1>2, <2>1, <2>2
<1>4. IsFiniteSet(C)
  <2>1. mint[a] \in Seq(Mint)
    BY BooksRows
  <2>2. IsFiniteSet(1 .. Len(mint[a]))
    BY <2>1, FS_Interval
  <2>3. C \subseteq 1 .. Len(mint[a])
    BY <1>2, <2>1 DEF OpenMints
  <2> HIDE DEF C
  <2> QED BY <2>2, <2>3, FS_Subset
<1>5. first = C
  <2> SUFFICES ASSUME NEW id \in C PROVE Cardinality({i \in C : i <= id}) <= MaxClaimAllBatch
    <3> HIDE DEF matured, C
    <3> QED BY <1>3
  <2> DEFINE below == {i \in C : i <= id}
  <2>1. below \subseteq C
    OBVIOUS
  <2> HIDE DEF C, below
  <2>2. IsFiniteSet(below) /\ Cardinality(below) <= Cardinality(C)
    BY <1>4, <2>1, FS_Subset
  <2>3. Cardinality(below) \in Nat /\ Cardinality(C) \in Nat /\ MaxClaimAllBatch \in Nat
    BY <1>4, <2>2, FS_CardinalityType, MintViewsAssumption
  <2>4. Cardinality(below) <= MaxClaimAllBatch
    BY <2>2, <2>3 DEF C
  <2> QED BY <2>4 DEF below
<1>6. \A id \in C : Accepted(mint[a][id], walked)
  <2> SUFFICES ASSUME NEW id \in C PROVE Accepted(mint[a][id], walked)
    OBVIOUS
  <2>1. id \in OpenMints(a) /\ MintView(mint[a][id]).claimable
    BY <1>2
  <2>2. CardIsTrue(a, id, walked)
    BY <2>1, CardTells
  <2> HIDE DEF walked, C
  <2>3. MintView(mint[a][id]).claimable /\ CaughtUp(walked, height) => Accepted(mint[a][id], walked)
    BY <2>2, Zenon DEF CardIsTrue
  <2> QED BY <2>1, <2>3 DEF walked
<1>7. ClaimAllBatch(a, walked) = {id \in first : \A r \in refused : id < r}
  BY DEF ClaimAllBatch
<1>8. refused = {}
  <2> HIDE DEF C, walked, first
  <2> QED BY <1>5, <1>6
<1> HIDE DEF refused, first, C
<1> QED BY <1>5, <1>7, <1>8 DEF C

\* The day after a store that is walked up to today brings what was announced.
LEMMA DayBrings ==
  ASSUME VotesInv, height >= GenesisHeight, CaughtUp(store, height), Today < LastDay
  PROVE  LET next == AccrueWalk(store, HeightOfDay(Today + 1), 1, Cardinality(LiveIds))
         IN  DailyRewards = [lshare    |-> next.pool_lshare - store.pool_lshare,
                             liquidity |-> next.pool_liq - store.pool_liq,
                             viral     |-> next.pool_viral - store.pool_viral,
                             deep      |-> next.pool_deep - store.pool_deep]
<1> DEFINE d == Today
           h == HeightOfDay(Today + 1)
           amount == EmissionBetween(HeightOfDay(d), HeightOfDay(d + 1))
<1> PICK q : q = Positions(mint)
  OBVIOUS
<1> PICK budget : budget = Cardinality(DOMAIN q)
  OBVIOUS
<1> PICK w : w = WalkFirst(store, budget)
  OBVIOUS
<1>1. /\ Listed(store, q) /\ Settled(store, height) /\ LiveIds = DOMAIN q /\ height \in Nat
      /\ store \in Store
  BY BooksRows, OpenPosition DEF VotesInv
<1>2. d \in Nat /\ d + 1 \in Days /\ store.acc_day = d
  <2>1. d \in Nat /\ LastDay \in Nat /\ store.acc_day \in Nat
    BY <1>1, StoreFields, DayOfNat, ConstantTypes DEF Today, Days
  <2>2. store.acc_day <= d /\ store.acc_day >= d
    BY <1>1 DEF Settled, CaughtUp, Today
  <2> HIDE DEF d
  <2>3. d < LastDay
    BY DEF d
  <2> QED BY <2>1, <2>2, <2>3 DEF Days
<1>3. h \in Nat /\ DayOf(h) = d + 1
  <2>1. d + 1 \in Nat
    BY <1>2
  <2>2. h \in Nat /\ HeightOfDay(d + 1 + 1) = h + HeightsPerDay /\ HeightsPerDay \in Nat \ {0}
    BY <2>1, HeightOfDayNat, ConstantTypes
  <2>3. HeightOfDay(d + 1) <= h /\ h < HeightOfDay(d + 1 + 1)
    BY <2>2
  <2> HIDE DEF d, h
  <2> QED BY <2>1, <2>2, <2>3, DayFromTo
<1>4. HeightOfDay(d) + HeightsPerDay = HeightOfDay(d + 1)
  BY <1>2, HeightOfDayNat
<1> HIDE DEF d, h
<1> PICK target : target = d + 1
  OBVIOUS
<1>5. w \in Walking(q, target) /\ budget \in Nat
  <2>1. store.acc_day <= target
    BY <1>2
  <2>2. budget \in Nat
    BY <1>1, AmpleForAll DEF Listed, Ample
  <2> QED BY <1>1, <2>1, <2>2, WalkStarts
<1>6. /\ w.store = store /\ w.lshare = 0 /\ w.emitted = 0
  BY DEF WalkFirst
<1>7. CreditWalk[w] = store
  <2>1. store.settled = HeightOfDay(store.acc_day)
    BY <1>1 DEF Settled
  <2> QED BY <1>1, <1>5, <2>1, CreditNothing
<1> PICK x : x = WalkTurn(target)[w]
  OBVIOUS
<1> PICK next : next = CreditWalk[x]
  OBVIOUS
<1>8. AccrueWalk(store, h, 1, Cardinality(LiveIds)) = next
  BY <1>1, <1>2, <1>3, <1>5, <1>7, SliceIsTurn
<1>9. /\ x \in Walking(q, target) /\ x.emitted = w.emitted + amount
      /\ x.lshare = w.lshare + Split(amount).lshare
      /\ \E shr : x.store = DayDone(w.store, shr)
  <2>1. ~ w.store.acc_day >= target
    BY <1>2, <1>6
  <2>2. target \in Days /\ w.store.acc_day = d
    BY <1>2, <1>6
  <2>3. Ample(budget, q, w.store.acc_day, w.store.explCur[w.store.acc_day])
    BY <1>1, AmpleForAll DEF Listed
  <2> QED BY <1>5, <2>1, <2>2, <2>3, OneMoreDay
<1>10. PICK e \in Nat : amount = 8 * e
  BY <1>2, DayInEights
<1> HIDE DEF amount
<1>11. Split(amount).lshare = 2 * e /\ Split(amount).liquidity = 2 * e /\ Split(amount).pob = 4 * e
       /\ SplitPoB(4 * e).viral = e /\ SplitPoB(4 * e).deep = 3 * e
  BY <1>10, EightsSplit
<1>12. x \in WalkState /\ x.emitted = 8 * e /\ x.lshare = 2 * e
  <2>1. x \in WalkState
    BY <1>9 DEF Walking
  <2> QED BY <1>6, <1>9, <1>10, <1>11, <2>1
<1>13. Credited(next, x, e)
  BY <1>12, CreditRows
<1>14. /\ x.store.pool_lshare = store.pool_lshare /\ x.store.pool_viral = store.pool_viral
       /\ x.store.pool_deep = store.pool_deep /\ x.store.pool_liq = store.pool_liq
  <2> PICK shr : x.store = DayDone(w.store, shr)
    BY <1>9
  <2> PICK t : t = DayDone(store, shr)
    OBVIOUS
  <2>1. x.store = t
    BY <1>6
  <2>2. /\ t.pool_lshare = store.pool_lshare /\ t.pool_viral = store.pool_viral
        /\ t.pool_deep = store.pool_deep /\ t.pool_liq = store.pool_liq
    BY <1>1, DoneKeeps
  <2> QED BY <2>1, <2>2
<1>15. /\ next.pool_lshare - store.pool_lshare = 2 * e
       /\ next.pool_liq - store.pool_liq = 2 * e
       /\ next.pool_viral - store.pool_viral = e
       /\ next.pool_deep - store.pool_deep = 3 * e
  <2>1. /\ next.pool_lshare = store.pool_lshare + 2 * e
        /\ next.pool_liq = store.pool_liq + 2 * e
        /\ next.pool_viral = store.pool_viral + e
        /\ next.pool_deep = store.pool_deep + 3 * e
    BY <1>12, <1>13, <1>14 DEF Credited
  <2>2. /\ store.pool_lshare \in Nat /\ store.pool_viral \in Nat
        /\ store.pool_deep \in Nat /\ store.pool_liq \in Nat
    BY <1>1, StoreFields
  <2> QED BY <2>1, <2>2
<1>16. DailyRewards = [lshare |-> 2 * e, liquidity |-> 2 * e, viral |-> e, deep |-> 3 * e]
  <2> DEFINE alloc == Split(EmissionBetween(HeightOfDay(Today), HeightOfDay(Today) + HeightsPerDay))
  <2>1. DailyRewards = [lshare |-> alloc.lshare, liquidity |-> alloc.liquidity,
                        viral |-> SplitPoB(alloc.pob).viral, deep |-> SplitPoB(alloc.pob).deep]
    BY DEF DailyRewards
  <2>2. alloc = Split(amount)
    BY <1>4 DEF amount, d
  <2> HIDE DEF alloc
  <2> QED BY <1>11, <2>1, <2>2
<1> QED BY <1>8, <1>15, <1>16 DEF h

(* At every height, of every position, and wherever the walk stands: the   *)
(* card, the timeline, the dashboard and "Claim all" say what the next     *)
(* call will do (MintCard.svelte, mint/+page.svelte, client.ts).           *)
THEOREM DashboardTells == Spec => []DashboardTellsTheTruth
<1> DEFINE Past == height \in Nat /\ height >= GenesisHeight
<1>1. ASSUME VotesInv, Past PROVE DashboardTellsTheTruth
  <2> DEFINE walked == Accrue(store, height)
  <2>1. BooksInv
    BY <1>1 DEF VotesInv
  <2>2. \A a \in Accounts : \A id \in OpenMints(a) : CardIsTrue(a, id, walked)
    BY <1>1, <2>1, CardTells
  <2>3. \A a \in Accounts :
          CaughtUp(walked, height) /\ ClosingToday(a) = {} /\ Cardinality(ClaimableNow(a)) <= MaxClaimAllBatch
            => ClaimAllBatch(a, walked) = ClaimableNow(a)
    BY <1>1, <2>1, TakesAll
  <2>4. CaughtUp(store, height) /\ Today < LastDay =>
          LET next == AccrueWalk(store, HeightOfDay(Today + 1), 1, Cardinality(LiveIds))
          IN  DailyRewards = [lshare    |-> next.pool_lshare - store.pool_lshare,
                              liquidity |-> next.pool_liq - store.pool_liq,
                              viral     |-> next.pool_viral - store.pool_viral,
                              deep      |-> next.pool_deep - store.pool_deep]
    BY <1>1, DayBrings
  <2> HIDE DEF walked
  <2> QED BY <2>2, <2>3, <2>4, Zenon DEF DashboardTellsTheTruth, CardIsTrue, walked
<1>2. VotesInv /\ [Next]_vars => VotesInv'
  BY NextVotes
<1>3. Spec => []VotesInv
  BY <1>2, InitVotes, PTL DEF Spec
<1> HIDE DEF Past
<1>4. VotesInv /\ Past => DashboardTellsTheTruth
  BY <1>1
<1>5. Spec => []Past
  BY FromGenesis DEF Past
<1> QED BY <1>3, <1>4, <1>5, PTL
=============================================================================
