--------------------------- MODULE Governance_proofs ---------------------------
(***************************************************************************)
(* Nobody rules alone, for every size of board and group, any holders and  *)
(* any preferences: the board keeps its shape, an offer readmits whoever   *)
(* belongs to the group, and the median lies between other members' votes. *)
(*                                                                         *)
(* TypeOK is inductive.  The other two follow from it: they speak of one   *)
(* more offer and of one reading of the board, not of how it came about.   *)
(***************************************************************************)
EXTENDS GovernanceViews, Engine_proofs, SequenceTheorems

Holdings == [Accounts -> Nat]

\* No account has two seats.
Distinct(b) == \A i, j \in DOMAIN b : b[i] = b[j] => i = j

-----------------------------------------------------------------------------
(* Seats.                                                                  *)

LEMMA SeatsOfBoard ==
  ASSUME NEW b \in Seq(Accounts)
  PROVE  /\ Seats(b) \subseteq Accounts /\ IsFiniteSet(Seats(b))
         /\ Cardinality(Seats(b)) = Len(b) <=> Distinct(b)
<1> DEFINE S == Seats(b)
           n == Len(b)
<1>1. n \in Nat /\ DOMAIN b = 1 .. n /\ b \in [1 .. n -> Accounts]
  OBVIOUS
<1>2. S \subseteq Accounts
  BY <1>1 DEF Seats
<1>3. b \in Surjection(1 .. n, S)
  <2>1. b \in [1 .. n -> S]
    BY <1>1 DEF Seats
  <2>2. \A t \in S : \E i \in 1 .. n : b[i] = t
    BY <1>1 DEF Seats
  <2> QED BY <2>1, <2>2 DEF Surjection
<1>4. IsFiniteSet(1 .. n) /\ Cardinality(1 .. n) = n
  BY <1>1, FS_Interval, SMTT(60)
<1> HIDE DEF S
<1>5. IsFiniteSet(S) /\ (Cardinality(S) = Cardinality(1 .. n) <=> b \in Injection(1 .. n, S))
  BY <1>3, <1>4, FS_Surjection
<1>6. b \in Injection(1 .. n, S) <=> Distinct(b)
  BY <1>1, <1>3 DEF Injection, Surjection, IsInjective, Distinct
<1> QED BY <1>2, <1>4, <1>5, <1>6 DEF S

LEMMA WithoutDrops ==
  ASSUME NEW b \in Seq(Accounts), Distinct(b), NEW a \in Accounts
  PROVE  /\ Without(b, a) \in Seq(Accounts) /\ Distinct(Without(b, a))
         /\ Len(Without(b, a)) <= Len(b)
         /\ a \notin Seats(Without(b, a)) /\ Seats(Without(b, a)) \subseteq Seats(b)
<1>1. CASE a \notin Seats(b)
  BY <1>1 DEF Without
<1>2. CASE a \in Seats(b)
  <2> DEFINE at == CHOOSE i \in DOMAIN b : b[i] = a
             n == Len(b)
             r == Without(b, a)
  <2>1. n \in Nat /\ DOMAIN b = 1 .. n /\ \A i \in 1 .. n : b[i] \in Accounts
    OBVIOUS
  <2>2. at \in 1 .. n /\ b[at] = a
    BY <1>2, <2>1 DEF Seats
  <2>3. r = SubSeq(b, 1, at - 1) \o SubSeq(b, at + 1, n)
    BY <1>2 DEF Without
  <2> HIDE DEF at, n, r
  <2> DEFINE u == SubSeq(b, 1, at - 1)
             v == SubSeq(b, at + 1, n)
  <2>4. /\ u \in Seq(Accounts) /\ Len(u) = at - 1 /\ \A i \in 1 .. at - 1 : u[i] = b[i]
    <3>1. at - 1 \in Int /\ \A i \in 1 .. at - 1 : b[i] \in Accounts
      BY <2>1, <2>2
    <3> QED BY <2>1, <2>2, <3>1, SubSeqProperties
  <2>5. /\ v \in Seq(Accounts) /\ Len(v) = n - at
        /\ \A i \in 1 .. n - at : v[i] = b[at + i]
    <3>1. at + 1 \in Int /\ n \in Int /\ \A i \in at + 1 .. n : b[i] \in Accounts
      BY <2>1, <2>2
    <3>2. /\ v \in Seq(Accounts) /\ Len(v) = IF at + 1 <= n THEN n - (at + 1) + 1 ELSE 0
          /\ \A i \in 1 .. n - (at + 1) + 1 : v[i] = b[(at + 1) + i - 1]
      BY <3>1, SubSeqProperties
    <3> QED BY <2>1, <2>2, <3>2
  <2> HIDE DEF u, v
  <2>6. /\ r \in Seq(Accounts) /\ Len(r) = n - 1
        /\ \A i \in 1 .. n - 1 : r[i] = IF i < at THEN b[i] ELSE b[i + 1]
    <3>1. /\ r \in Seq(Accounts) /\ Len(r) = Len(u) + Len(v)
          /\ \A i \in 1 .. Len(u) + Len(v) : r[i] = IF i <= Len(u) THEN u[i] ELSE v[i - Len(u)]
      BY <2>3, <2>4, <2>5, ConcatProperties DEF u, v
    <3>2. Len(r) = n - 1
      BY <2>1, <2>2, <2>4, <2>5, <3>1
    <3>3. ASSUME NEW i \in 1 .. n - 1 PROVE r[i] = IF i < at THEN b[i] ELSE b[i + 1]
      <4>1. CASE i < at
        BY <2>1, <2>2, <2>4, <2>5, <3>1, <4>1
      <4>2. CASE i >= at
        <5>1. r[i] = v[i - (at - 1)]
          BY <2>1, <2>2, <2>4, <2>5, <3>1, <4>2
        <5>2. i - (at - 1) \in 1 .. n - at
          BY <2>1, <2>2, <4>2
        <5>3. v[i - (at - 1)] = b[at + (i - (at - 1))]
          BY <2>5, <5>2
        <5>4. at + (i - (at - 1)) = i + 1
          BY <2>2
        <5> QED BY <2>2, <4>2, <5>1, <5>3, <5>4
      <4> QED BY <2>2, <4>1, <4>2
    <3> QED BY <3>1, <3>2, <3>3
  <2>7. \A i \in 1 .. n - 1 : r[i] # a
    <3>1. ASSUME NEW i \in 1 .. n, b[i] = a PROVE i = at
      BY <2>1, <2>2, <3>1 DEF Distinct
    <3>2. ASSUME NEW i \in 1 .. n - 1 PROVE r[i] # a
      <4>1. r[i] = IF i < at THEN b[i] ELSE b[i + 1]
        BY <2>6
      <4>2. i \in 1 .. n /\ i + 1 \in 1 .. n /\ (~ i < at => i + 1 # at)
        BY <2>1, <2>2
      <4> QED BY <3>1, <4>1, <4>2
    <3> QED BY <3>2
  <2>8. Distinct(r)
    <3>1. SUFFICES ASSUME NEW i \in 1 .. n - 1, NEW j \in 1 .. n - 1, r[i] = r[j]
                   PROVE  i = j
      BY <2>1, <2>6 DEF Distinct
    <3> DEFINE x == IF i < at THEN i ELSE i + 1
               y == IF j < at THEN j ELSE j + 1
    <3>2. x \in 1 .. n /\ y \in 1 .. n /\ r[i] = b[x] /\ r[j] = b[y]
      BY <2>1, <2>2, <2>6
    <3>3. x = y
      BY <2>1, <3>1, <3>2 DEF Distinct
    <3> QED BY <2>2, <3>3
  <2>9. a \notin Seats(r) /\ Seats(r) \subseteq Seats(b)
    <3>1. DOMAIN r = 1 .. n - 1
      BY <2>1, <2>6
    <3>2. ASSUME NEW i \in 1 .. n - 1 PROVE r[i] \in Seats(b)
      <4>1. i \in DOMAIN b /\ i + 1 \in DOMAIN b
        BY <2>1
      <4> QED BY <2>6, <4>1 DEF Seats
    <3> QED BY <2>7, <3>1, <3>2 DEF Seats
  <2> QED BY <2>1, <2>6, <2>8, <2>9 DEF r, n
<1> QED BY <1>1, <1>2

\* Where Insert puts an account: whoever sits in front of it outranks it.
LEMMA InsertPlaces ==
  ASSUME NEW s \in Holdings, NEW b \in Seq(Accounts), Distinct(b),
         NEW a \in Accounts, a \notin Seats(b)
  PROVE  /\ Insert(s, b, a) \in Seq(Accounts) /\ Distinct(Insert(s, b, a))
         /\ Len(Insert(s, b, a)) = Len(b) + 1
         /\ Seats(Insert(s, b, a)) \subseteq Seats(b) \union {a}
         /\ \E k \in 1 .. Len(b) + 1 :
              /\ Insert(s, b, a)[k] = a
              /\ \A j \in 1 .. k - 1 : /\ Insert(s, b, a)[j] \in Seats(b)
                                       /\ ~ BetterSeat(s, a, Insert(s, b, a)[j])
<1> DEFINE n == Len(b)
           r == Insert(s, b, a)
           outranked == {i \in DOMAIN b : BetterSeat(s, a, b[i])}
<1>1. n \in Nat /\ DOMAIN b = 1 .. n /\ \A i \in 1 .. n : b[i] \in Accounts /\ b[i] # a
  BY DEF Seats
<1>2. PICK k \in 1 .. n + 1 :
        /\ r \in Seq(Accounts) /\ Len(r) = n + 1
        /\ \A i \in 1 .. n + 1 : r[i] = IF i < k THEN b[i] ELSE IF i = k THEN a ELSE b[i - 1]
        /\ \A j \in 1 .. k - 1 : ~ BetterSeat(s, a, b[j])
  <2>1. CASE outranked = {}
    <3>1. r = Append(b, a)
      BY <2>1 DEF Insert
    <3> HIDE DEF r
    <3>2. r \in Seq(Accounts) /\ Len(r) = n + 1 /\ (\A i \in 1 .. n : r[i] = b[i]) /\ r[n + 1] = a
      BY <3>1, AppendProperties
    <3>3. \A j \in 1 .. n : ~ BetterSeat(s, a, b[j])
      BY <1>1, <2>1
    <3>4. n + 1 \in 1 .. n + 1
      BY <1>1
    <3>5. \A i \in 1 .. n + 1 : r[i] = IF i < n + 1 THEN b[i] ELSE IF i = n + 1 THEN a ELSE b[i - 1]
      BY <1>1, <3>2
    <3>6. \A j \in 1 .. (n + 1) - 1 : ~ BetterSeat(s, a, b[j])
      BY <1>1, <3>3
    <3> QED BY <3>2, <3>4, <3>5, <3>6
  <2>2. CASE outranked # {}
    <3> DEFINE at == CHOOSE i \in outranked : \A j \in outranked : i <= j
    <3>1. at \in outranked /\ \A j \in outranked : at <= j
      <4>1. outranked \subseteq Nat
        BY <1>1
      <4> HIDE DEF outranked
      <4>2. \E i \in outranked : \A j \in outranked : i <= j
        BY <2>2, <4>1, LeastExists
      <4> QED BY <4>2
    <3>2. r = SubSeq(b, 1, at - 1) \o <<a>> \o SubSeq(b, at, n)
      BY <2>2 DEF Insert
    <3> HIDE DEF r, at
    <3>3. at \in 1 .. n /\ \A j \in 1 .. at - 1 : ~ BetterSeat(s, a, b[j])
      BY <1>1, <3>1
    <3> HIDE DEF outranked, n
    <3> DEFINE u == SubSeq(b, 1, at - 1)
               v == SubSeq(b, at, n)
               w == u \o <<a>>
    <3>4. /\ u \in Seq(Accounts) /\ Len(u) = at - 1 /\ \A i \in 1 .. at - 1 : u[i] = b[i]
      <4>1. at - 1 \in Int /\ \A i \in 1 .. at - 1 : b[i] \in Accounts
        BY <1>1, <3>3
      <4> QED BY <3>3, <4>1, SubSeqProperties
    <3>5. /\ v \in Seq(Accounts) /\ Len(v) = n - at + 1
          /\ \A i \in 1 .. n - at + 1 : v[i] = b[at + i - 1]
      <4>1. at \in Int /\ n \in Int /\ \A i \in at .. n : b[i] \in Accounts
        BY <1>1, <3>3
      <4> QED BY <1>1, <3>3, <4>1, SubSeqProperties
    <3>6. r = w \o v
      BY <3>2
    <3> HIDE DEF u, v
    <3>7. /\ w \in Seq(Accounts) /\ Len(w) = at
          /\ \A i \in 1 .. at : w[i] = IF i < at THEN b[i] ELSE a
      <4>1. w = Append(u, a)
        BY <3>4, AppendIsConcat
      <4> HIDE DEF w
      <4>2. /\ w \in Seq(Accounts) /\ Len(w) = Len(u) + 1
            /\ (\A i \in 1 .. Len(u) : w[i] = u[i]) /\ w[Len(u) + 1] = a
        BY <3>4, <4>1, AppendProperties
      <4>3. at \in Nat /\ Len(u) = at - 1 /\ Len(w) = at
        BY <3>3, <3>4, <4>2
      <4>4. ASSUME NEW i \in 1 .. at PROVE w[i] = IF i < at THEN b[i] ELSE a
        <5>1. CASE i < at
          <6>1. i \in 1 .. at - 1 /\ i \in 1 .. Len(u)
            BY <4>3, <5>1
          <6> QED BY <3>4, <4>2, <5>1, <6>1
        <5>2. CASE i = at
          BY <4>2, <4>3, <5>2
        <5> QED BY <4>3, <5>1, <5>2
      <4> QED BY <4>2, <4>3, <4>4
    <3> HIDE DEF w
    <3>8. /\ r \in Seq(Accounts) /\ Len(r) = Len(w) + Len(v)
          /\ \A i \in 1 .. Len(w) + Len(v) : r[i] = IF i <= Len(w) THEN w[i] ELSE v[i - Len(w)]
      BY <3>5, <3>6, <3>7, ConcatProperties
    <3>9. Len(r) = n + 1
      BY <1>1, <3>3, <3>5, <3>7, <3>8
    <3>10. ASSUME NEW i \in 1 .. n + 1
           PROVE  r[i] = IF i < at THEN b[i] ELSE IF i = at THEN a ELSE b[i - 1]
      <4>1. CASE i <= at
        BY <1>1, <3>3, <3>5, <3>7, <3>8, <4>1
      <4>2. CASE i > at
        <5>1. r[i] = v[i - at] /\ i - at \in 1 .. n - at + 1
          BY <1>1, <3>3, <3>5, <3>7, <3>8, <4>2
        <5>2. v[i - at] = b[at + (i - at) - 1]
          BY <3>5, <5>1
        <5>3. at + (i - at) - 1 = i - 1
          BY <3>3
        <5> QED BY <3>3, <4>2, <5>1, <5>2, <5>3
      <4> QED BY <3>3, <4>1, <4>2
    <3>11. at \in 1 .. n + 1
      BY <1>1, <3>3
    <3> QED BY <3>3, <3>8, <3>9, <3>10, <3>11
  <2> QED BY <2>1, <2>2
<1> HIDE DEF r, n, outranked
<1>3. \A i \in 1 .. n + 1 : i # k => r[i] # a
  BY <1>1, <1>2
<1>4. Distinct(r)
  <2>1. SUFFICES ASSUME NEW i \in 1 .. n + 1, NEW j \in 1 .. n + 1, r[i] = r[j]
                 PROVE  i = j
    BY <1>2 DEF Distinct
  <2>2. CASE i = k \/ j = k
    BY <1>1, <1>2, <2>1, <2>2
  <2>3. CASE i # k /\ j # k
    <3> DEFINE x == IF i < k THEN i ELSE i - 1
               y == IF j < k THEN j ELSE j - 1
    <3>1. x \in 1 .. n /\ y \in 1 .. n /\ r[i] = b[x] /\ r[j] = b[y]
      BY <1>1, <1>2, <2>3
    <3>2. x = y
      BY <1>1, <2>1, <3>1 DEF Distinct
    <3> QED BY <1>2, <2>3, <3>2
  <2> QED BY <2>2, <2>3
<1>5. r[k] = a
  BY <1>2
<1>6. ASSUME NEW j \in 1 .. k - 1 PROVE r[j] \in Seats(b) /\ ~ BetterSeat(s, a, r[j])
  <2>1. j \in DOMAIN b /\ r[j] = b[j]
    BY <1>1, <1>2
  <2> QED BY <1>2, <2>1 DEF Seats
<1>7. Seats(r) \subseteq Seats(b) \union {a}
  <2>1. DOMAIN r = 1 .. n + 1
    BY <1>1, <1>2
  <2>2. ASSUME NEW i \in 1 .. n + 1, i # k PROVE r[i] \in Seats(b)
    <3> DEFINE x == IF i < k THEN i ELSE i - 1
    <3>1. x \in DOMAIN b /\ r[i] = b[x]
      BY <1>1, <1>2, <2>2
    <3> QED BY <3>1 DEF Seats
  <2> QED BY <1>5, <2>1, <2>2 DEF Seats
<1> QED BY <1>2, <1>4, <1>5, <1>6, <1>7 DEF r, n

LEMMA CutKeeps ==
  ASSUME NEW b \in Seq(Accounts), Distinct(b)
  PROVE  /\ Cut(b) \in Seq(Accounts) /\ Distinct(Cut(b)) /\ Len(Cut(b)) <= BoardSize
         /\ Seats(Cut(b)) \subseteq Seats(b)
         /\ \A i \in DOMAIN b : i <= BoardSize => i \in DOMAIN Cut(b) /\ Cut(b)[i] = b[i]
<1> DEFINE n == Len(b)
           m == IF n > BoardSize THEN BoardSize ELSE n
           r == Cut(b)
<1>1. n \in Nat /\ DOMAIN b = 1 .. n /\ BoardSize \in Nat /\ \A i \in 1 .. n : b[i] \in Accounts
  BY GovernanceAssumption
<1>2. m \in Nat /\ m <= n /\ m <= BoardSize /\ \A i \in 1 .. n : i <= BoardSize => i <= m
  BY <1>1
<1>3. r = SubSeq(b, 1, m)
  BY DEF Cut
<1> HIDE DEF m, r
<1>4. /\ r \in Seq(Accounts) /\ Len(r) = m /\ \A i \in 1 .. m : r[i] = b[i]
  <2>1. \A i \in 1 .. m : b[i] \in Accounts
    BY <1>1, <1>2
  <2>2. /\ r \in Seq(Accounts) /\ Len(r) = IF 1 <= m THEN m - 1 + 1 ELSE 0
        /\ \A i \in 1 .. m - 1 + 1 : r[i] = b[1 + i - 1]
    BY <1>2, <1>3, <2>1, SubSeqProperties
  <2> QED BY <1>2, <2>2
<1> HIDE DEF n
<1>5. DOMAIN r = 1 .. m
  BY <1>4
<1>6. Distinct(r)
  BY <1>1, <1>2, <1>4, <1>5 DEF Distinct
<1>7. \A i \in DOMAIN b : i <= BoardSize => i \in DOMAIN r /\ r[i] = b[i]
  BY <1>1, <1>2, <1>4, <1>5
<1>8. Seats(r) \subseteq Seats(b)
  <2>1. 1 .. m \subseteq DOMAIN b
    BY <1>1, <1>2
  <2> QED BY <1>4, <1>5, <2>1 DEF Seats
<1> QED BY <1>2, <1>4, <1>6, <1>7, <1>8, <1>1 DEF r, n

\* What offers leave of a board.
Shaped(b) == b \in Seq(Accounts) /\ Distinct(b) /\ Len(b) <= BoardSize

LEMMA OfferShapes ==
  ASSUME NEW s \in Holdings, NEW b, Shaped(b), NEW a \in Accounts
  PROVE  Shaped(Offer(s, b, a))
<1> DEFINE others == Without(b, a)
<1>1. b \in Seq(Accounts) /\ Distinct(b) /\ Len(b) <= BoardSize /\ BoardSize \in Nat
  BY GovernanceAssumption DEF Shaped
<1>2. /\ others \in Seq(Accounts) /\ Distinct(others) /\ Len(others) <= Len(b)
      /\ a \notin Seats(others)
  BY <1>1, WithoutDrops
<1>3. Shaped(others)
  BY <1>1, <1>2 DEF Shaped
<1>4. Shaped(Cut(Insert(s, others, a)))
  <2>1. Insert(s, others, a) \in Seq(Accounts) /\ Distinct(Insert(s, others, a))
    BY <1>2, InsertPlaces
  <2> QED BY <2>1, CutKeeps DEF Shaped
<1>5. Offer(s, b, a) \in {others, b, Cut(Insert(s, others, a))}
  BY DEF Offer
<1> QED BY <1>3, <1>4, <1>5

-----------------------------------------------------------------------------
(* The board keeps its shape.                                              *)

LEMMA TypeFacts ==
  ASSUME TypeOK
  PROVE  shr \in Holdings /\ Shaped(board)
<1>1. shr \in [Accounts -> 0 .. MaxShares] /\ MaxShares \in Nat
  BY GovernanceAssumption DEF TypeOK
<1>2. shr \in Holdings
  BY <1>1 DEF Holdings
<1>3. board \in Seq(Accounts) /\ Len(board) <= BoardSize /\ Cardinality(Seats(board)) = Len(board)
  BY DEF TypeOK
<1>4. Shaped(board)
  BY <1>3, SeatsOfBoard DEF Shaped
<1> QED BY <1>2, <1>4

LEMMA OfferTyped ==
  ASSUME TypeOK, NEW s \in [Accounts -> 0 .. MaxShares], NEW a \in Accounts,
         shr' = s, board' = Offer(s, board, a), pref' = pref
  PROVE  TypeOK'
<1>1. s \in Holdings
  BY GovernanceAssumption DEF Holdings
<1>2. Shaped(board')
  BY <1>1, TypeFacts, OfferShapes
<1>3. board' \in Seq(Accounts) /\ Len(board') <= BoardSize /\ Distinct(board')
  BY <1>2 DEF Shaped
<1>4. Cardinality(Seats(board')) = Len(board')
  BY <1>3, SeatsOfBoard
<1>5. pref' \in [Accounts -> (Min .. Max) \union {NoPreference}]
  BY DEF TypeOK
<1> HIDE DEF Seats
<1>6. Seats(board)' = Seats(board')
  BY DEF Seats
<1> QED BY <1>3, <1>4, <1>5, <1>6 DEF TypeOK

LEMMA InitTyped == Init => TypeOK
<1> SUFFICES ASSUME Init PROVE TypeOK
  OBVIOUS
<1>1. shr = [a \in Accounts |-> 0] /\ board = <<>> /\ pref = [a \in Accounts |-> NoPreference]
  BY DEF Init
<1>2. MaxShares \in Nat /\ BoardSize \in Nat
  BY GovernanceAssumption
<1>3. board \in Seq(Accounts) /\ Len(board) = 0 /\ Distinct(board)
  BY <1>1 DEF Distinct
<1>4. Cardinality(Seats(board)) = Len(board)
  BY <1>3, SeatsOfBoard
<1> QED BY <1>1, <1>2, <1>3, <1>4 DEF TypeOK

LEMMA NextTyped == TypeOK /\ [Next]_vars => TypeOK'
<1> SUFFICES ASSUME TypeOK, [Next]_vars PROVE TypeOK'
  OBVIOUS
<1>1. shr \in [Accounts -> 0 .. MaxShares] /\ MaxShares \in Nat
  BY GovernanceAssumption DEF TypeOK
<1>2. ASSUME NEW a \in Accounts, RegisterMint(a) PROVE TypeOK'
  <2>1. PICK n \in 1 .. MaxShares - shr[a] :
          shr' = [shr EXCEPT ![a] = @ + n] /\ board' = Offer(shr', board, a)
    BY <1>2 DEF RegisterMint
  <2>2. shr' \in [Accounts -> 0 .. MaxShares]
    BY <1>1, <2>1
  <2>3. pref' = pref
    BY <1>2 DEF RegisterMint
  <2> QED BY <2>1, <2>2, <2>3, OfferTyped
<1>3. ASSUME NEW a \in Accounts, EndMint(a) PROVE TypeOK'
  <2>1. PICK n \in 0 .. shr[a] :
          shr' = [shr EXCEPT ![a] = @ - n] /\ board' = Offer(shr', board, a)
    BY <1>3 DEF EndMint
  <2>2. shr' \in [Accounts -> 0 .. MaxShares]
    BY <1>1, <2>1
  <2>3. pref' = pref
    BY <1>3 DEF EndMint
  <2> QED BY <2>1, <2>2, <2>3, OfferTyped
<1>4. ASSUME NEW a \in Accounts, DrainExpiryList(a) PROVE TypeOK'
  <2>1. PICK n \in 1 .. shr[a] : shr' = [shr EXCEPT ![a] = @ - n]
    BY <1>4 DEF DrainExpiryList
  <2>2. shr' \in [Accounts -> 0 .. MaxShares]
    BY <1>1, <2>1
  <2>3. board' = board /\ pref' = pref
    BY <1>4 DEF DrainExpiryList
  <2> QED BY <2>2, <2>3 DEF TypeOK, Seats
<1>5. ASSUME NEW a \in Accounts, Promote(a) PROVE TypeOK'
  <2>1. board' = Offer(shr, board, a) /\ shr' = shr /\ pref' = pref
    BY <1>5 DEF Promote
  <2> QED BY <1>1, <2>1, OfferTyped
<1>6. ASSUME NEW a \in Voters, NEW v \in Values, SetPreference(a, v) PROVE TypeOK'
  <2>1. v \in Min .. Max /\ pref' = [pref EXCEPT ![a] = v] /\ shr' = shr /\ board' = board
    BY <1>6 DEF SetPreference
  <2>2. pref' \in [Accounts -> (Min .. Max) \union {NoPreference}]
    BY <2>1 DEF TypeOK
  <2> QED BY <2>1, <2>2 DEF TypeOK, Seats
<1>7. CASE UNCHANGED vars
  BY <1>7 DEF vars, TypeOK, Seats
<1> QED BY <1>2, <1>3, <1>4, <1>5, <1>6, <1>7 DEF Next

-----------------------------------------------------------------------------
(* Whoever belongs to the group gets in with one offer.                    *)

\* The accounts of a set that hold shares and outrank a.
Leads(s, T, a) == {c \in T : s[c] > 0 /\ BetterSeat(s, c, a)}

\* No more seats than that are in front of it.
LEMMA FewLead ==
  ASSUME NEW s \in Holdings, NEW a \in Accounts, NEW T \in SUBSET Accounts,
         Cardinality(Leads(s, T, a)) < ConsensusSize,
         NEW b \in Seq(Accounts), Distinct(b), NEW n \in 0 .. Len(b),
         \A i \in 1 .. n : b[i] \in Leads(s, T, a)
  PROVE  n < ConsensusSize
<1>1. IsFiniteSet(Accounts) /\ ConsensusSize \in Nat
  BY GovernanceAssumption
<1> DEFINE r == [i \in 1 .. n |-> b[i]]
           L == Leads(s, T, a)
<1>2. IsFiniteSet(L)
  BY <1>1, FS_Subset DEF Leads
<1>3. r \in Injection(1 .. n, L)
  <2>1. DOMAIN b = 1 .. Len(b) /\ \A i \in 1 .. n : i \in DOMAIN b
    OBVIOUS
  <2>2. \A i, j \in 1 .. n : r[i] = r[j] => i = j
    BY <2>1 DEF Distinct
  <2> QED BY <2>2 DEF Injection, IsInjective
<1> HIDE DEF L, r
<1>4. Cardinality(1 .. n) <= Cardinality(L)
  BY <1>2, <1>3, FS_Injection
<1>5. Cardinality(1 .. n) = n /\ n \in Nat
  BY FS_Interval
<1>6. Cardinality(L) \in Nat
  BY <1>2, FS_CardinalityType
<1> QED BY <1>1, <1>4, <1>5, <1>6 DEF L

\* Two accounts are in one order or the other.
LEMMA RankIsTotal ==
  ASSUME NEW s \in Holdings, NEW a \in Accounts, NEW c \in Accounts, a # c
  PROVE  /\ ~ BetterSeat(s, a, c) => BetterSeat(s, c, a) /\ s[c] >= s[a]
         /\ BetterSeat(s, c, a) => ~ BetterSeat(s, a, c) /\ s[c] >= s[a]
<1>1. s[a] \in Nat /\ s[c] \in Nat /\ a \in Nat /\ c \in Nat
  BY GovernanceAssumption DEF Holdings
<1> QED BY <1>1 DEF BetterSeat

\* Of some accounts one is outranked by all the others.
LEMMA LowestExists ==
  ASSUME NEW s \in Holdings, NEW S \in SUBSET Accounts, S # {}
  PROVE  \E x \in S : \A c \in S \ {x} : BetterSeat(s, c, x)
<1> DEFINE F == {U \in SUBSET S :
                   U = {} \/ \E x \in U : \A c \in U \ {x} : BetterSeat(s, c, x)}
<1>1. S \subseteq Accounts /\ IsFiniteSet(S)
  BY GovernanceAssumption, FS_Subset
<1>2. ASSUME NEW U \in SUBSET S, U \in F, NEW y \in S \ U PROVE U \union {y} \in F
  <2>1. CASE U = {}
    BY <2>1
  <2>2. CASE U # {}
    <3>1. PICK x \in U : \A c \in U \ {x} : BetterSeat(s, c, x)
      BY <1>2, <2>2
    <3>2. x \in Accounts /\ y \in Accounts /\ x # y
      BY <1>1, <1>2
    <3>3. CASE BetterSeat(s, y, x)
      <4>1. \A c \in (U \union {y}) \ {x} : BetterSeat(s, c, x)
        BY <3>1, <3>3
      <4> QED BY <1>2, <4>1
    <3>4. CASE ~ BetterSeat(s, y, x)
      <4>1. \A c \in U : BetterSeat(s, c, y)
        <5>1. BetterSeat(s, x, y)
          BY <3>2, <3>4, RankIsTotal
        <5>2. ASSUME NEW c \in U, c # x PROVE BetterSeat(s, c, y)
          <6>1. s[c] \in Nat /\ s[x] \in Nat /\ s[y] \in Nat /\ c \in Nat /\ x \in Nat /\ y \in Nat
            BY <1>1, <1>2, <3>2, <5>2, GovernanceAssumption DEF Holdings
          <6> QED BY <3>1, <5>1, <5>2, <6>1 DEF BetterSeat
        <5> QED BY <5>1, <5>2
      <4> QED BY <1>2, <4>1
    <3> QED BY <3>3, <3>4
  <2> QED BY <2>1, <2>2
<1>3. {} \in F
  OBVIOUS
<1>4. S \in F
  <2> HIDE DEF F
  <2> QED BY <1>1, <1>2, <1>3, SubsetInduction
<1>5. \E x \in S : \A c \in S \ {x} : BetterSeat(s, c, x)
  BY <1>4
<1> QED BY <1>5

\* A board that is not empty has a weakest seat (weakestOnBoard).
LEMMA WeakestExists ==
  ASSUME NEW s \in Holdings, NEW b \in Seq(Accounts), Seats(b) # {}
  PROVE  /\ WeakestOnBoard(s, b) \in Seats(b)
         /\ \A c \in Seats(b) \ {WeakestOnBoard(s, b)} : BetterSeat(s, c, WeakestOnBoard(s, b))
<1>1. \E x \in Seats(b) : \A c \in Seats(b) \ {x} : BetterSeat(s, c, x)
  BY SeatsOfBoard, LowestExists
<1> QED BY <1>1 DEF WeakestOnBoard

\* Who is outranked by fewer is outranked by less than a group.
LEMMA LeadsGrow ==
  ASSUME NEW T \in SUBSET Accounts, NEW s, NEW a, Cardinality(Leads(s, T, a)) < ConsensusSize,
         NEW L \in SUBSET Leads(s, T, a)
  PROVE  IsFiniteSet(L) /\ Cardinality(L) \in Nat /\ Cardinality(L) < ConsensusSize
<1>1. IsFiniteSet(Leads(s, T, a)) /\ ConsensusSize \in Nat
  BY GovernanceAssumption, FS_Subset DEF Leads
<1>2. Cardinality(L) <= Cardinality(Leads(s, T, a)) /\ IsFiniteSet(L)
  BY <1>1, FS_Subset
<1>3. Cardinality(L) \in Nat /\ Cardinality(Leads(s, T, a)) \in Nat
  BY <1>1, <1>2, FS_CardinalityType
<1> QED BY <1>1, <1>2, <1>3

\* An account outranked by less than a group is never turned away by a full board.
LEMMA FewLeadBeats ==
  ASSUME NEW s \in Holdings, NEW a \in Accounts, s[a] > 0, NEW b, Shaped(b), a \notin Seats(b),
         Cardinality(Leads(s, Seats(b), a)) < ConsensusSize, Len(b) >= BoardSize
  PROVE  BetterSeat(s, a, WeakestOnBoard(s, b))
<1> DEFINE w == WeakestOnBoard(s, b)
<1>1. b \in Seq(Accounts) /\ Distinct(b) /\ Len(b) \in Nat /\ Seats(b) \subseteq Accounts
      /\ BoardSize \in Nat /\ ConsensusSize \in Nat /\ BoardSize > ConsensusSize
  BY GovernanceAssumption, SeatsOfBoard DEF Shaped
<1>2. a \in Accounts /\ s[a] > 0
  OBVIOUS
<1>3. Seats(b) # {}
  <2>1. 1 \in DOMAIN b
    BY <1>1
  <2> QED BY <2>1 DEF Seats
<1>4. w \in Seats(b) /\ \A c \in Seats(b) \ {w} : BetterSeat(s, c, w)
  BY <1>1, <1>3, WeakestExists
<1> HIDE DEF w
<1>5. ASSUME ~ BetterSeat(s, a, w) PROVE FALSE
  <2>1. ASSUME NEW c \in Seats(b) PROVE s[c] > 0 /\ BetterSeat(s, c, a)
    <3>1. c \in Accounts /\ w \in Accounts /\ c # a /\ w # a
      BY <1>1, <1>4
    <3>2. s[a] \in Nat /\ s[c] \in Nat /\ s[w] \in Nat /\ a \in Nat /\ c \in Nat /\ w \in Nat
      BY <1>2, <3>1, GovernanceAssumption DEF Holdings
    <3>3. BetterSeat(s, w, a)
      BY <1>2, <1>5, <3>1, RankIsTotal
    <3>4. BetterSeat(s, c, a)
      BY <1>4, <3>2, <3>3 DEF BetterSeat
    <3> QED BY <1>2, <3>2, <3>4 DEF BetterSeat
  <2>2. \A i \in 1 .. Len(b) : b[i] \in Leads(s, Seats(b), a)
    <3>1. \A i \in 1 .. Len(b) : b[i] \in Seats(b)
      BY <1>1 DEF Seats
    <3> QED BY <2>1, <3>1 DEF Leads
  <2>3. Len(b) \in 0 .. Len(b)
    BY <1>1
  <2>4. Len(b) < ConsensusSize
    BY <1>1, <2>2, <2>3, FewLead
  <2> QED BY <1>1, <2>4
<1> QED BY <1>5 DEF w

LEMMA OfferAdmits ==
  ASSUME NEW s \in Holdings, NEW a \in Accounts, s[a] > 0, NEW b, Shaped(b),
         Cardinality(Leads(s, Seats(b), a)) < ConsensusSize
  PROVE  a \in ConsensusMembers(s, Offer(s, b, a))
<1> DEFINE others == Without(b, a)
           r == Insert(s, others, a)
           o == Offer(s, b, a)
<1>1. b \in Seq(Accounts) /\ Distinct(b) /\ Seats(b) \subseteq Accounts
      /\ BoardSize \in Nat /\ ConsensusSize \in Nat /\ BoardSize > ConsensusSize
  BY GovernanceAssumption, SeatsOfBoard DEF Shaped
<1>2. s[a] > 0 /\ s[a] \in Nat
  BY DEF Holdings
<1>3. o = Cut(r)
  BY <1>2, FewLeadBeats DEF Offer
<1>4. others \in Seq(Accounts) /\ Distinct(others) /\ a \notin Seats(others)
      /\ Seats(others) \subseteq Seats(b)
  BY <1>1, WithoutDrops
<1> HIDE DEF others
<1>5. /\ r \in Seq(Accounts) /\ Distinct(r) /\ Len(r) = Len(others) + 1
      /\ Seats(r) \subseteq Seats(others) \union {a}
      /\ \E k \in 1 .. Len(others) + 1 :
           /\ r[k] = a
           /\ \A j \in 1 .. k - 1 : r[j] \in Seats(others) /\ ~ BetterSeat(s, a, r[j])
  BY <1>4, InsertPlaces
<1> HIDE DEF r, o
<1>6. PICK k \in 1 .. Len(r) : /\ r[k] = a
                               /\ \A j \in 1 .. k - 1 : r[j] \in Seats(b) /\ ~ BetterSeat(s, a, r[j])
  BY <1>4, <1>5
<1>7. Len(r) \in Nat /\ DOMAIN r = 1 .. Len(r) /\ k \in Nat
  BY <1>5
<1>8. k - 1 < ConsensusSize
  <2>1. ASSUME NEW i \in 1 .. k - 1 PROVE r[i] \in Leads(s, Seats(b), a)
    <3>1. r[i] \in Accounts /\ r[i] # a /\ ~ BetterSeat(s, a, r[i])
      BY <1>1, <1>5, <1>6, <1>7, SMTT(60) DEF Distinct
    <3>2. s[r[i]] \in Nat /\ BetterSeat(s, r[i], a) /\ s[r[i]] >= s[a]
      BY <3>1, RankIsTotal DEF Holdings
    <3> QED BY <1>2, <1>6, <3>2 DEF Leads
  <2>2. k - 1 \in 0 .. Len(r)
    BY <1>7
  <2> QED BY <1>1, <1>5, <2>1, <2>2, FewLead
<1>9. k \in DOMAIN o /\ o[k] = a
  <2>1. k \in DOMAIN r /\ k <= BoardSize
    BY <1>1, <1>7, <1>8
  <2> QED BY <1>3, <1>5, <1>6, <2>1, CutKeeps
<1>10. Seats(o) \subseteq Seats(b) \union {a}
  BY <1>3, <1>4, <1>5, CutKeeps
<1>11. a \in Seats(o)
  BY <1>9 DEF Seats
<1>12. Cardinality(Leads(s, Seats(o), a)) < ConsensusSize
  <2>1. Leads(s, Seats(o), a) \subseteq Leads(s, Seats(b), a)
    <3>1. ~ BetterSeat(s, a, a)
      BY <1>2, GovernanceAssumption DEF BetterSeat
    <3> QED BY <1>10, <3>1 DEF Leads
  <2> QED BY <1>1, <2>1, LeadsGrow
<1>13. Leads(s, Seats(o), a) = {c \in Seats(o) : s[c] > 0 /\ BetterSeat(s, c, a)}
  BY DEF Leads
<1> QED BY <1>2, <1>11, <1>12, <1>13 DEF ConsensusMembers, Best, o

LEMMA OfferReadmits ==
  ASSUME NEW s \in Holdings, NEW a \in Best(s, Accounts), NEW b, Shaped(b)
  PROVE  a \in ConsensusMembers(s, Offer(s, b, a))
<1>1. a \in Accounts /\ s[a] > 0 /\ Cardinality(Leads(s, Accounts, a)) < ConsensusSize
  BY DEF Best, Leads
<1>2. Seats(b) \subseteq Accounts
  BY SeatsOfBoard DEF Shaped
<1>3. Leads(s, Seats(b), a) \subseteq Leads(s, Accounts, a)
  BY <1>2 DEF Leads
<1>4. Cardinality(Leads(s, Seats(b), a)) < ConsensusSize
  BY <1>1, <1>2, <1>3, LeadsGrow
<1> QED BY <1>1, <1>4, OfferAdmits

-----------------------------------------------------------------------------
(* The lower median lies between the votes of others.                      *)

Below(p, V, v) == {c \in V : p[c] < v}

UpTo(p, V, v) == {c \in V : p[c] <= v}

\* Preferences that count lie within the bounds.
Counted(p, V) == V \subseteq Accounts /\ \A c \in V : p[c] \in Min .. Max

LEMMA CountedFinite ==
  ASSUME NEW p, NEW V, Counted(p, V), NEW T \in SUBSET V
  PROVE  IsFiniteSet(T) /\ Cardinality(T) \in Nat /\ Cardinality(T) <= Cardinality(V)
         /\ IsFiniteSet(V) /\ Cardinality(V) \in Nat
<1>1. IsFiniteSet(V)
  BY GovernanceAssumption, FS_Subset DEF Counted
<1> QED BY <1>1, FS_Subset, FS_CardinalityType

\* Among voters there is one with the highest preference.
LEMMA HighestExists ==
  ASSUME NEW p, NEW V, Counted(p, V), NEW T \in SUBSET V, T # {}
  PROVE  \E x \in T : \A c \in T : p[c] <= p[x]
<1> DEFINE R == {Max - p[c] : c \in T}
<1>1. Max \in Int /\ Min \in Int /\ \A c \in T : p[c] \in Min .. Max
  BY GovernanceAssumption DEF Counted
<1>2. R \subseteq Nat /\ R # {}
  BY <1>1
<1>3. PICK r \in R : \A k \in R : r <= k
  <2> HIDE DEF R
  <2> QED BY <1>2, LeastExists
<1>4. PICK x \in T : r = Max - p[x]
  BY <1>3
<1>5. ASSUME NEW c \in T PROVE p[c] <= p[x]
  <2>1. Max - p[x] <= Max - p[c]
    BY <1>3, <1>4
  <2> QED BY <1>1, <2>1
<1> QED BY <1>5

\* The least value that more than m voters do not exceed.
LEMMA MedianExists ==
  ASSUME NEW p, NEW V, Counted(p, V), NEW m \in Nat, m < Cardinality(V)
  PROVE  \E v \in {p[a] : a \in V} :
           Cardinality(Below(p, V, v)) <= m /\ m < Cardinality(UpTo(p, V, v))
<1> DEFINE X == {v \in {p[a] : a \in V} : m < Cardinality(UpTo(p, V, v))}
           R == {v - Min : v \in X}
<1>1. Max \in Int /\ Min \in Int /\ \A c \in V : p[c] \in Min .. Max
  BY GovernanceAssumption DEF Counted
<1>2. X # {}
  <2>1. V # {}
    BY FS_EmptySet
  <2>2. PICK x \in V : \A c \in V : p[c] <= p[x]
    BY <2>1, HighestExists
  <2>3. UpTo(p, V, p[x]) = V
    BY <2>2 DEF UpTo
  <2>4. p[x] \in X
    BY <2>3
  <2> QED BY <2>4
<1>3. \A v \in X : v \in Min .. Max /\ v \in {p[a] : a \in V} /\ m < Cardinality(UpTo(p, V, v))
  BY <1>1
<1>4. \A a \in V : m < Cardinality(UpTo(p, V, p[a])) => p[a] \in X
  OBVIOUS
<1> HIDE DEF X
<1>5. R \subseteq Nat /\ R # {}
  BY <1>1, <1>2, <1>3
<1>6. PICK r \in R : \A k \in R : r <= k
  <2> HIDE DEF R
  <2> QED BY <1>5, LeastExists
<1>7. PICK v \in X : r = v - Min
  BY <1>6
<1>8. \A w \in X : v <= w
  <2>1. ASSUME NEW w \in X PROVE v <= w
    <3>1. v - Min <= w - Min
      BY <1>6, <1>7
    <3> QED BY <1>1, <1>3, <3>1
  <2> QED BY <2>1
<1> DEFINE B == Below(p, V, v)
<1>9. B \in SUBSET V /\ Cardinality(B) \in Nat /\ IsFiniteSet(B)
  <2>1. B \in SUBSET V
    BY DEF Below
  <2> HIDE DEF B
  <2> QED BY <2>1, CountedFinite
<1>10. ASSUME Cardinality(B) > m PROVE FALSE
  <2>1. B # {}
    BY <1>9, <1>10, FS_EmptySet
  <2>2. PICK x \in B : \A c \in B : p[c] <= p[x]
    <3> HIDE DEF B
    <3> QED BY <1>9, <2>1, HighestExists
  <2>3. x \in V /\ p[x] < v /\ v \in Min .. Max
    BY <1>3, <2>2 DEF Below
  <2>4. UpTo(p, V, p[x]) = B
    <3>1. ASSUME NEW c \in V PROVE p[c] <= p[x] <=> p[c] < v
      <4>1. p[c] < v => p[c] <= p[x]
        BY <2>2 DEF Below
      <4>2. p[c] \in Int /\ p[x] \in Int /\ v \in Int
        BY <1>1, <2>3
      <4> QED BY <2>3, <4>1, <4>2
    <3> QED BY <3>1 DEF UpTo, Below
  <2>5. p[x] \in X
    BY <1>4, <1>10, <2>3, <2>4
  <2>6. p[x] \in Int /\ v \in Int
    BY <1>1, <2>3
  <2> QED BY <1>8, <2>3, <2>5, <2>6
<1>11. Cardinality(B) <= m
  BY <1>9, <1>10
<1> QED BY <1>3, <1>7, <1>11

LEMMA MedianOfVotes ==
  ASSUME NEW p, NEW V, Counted(p, V), V # {}
  PROVE  LET v == EffectiveValue(p, V)
             m == (Cardinality(V) - 1) \div 2
         IN  /\ v \in {p[a] : a \in V} /\ m \in Nat
             /\ Cardinality(Below(p, V, v)) <= m /\ m < Cardinality(UpTo(p, V, v))
<1> DEFINE m == (Cardinality(V) - 1) \div 2
           A == {p[a] : a \in V}
<1>1. Cardinality(V) \in Nat /\ Cardinality(V) # 0
  BY CountedFinite, FS_EmptySet
<1>2. m \in Nat /\ m < Cardinality(V)
  BY <1>1
<1> HIDE DEF m
<1>3. \E v \in A : Cardinality(Below(p, V, v)) <= m /\ m < Cardinality(UpTo(p, V, v))
  BY <1>2, MedianExists
<1>4. EffectiveValue(p, V)
        = CHOOSE v \in A : Cardinality(Below(p, V, v)) <= m /\ m < Cardinality(UpTo(p, V, v))
  BY DEF EffectiveValue, Below, UpTo, m
<1> HIDE DEF A
<1>5. LET v == EffectiveValue(p, V)
      IN  v \in A /\ Cardinality(Below(p, V, v)) <= m /\ m < Cardinality(UpTo(p, V, v))
  BY <1>3, <1>4
<1> QED BY <1>2, <1>5 DEF A, m

\* Two members of a set leave one besides any other.
LEMMA OneBesides ==
  ASSUME NEW T, IsFiniteSet(T), Cardinality(T) >= 2, NEW a
  PROVE  \E c \in T : c # a
<1>1. SUFFICES ASSUME T \subseteq {a} PROVE FALSE
  OBVIOUS
<1>2. IsFiniteSet({a}) /\ Cardinality({a}) = 1
  BY FS_Singleton
<1>3. Cardinality(T) <= Cardinality({a}) /\ Cardinality(T) \in Nat
  BY <1>1, <1>2, FS_Subset, FS_CardinalityType
<1> QED BY <1>2, <1>3

LEMMA MedianIsBetween ==
  ASSUME NEW p, NEW V, Counted(p, V), Cardinality(V) >= 3, NEW a \in V
  PROVE  \E lo, hi \in V \ {a} : p[lo] <= EffectiveValue(p, V) /\ EffectiveValue(p, V) <= p[hi]
<1> DEFINE v == EffectiveValue(p, V)
           m == (Cardinality(V) - 1) \div 2
           B == Below(p, V, v)
           U == UpTo(p, V, v)
<1>1. IsFiniteSet(V) /\ Cardinality(V) \in Nat /\ V # {}
  BY CountedFinite
<1>2. v \in {p[c] : c \in V} /\ m \in Nat /\ Cardinality(B) <= m /\ m < Cardinality(U)
  BY <1>1, MedianOfVotes
<1>3. m >= 1 /\ Cardinality(V) - m >= 2
  BY <1>1
<1>4. B \in SUBSET V /\ U \in SUBSET V
  BY DEF Below, UpTo
<1>5. \A c \in V : p[c] \in Int /\ v \in Int
  BY <1>2, GovernanceAssumption DEF Counted
<1>6. \A c \in U : p[c] <= v
  BY DEF UpTo
<1>7. \A c \in V \ B : v <= p[c]
  <2>1. ASSUME NEW c \in V \ B PROVE v <= p[c]
    <3>1. ~ (p[c] < v)
      BY DEF Below
    <3>2. p[c] \in Int /\ v \in Int
      BY <1>5
    <3> QED BY <3>1, <3>2
  <2> QED BY <2>1
<1> HIDE DEF v, m, B, U
<1>8. IsFiniteSet(U) /\ Cardinality(U) \in Nat /\ IsFiniteSet(B) /\ Cardinality(B) \in Nat
  BY <1>4, CountedFinite
<1>9. PICK lo \in U : lo # a
  <2>1. Cardinality(U) >= 2
    BY <1>2, <1>3, <1>8
  <2> QED BY <1>8, <2>1, OneBesides
<1>10. PICK hi \in V \ B : hi # a
  <2>1. IsFiniteSet(V \ B) /\ Cardinality(V \ B) = Cardinality(V) - Cardinality(V \cap B)
    BY <1>1, FS_Difference
  <2>2. V \cap B = B
    BY <1>4
  <2>3. Cardinality(V \ B) >= 2
    BY <1>1, <1>2, <1>3, <1>8, <2>1, <2>2
  <2> QED BY <2>1, <2>3, OneBesides
<1>11. p[lo] <= v /\ v <= p[hi] /\ lo \in V \ {a} /\ hi \in V \ {a}
  BY <1>4, <1>6, <1>7, <1>9, <1>10
<1> QED BY <1>11 DEF v

LEMMA VotesCount ==
  ASSUME TypeOK
  PROVE  Counted(pref, Votes(shr, board, pref))
<1>1. Seats(board) \subseteq Accounts
  BY TypeFacts, SeatsOfBoard DEF Shaped
<1>2. ConsensusMembers(shr, board) \subseteq Accounts
  BY <1>1 DEF ConsensusMembers, Best
<1>3. \A c \in Accounts : pref[c] \in (Min .. Max) \union {NoPreference}
  BY DEF TypeOK
<1> QED BY <1>2, <1>3 DEF Votes, Counted

-----------------------------------------------------------------------------
(* The theorems.                                                           *)

LEMMA TypedIsSound ==
  ASSUME TypeOK
  PROVE  NoOneRulesAlone
<1>1. shr \in Holdings /\ Shaped(board)
  BY TypeFacts
<1>2. ExclusionIsFixable
  BY <1>1, OfferReadmits DEF ExclusionIsFixable, DeservingGroup
<1>3. OneVoteIsBounded
  BY VotesCount, MedianIsBetween DEF OneVoteIsBounded
<1> QED BY <1>2, <1>3 DEF NoOneRulesAlone, BoardIsSound

\* Shares, seats and preferences keep their types, and nobody has two seats,
\* whoever is offered and however stale the board is (offer, putBoard).
THEOREM BoardKeepsShape == Spec => []TypeOK
BY InitTyped, NextTyped, PTL DEF Spec

\* One offer readmits whoever belongs to the group, and no member moves the
\* parameter beyond what other members ask for, for every size of board and
\* group and any holdings (offer, EffectiveParam).
THEOREM NobodyRules == Spec => []NoOneRulesAlone
BY TypedIsSound, BoardKeepsShape, PTL

-----------------------------------------------------------------------------
(* The page of the seats, read at one moment.                              *)

RowOf(s, p, a) == [account |-> a, shares |-> s[a], preference |-> Preference(p, a)]

LEMMA RowsRead ==
  ASSUME NEW b \in Seq(Accounts), NEW s, NEW p
  PROVE  LET rows == Rows(b, s, p)
         IN  /\ {rows[i].account : i \in DOMAIN rows} = Seats(b)
             /\ \A a \in Seats(b) : Row(rows, a) = RowOf(s, p, a)
<1> DEFINE rows == Rows(b, s, p)
           R == {rows[i] : i \in DOMAIN rows}
<1>1. DOMAIN rows = DOMAIN b /\ \A i \in DOMAIN b : rows[i] = RowOf(s, p, b[i])
  BY DEF Rows, RowOf
<1> HIDE DEF rows
<1>2. \A a : RowOf(s, p, a).account = a
  BY DEF RowOf
<1>3. R = {RowOf(s, p, a) : a \in Seats(b)}
  BY <1>1 DEF Seats
<1> HIDE DEF R
<1>4. {rows[i].account : i \in DOMAIN rows} = Seats(b)
  BY <1>1, <1>2 DEF Seats
<1>5. ASSUME NEW a \in Seats(b) PROVE Row(rows, a) = RowOf(s, p, a)
  <2>1. Row(rows, a) = CHOOSE r \in R : r.account = a
    BY DEF Row, R
  <2>2. RowOf(s, p, a) \in R /\ RowOf(s, p, a).account = a
    BY <1>2, <1>3
  <2>3. Row(rows, a) \in R /\ Row(rows, a).account = a
    BY <2>1, <2>2
  <2>4. PICK c \in Seats(b) : Row(rows, a) = RowOf(s, p, c)
    BY <1>3, <2>3
  <2> QED BY <1>2, <2>3, <2>4
<1> QED BY <1>4, <1>5 DEF rows

\* Ranking looks at the shares of those it ranks, and at nothing else.
LEMMA BestReads ==
  ASSUME NEW A, NEW s, NEW t, \A a \in A : s[a] = t[a]
  PROVE  Best(s, A) = Best(t, A)
<1>1. \A a \in A : Leads(s, A, a) = Leads(t, A, a)
  BY DEF Leads, BetterSeat
<1>2. Best(s, A) = {a \in A : s[a] > 0 /\ Cardinality(Leads(s, A, a)) < ConsensusSize}
      /\ Best(t, A) = {a \in A : t[a] > 0 /\ Cardinality(Leads(t, A, a)) < ConsensusSize}
  BY DEF Best, Leads
<1> QED BY <1>1, <1>2

LEMMA PageSeats ==
  ASSUME NEW b \in Seq(Accounts), NEW s, NEW p
  PROVE  SeatsOf(Rows(b, s, p)) = ConsensusMembers(s, b)
<1> DEFINE rows == Rows(b, s, p)
           shares == [a \in Seats(b) |-> Row(rows, a).shares]
<1>1. {rows[i].account : i \in DOMAIN rows} = Seats(b)
      /\ \A a \in Seats(b) : Row(rows, a) = RowOf(s, p, a)
  BY RowsRead
<1> HIDE DEF rows
<1>2. \A a \in Seats(b) : shares[a] = s[a]
  BY <1>1 DEF RowOf
<1>3. SeatsOf(rows) = Best(shares, Seats(b))
  BY <1>1 DEF SeatsOf
<1> HIDE DEF shares
<1> QED BY <1>2, <1>3, BestReads DEF ConsensusMembers, rows

\* The lower median of the votes is one value.
LEMMA MedianUnique ==
  ASSUME NEW p, NEW V, Counted(p, V), NEW m \in Nat, NEW v \in Int, NEW w \in Int,
         Cardinality(Below(p, V, v)) <= m /\ m < Cardinality(UpTo(p, V, v)),
         Cardinality(Below(p, V, w)) <= m /\ m < Cardinality(UpTo(p, V, w))
  PROVE  ~ (v < w)
<1>1. SUFFICES ASSUME v < w PROVE FALSE
  OBVIOUS
<1>2. \A c \in V : p[c] \in Int
  BY GovernanceAssumption DEF Counted
<1>3. UpTo(p, V, v) \subseteq Below(p, V, w) /\ Below(p, V, w) \in SUBSET V
  BY <1>1, <1>2 DEF UpTo, Below
<1>4. IsFiniteSet(Below(p, V, w)) /\ Cardinality(Below(p, V, w)) \in Nat
  BY <1>3, CountedFinite
<1>5. Cardinality(UpTo(p, V, v)) <= Cardinality(Below(p, V, w)) /\ IsFiniteSet(UpTo(p, V, v))
  BY <1>3, <1>4, FS_Subset
<1>6. Cardinality(UpTo(p, V, v)) \in Nat
  BY <1>5, FS_CardinalityType
<1> QED BY <1>4, <1>5, <1>6

\* The median looks at the preferences of those who vote.
LEMMA MedianReads ==
  ASSUME NEW V, NEW p, NEW q, Counted(p, V), \A c \in V : p[c] = q[c]
  PROVE  EffectiveValue(p, V) = EffectiveValue(q, V)
<1>1. CASE V = {}
  BY <1>1 DEF EffectiveValue
<1>2. CASE V # {}
  <2> DEFINE v == EffectiveValue(p, V)
             w == EffectiveValue(q, V)
             m == (Cardinality(V) - 1) \div 2
  <2>1. Counted(q, V)
    BY DEF Counted
  <2>2. /\ v \in {p[a] : a \in V} /\ m \in Nat
        /\ Cardinality(Below(p, V, v)) <= m /\ m < Cardinality(UpTo(p, V, v))
    BY <1>2, MedianOfVotes
  <2>3. /\ w \in {q[a] : a \in V}
        /\ Cardinality(Below(q, V, w)) <= m /\ m < Cardinality(UpTo(q, V, w))
    BY <1>2, <2>1, MedianOfVotes
  <2> HIDE DEF v, w, m
  <2>4. v \in Int /\ w \in Int
    BY <2>1, <2>2, <2>3, GovernanceAssumption DEF Counted
  <2>5. Below(q, V, w) = Below(p, V, w) /\ UpTo(q, V, w) = UpTo(p, V, w)
    BY DEF Below, UpTo
  <2>6. ~ (v < w) /\ ~ (w < v)
    BY <2>2, <2>3, <2>4, <2>5, MedianUnique
  <2> QED BY <2>4, <2>6 DEF v, w
<1> QED BY <1>1, <1>2

LEMMA PageValue ==
  ASSUME NEW b \in Seq(Accounts), NEW s,
         NEW p \in [Accounts -> (Min .. Max) \union {NoPreference}]
  PROVE  ValueInForce(Rows(b, s, p)) = EffectiveValue(p, Votes(s, b, p))
<1> DEFINE rows == Rows(b, s, p)
           V == Votes(s, b, p)
           q == [a \in V |-> Clamp(CHOOSE v \in Row(rows, a).preference : TRUE)]
<1>1. \A a \in Seats(b) : Row(rows, a) = RowOf(s, p, a)
  BY RowsRead
<1>2. SeatsOf(rows) = ConsensusMembers(s, b)
  BY PageSeats
<1> HIDE DEF rows
<1>3. ConsensusMembers(s, b) \subseteq Seats(b) /\ Seats(b) \subseteq Accounts
  BY SeatsOfBoard DEF ConsensusMembers, Best
<1>4. \A a \in Seats(b) : Row(rows, a).preference = Preference(p, a)
  BY <1>1 DEF RowOf
<1>5. \A a \in Seats(b) : Row(rows, a).preference # {} <=> p[a] # NoPreference
  BY <1>4 DEF Preference
<1>6. {a \in SeatsOf(rows) : Row(rows, a).preference # {}} = V
  BY <1>2, <1>3, <1>5 DEF Votes
<1>7. ValueInForce(rows) = EffectiveValue(q, V)
  BY <1>6 DEF ValueInForce
<1>8. ASSUME NEW a \in V PROVE q[a] = p[a]
  <2>1. a \in Seats(b) /\ a \in Accounts /\ p[a] # NoPreference
    BY <1>3 DEF Votes
  <2>2. Row(rows, a).preference = {p[a]}
    BY <1>4, <2>1 DEF Preference
  <2>3. (CHOOSE v \in Row(rows, a).preference : TRUE) = p[a]
    BY <2>2
  <2>4. p[a] \in Min .. Max
    BY <2>1
  <2>5. Clamp(p[a]) = p[a]
    BY <2>4, GovernanceAssumption DEF Clamp
  <2>6. q[a] = Clamp(CHOOSE v \in Row(rows, a).preference : TRUE)
    OBVIOUS
  <2> QED BY <2>3, <2>5, <2>6
<1>9. Counted(p, V)
  BY <1>3 DEF Counted, Votes
<1> HIDE DEF q, V
<1>10. EffectiveValue(p, V) = EffectiveValue(q, V)
  BY <1>8, <1>9, MedianReads
<1> QED BY <1>7, <1>10 DEF rows, V

\* Outranking is an order.
LEMMA RankIsOrder ==
  ASSUME NEW s \in Holdings, NEW a \in Accounts, NEW c \in Accounts, NEW d \in Accounts
  PROVE  /\ ~ BetterSeat(s, a, a)
         /\ BetterSeat(s, a, c) /\ BetterSeat(s, c, d) => BetterSeat(s, a, d)
<1>1. s[a] \in Nat /\ s[c] \in Nat /\ s[d] \in Nat /\ a \in Nat /\ c \in Nat /\ d \in Nat
  BY GovernanceAssumption DEF Holdings
<1> QED BY <1>1 DEF BetterSeat

\* Whoever outranks a member of the group is a member.
LEMMA LeadersAreMembers ==
  ASSUME NEW s \in Holdings, NEW T \in SUBSET Accounts, NEW c \in Best(s, T)
  PROVE  {d \in Best(s, T) \ {c} : BetterSeat(s, d, c)} = Leads(s, T, c)
<1>1. c \in T /\ Cardinality(Leads(s, T, c)) < ConsensusSize
  BY DEF Best, Leads
<1>2. ASSUME NEW d \in Leads(s, T, c) PROVE d \in Best(s, T) /\ d # c
  <2>1. d \in T /\ s[d] > 0 /\ BetterSeat(s, d, c)
    BY DEF Leads
  <2>2. Leads(s, T, d) \subseteq Leads(s, T, c)
    <3>1. ASSUME NEW x \in T, BetterSeat(s, x, d) PROVE BetterSeat(s, x, c)
      BY <1>1, <2>1, <3>1, RankIsOrder
    <3> QED BY <3>1 DEF Leads
  <2>3. Cardinality(Leads(s, T, d)) < ConsensusSize
    BY <1>1, <2>2, LeadsGrow
  <2>4. d # c
    BY <1>1, <2>1, RankIsOrder
  <2> QED BY <2>1, <2>3, <2>4 DEF Best, Leads
<1> QED BY <1>2 DEF Best, Leads

\* As soon as enough accounts hold shares, somebody has the last seat.
LEMMA LastSeatExists ==
  ASSUME NEW s \in Holdings, NEW T \in SUBSET Accounts,
         Cardinality({c \in T : s[c] > 0}) >= ConsensusSize
  PROVE  \E c \in Best(s, T) : Cardinality(Leads(s, T, c)) = ConsensusSize - 1
<1> DEFINE H == {c \in T : s[c] > 0}
           E == {c \in H : Cardinality(Leads(s, T, c)) >= ConsensusSize - 1}
           N == {Cardinality(Leads(s, T, c)) : c \in E}
<1>1. ConsensusSize \in Nat \ {0} /\ IsFiniteSet(T) /\ IsFiniteSet(H) /\ Cardinality(H) \in Nat
  BY GovernanceAssumption, FS_Subset, FS_CardinalityType
<1>2. \A c \in H : /\ Leads(s, T, c) \subseteq H /\ IsFiniteSet(Leads(s, T, c))
                   /\ Cardinality(Leads(s, T, c)) \in Nat
  <2>1. \A c \in H : Leads(s, T, c) \in SUBSET H
    BY DEF Leads
  <2> HIDE DEF H
  <2> QED BY <1>1, <2>1, FS_Subset, FS_CardinalityType
<1>3. \A c \in H : c \in Accounts /\ c \in T /\ s[c] > 0
  OBVIOUS
<1>4. \A x : \A c \in T : x \in Leads(s, T, c) <=> x \in H /\ BetterSeat(s, x, c)
  BY DEF Leads
<1>5. H \in SUBSET Accounts /\ Cardinality(H) >= ConsensusSize
  OBVIOUS
<1>6. \A c \in H : Cardinality(Leads(s, T, c)) >= ConsensusSize - 1 <=> c \in E
  OBVIOUS
<1> HIDE DEF H
<1>7. PICK l \in H : \A c \in H \ {l} : BetterSeat(s, c, l)
  <2>1. H # {}
    BY <1>1, <1>5, FS_EmptySet
  <2> QED BY <1>5, <2>1, LowestExists
<1>8. l \in E
  <2>1. Leads(s, T, l) = H \ {l}
    <3>1. ~ BetterSeat(s, l, l)
      BY <1>3, RankIsOrder
    <3> QED BY <1>3, <1>4, <1>7, <3>1
  <2>2. Cardinality(H \ {l}) = Cardinality(H) - 1
    BY <1>1, FS_RemoveElement
  <2> QED BY <1>1, <1>5, <1>6, <2>1, <2>2
<1>9. E \subseteq H /\ \A c \in E : Cardinality(Leads(s, T, c)) >= ConsensusSize - 1
  OBVIOUS
<1> HIDE DEF E
<1>10. PICK n \in N : \A k \in N : n <= k
  <2>1. N \subseteq Nat /\ N # {}
    BY <1>2, <1>8, <1>9
  <2> HIDE DEF N
  <2> QED BY <2>1, LeastExists
<1>11. PICK c \in E : n = Cardinality(Leads(s, T, c))
  BY <1>10
<1>12. \A d \in E : n <= Cardinality(Leads(s, T, d))
  BY <1>10
<1>13. c \in H /\ n \in Nat /\ n >= ConsensusSize - 1
  BY <1>2, <1>9, <1>11
<1>14. ASSUME n >= ConsensusSize PROVE FALSE
  <2> DEFINE L == Leads(s, T, c)
  <2>1. L \subseteq H /\ IsFiniteSet(L) /\ L # {} /\ Cardinality(L) = n
    BY <1>1, <1>2, <1>11, <1>13, <1>14, FS_EmptySet
  <2>2. \A x : x \in L <=> x \in H /\ BetterSeat(s, x, c)
    BY <1>3, <1>4, <1>13
  <2> HIDE DEF L
  <2>3. PICK d \in L : \A x \in L \ {d} : BetterSeat(s, x, d)
    BY <1>5, <2>1, LowestExists
  <2>4. d \in H /\ BetterSeat(s, d, c)
    BY <2>2
  <2>5. Leads(s, T, d) = L \ {d}
    <3>1. ASSUME NEW x \in Leads(s, T, d) PROVE x \in L \ {d}
      <4>1. x \in H /\ BetterSeat(s, x, d)
        BY <1>3, <1>4, <2>4, <3>1
      <4>2. x # d /\ BetterSeat(s, x, c)
        BY <1>3, <1>13, <2>4, <4>1, RankIsOrder
      <4> QED BY <2>2, <4>1, <4>2
    <3>2. ASSUME NEW x \in L \ {d} PROVE x \in Leads(s, T, d)
      BY <1>3, <1>4, <2>1, <2>3, <2>4, <3>2
    <3> QED BY <3>1, <3>2
  <2>6. Cardinality(L \ {d}) = n - 1
    BY <2>1, FS_RemoveElement
  <2> HIDE DEF N
  <2>7. Cardinality(Leads(s, T, d)) = n - 1
    BY <2>5, <2>6
  <2>8. n - 1 >= ConsensusSize - 1 /\ ~ (n <= n - 1)
    BY <1>1, <1>13, <1>14
  <2>9. d \in E
    BY <1>6, <2>4, <2>7, <2>8
  <2>10. n <= Cardinality(Leads(s, T, d))
    BY <1>12, <2>9
  <2> QED BY <2>7, <2>8, <2>10
<1>15. n = ConsensusSize - 1
  BY <1>1, <1>13, <1>14
<1>16. c \in Best(s, T)
  <2>1. c \in T /\ s[c] > 0 /\ Cardinality(Leads(s, T, c)) < ConsensusSize
    BY <1>1, <1>3, <1>11, <1>13, <1>15
  <2> QED BY <2>1 DEF Best, Leads
<1> QED BY <1>11, <1>15, <1>16

\* The rank the page computes is one more than how many outrank the member.
LEMMA PageRank ==
  ASSUME NEW s \in Holdings, NEW b \in Seq(Accounts), NEW p, NEW c \in ConsensusMembers(s, b)
  PROVE  /\ RankIn(Rows(b, s, p), c) = 1 + Cardinality(Leads(s, Seats(b), c))
         /\ RankIn(Rows(b, s, p), c) # 0
<1> DEFINE rows == Rows(b, s, p)
           M == ConsensusMembers(s, b)
           shares == [d \in M |-> Row(rows, d).shares]
           ahead == {d \in M \ {c} : BetterSeat(shares, d, c)}
<1>1. SeatsOf(rows) = M /\ \A a \in Seats(b) : Row(rows, a) = RowOf(s, p, a)
  BY PageSeats, RowsRead
<1> HIDE DEF rows
<1>2. Seats(b) \in SUBSET Accounts /\ IsFiniteSet(Seats(b)) /\ M = Best(s, Seats(b))
      /\ M \subseteq Seats(b)
  BY SeatsOfBoard DEF ConsensusMembers, Best
<1> HIDE DEF M
<1>3. \A d \in M : shares[d] = s[d]
  BY <1>1, <1>2 DEF RowOf
<1>4. RankIn(rows, c) = 1 + Cardinality(ahead)
  BY <1>1 DEF RankIn
<1> HIDE DEF shares
<1>5. ahead = {d \in M \ {c} : BetterSeat(s, d, c)}
  BY <1>3 DEF BetterSeat, M
<1>6. ahead = Leads(s, Seats(b), c)
  BY <1>2, <1>5, LeadersAreMembers DEF M
<1>7. Cardinality(Leads(s, Seats(b), c)) \in Nat
  BY <1>2, FS_Subset, FS_CardinalityType DEF Leads
<1> HIDE DEF ahead
<1>8. RankIn(rows, c) = 1 + Cardinality(Leads(s, Seats(b), c)) /\ RankIn(rows, c) # 0
  <2> DEFINE n == Cardinality(Leads(s, Seats(b), c))
             r == RankIn(rows, c)
  <2>1. r = 1 + n /\ n \in Nat
    BY <1>4, <1>6, <1>7
  <2> HIDE DEF n, r
  <2>2. r # 0
    BY <2>1
  <2> QED BY <2>1, <2>2 DEF n, r
<1> QED BY <1>8 DEF rows

\* An account that is told how much it lacks gets in with that and one offer.
LEMMA GainSeats ==
  ASSUME NEW s \in Holdings, NEW b, Shaped(b), NEW a \in Accounts,
         NEW p, NEW more \in Nat, NEW last,
         last = {c \in SeatsOf(Rows(b, s, p)) : RankIn(Rows(b, s, p), c) = ConsensusSize},
         last # {} => \E c \in last : s[c] <= s[a] + more
  PROVE  LET gained == [s EXCEPT ![a] = @ + more + 1]
         IN  a \in ConsensusMembers(gained, Offer(gained, b, a))
<1> DEFINE gained == [s EXCEPT ![a] = @ + more + 1]
           T == Seats(b)
<1>1. b \in Seq(Accounts) /\ T \in SUBSET Accounts /\ IsFiniteSet(T)
      /\ ConsensusSize \in Nat \ {0} /\ s[a] \in Nat
  BY GovernanceAssumption, SeatsOfBoard DEF Shaped, Holdings
<1> HIDE DEF T
<1>2. SeatsOf(Rows(b, s, p)) = Best(s, T)
      /\ \A c \in Best(s, T) : RankIn(Rows(b, s, p), c) = 1 + Cardinality(Leads(s, T, c))
  BY <1>1, PageSeats, PageRank DEF ConsensusMembers, T
<1>3. /\ gained \in Holdings /\ gained[a] = s[a] + more + 1 /\ gained[a] > 0
      /\ \A c \in Accounts : c # a => gained[c] = s[c]
  BY <1>1 DEF Holdings
<1> HIDE DEF gained
<1>4. \A c \in Leads(gained, T, a) : /\ c \in T /\ c \in Accounts /\ c # a
                                     /\ s[c] > 0 /\ s[c] >= gained[a]
  <2>1. ASSUME NEW c \in Leads(gained, T, a)
        PROVE  c \in T /\ c \in Accounts /\ c # a /\ s[c] > 0 /\ s[c] >= gained[a]
    <3>1. c \in T /\ c \in Accounts /\ gained[c] > 0 /\ BetterSeat(gained, c, a)
      BY <1>1 DEF Leads
    <3>2. c # a
      BY <1>3, <3>1, RankIsOrder
    <3>3. gained[c] = s[c] /\ s[c] \in Nat /\ gained[a] \in Nat
      BY <1>1, <1>3, <3>1, <3>2 DEF Holdings
    <3> QED BY <3>1, <3>2, <3>3 DEF BetterSeat
  <2> QED BY <2>1
<1>5. Cardinality(Leads(gained, T, a)) < ConsensusSize
  <2>1. CASE last = {}
    <3> DEFINE H == {c \in T : s[c] > 0}
    <3>1. IsFiniteSet(H) /\ Cardinality(H) \in Nat
      BY <1>1, FS_Subset, FS_CardinalityType
    <3>2. ~ (Cardinality(H) >= ConsensusSize)
      <4>1. SUFFICES ASSUME Cardinality(H) >= ConsensusSize PROVE FALSE
        OBVIOUS
      <4>2. PICK c \in Best(s, T) : Cardinality(Leads(s, T, c)) = ConsensusSize - 1
        BY <1>1, <4>1, LastSeatExists
      <4>3. 1 + (ConsensusSize - 1) = ConsensusSize
        BY <1>1
      <4>4. RankIn(Rows(b, s, p), c) = ConsensusSize
        BY <1>2, <4>2, <4>3
      <4> QED BY <1>2, <2>1, <4>4
    <3>3. Leads(gained, T, a) \subseteq H
      BY <1>4
    <3> HIDE DEF H
    <3>4. Cardinality(Leads(gained, T, a)) <= Cardinality(H) /\ IsFiniteSet(Leads(gained, T, a))
      BY <3>1, <3>3, FS_Subset
    <3>5. Cardinality(Leads(gained, T, a)) \in Nat
      BY <3>4, FS_CardinalityType
    <3> QED BY <1>1, <3>1, <3>2, <3>4, <3>5
  <2>2. CASE last # {}
    <3>1. PICK c \in last : s[c] <= s[a] + more
      BY <2>2
    <3>2. c \in Best(s, T)
      BY <1>2
    <3>3. Cardinality(Leads(s, T, c)) < ConsensusSize /\ c \in Accounts /\ s[c] \in Nat
      BY <1>1, <3>2 DEF Best, Leads, Holdings
    <3>4. Leads(gained, T, a) \subseteq Leads(s, T, c)
      <4>1. ASSUME NEW d \in Leads(gained, T, a) PROVE d \in Leads(s, T, c)
        <5>1. d \in T /\ s[d] > 0 /\ s[d] >= gained[a] /\ s[d] \in Nat
          BY <1>4 DEF Holdings
        <5>2. s[d] > s[c]
          BY <1>1, <1>3, <3>1, <3>3, <5>1
        <5> QED BY <5>1, <5>2 DEF Leads, BetterSeat
      <4> QED BY <4>1
    <3> QED BY <1>1, <3>3, <3>4, LeadsGrow
  <2> QED BY <2>1, <2>2
<1> QED BY <1>3, <1>5, OfferAdmits DEF gained, T

LEMMA PageStanding ==
  ASSUME NEW s \in Holdings, NEW b, Shaped(b), NEW a \in Accounts, NEW p
  PROVE  LET says   == Standing(Rows(b, s, p), a, s[a])
             gained == [s EXCEPT ![a] = @ + says.more + 1]
         IN  says.says # "seated" => a \in ConsensusMembers(gained, Offer(gained, b, a))
<1> DEFINE rows == Rows(b, s, p)
           says == Standing(rows, a, s[a])
           last == {c \in SeatsOf(rows) : RankIn(rows, c) = ConsensusSize}
           w == CHOOSE c \in last : TRUE
           gap == Row(rows, w).shares - s[a]
<1> SUFFICES ASSUME says.says # "seated"
             PROVE  LET gained == [s EXCEPT ![a] = @ + says.more + 1]
                    IN  a \in ConsensusMembers(gained, Offer(gained, b, a))
  OBVIOUS
<1>1. b \in Seq(Accounts) /\ Seats(b) \subseteq Accounts /\ s[a] \in Nat
  BY SeatsOfBoard DEF Shaped, Holdings
<1>2. SeatsOf(rows) \subseteq Seats(b) /\ \A c \in Seats(b) : Row(rows, c).shares = s[c]
  <2>1. SeatsOf(rows) = Best(s, Seats(b))
    BY <1>1, PageSeats DEF ConsensusMembers
  <2>2. \A c \in Seats(b) : Row(rows, c) = RowOf(s, p, c)
    BY <1>1, RowsRead
  <2>3. Best(s, Seats(b)) \subseteq Seats(b)
    BY DEF Best
  <2> HIDE DEF rows
  <2>4. \A c \in Seats(b) : Row(rows, c).shares = s[c]
    BY <2>2 DEF RowOf
  <2> QED BY <2>1, <2>3, <2>4
<1>3. says = CASE MySeat(rows, a) # 0 -> [says |-> "seated", more |-> 0]
               [] MySeat(rows, a) = 0 /\ last = {} -> [says |-> "unfilled", more |-> 0]
               [] OTHER -> [says |-> "not in", more |-> IF gap > 0 THEN gap ELSE 0]
  BY DEF Standing
<1>4. MySeat(rows, a) = 0
  <2>1. CASE MySeat(rows, a) # 0
    <3>1. says = [says |-> "seated", more |-> 0]
      BY <1>3, <2>1
    <3> QED BY <3>1
  <2> QED BY <2>1
<1> HIDE DEF rows, says
<1>5. says.more \in Nat /\ (last # {} => \E c \in last : s[c] <= s[a] + says.more)
  <2>1. CASE last = {}
    <3>1. says = [says |-> "unfilled", more |-> 0]
      BY <1>3, <1>4, <2>1
    <3> QED BY <2>1, <3>1
  <2>2. CASE last # {}
    <3>1. w \in last
      BY <2>2
    <3>2. says = [says |-> "not in", more |-> IF gap > 0 THEN gap ELSE 0]
      BY <1>3, <1>4, <2>2
    <3> HIDE DEF w
    <3>3. gap = s[w] - s[a] /\ s[w] \in Nat
      BY <1>1, <1>2, <3>1 DEF Holdings
    <3> HIDE DEF gap
    <3>4. says.more = IF gap > 0 THEN gap ELSE 0
      BY <3>2
    <3>5. says.more \in Nat /\ s[w] <= s[a] + says.more
      BY <1>1, <3>3, <3>4
    <3> QED BY <3>1, <3>5
  <2> QED BY <2>1, <2>2
<1> DEFINE more == says.more
<1> HIDE DEF more
<1>6. more \in Nat /\ (last # {} => \E c \in last : s[c] <= s[a] + more)
  BY <1>5 DEF more
<1>7. last = {c \in SeatsOf(Rows(b, s, p)) : RankIn(Rows(b, s, p), c) = ConsensusSize}
  BY DEF rows
<1> HIDE DEF last
<1>8. LET gained == [s EXCEPT ![a] = @ + more + 1]
      IN  a \in ConsensusMembers(gained, Offer(gained, b, a))
  BY <1>6, <1>7, GainSeats
<1> QED BY <1>8 DEF more

LEMMA PageEditor ==
  ASSUME NEW s \in Holdings, NEW b \in Seq(Accounts), NEW p, NEW a, NEW v \in Int
  PROVE  MaySet(Rows(b, s, p), a, v) <=> v \in Min .. Max /\ a \in ConsensusMembers(s, b)
<1>1. MySeat(Rows(b, s, p), a) # 0 <=> a \in ConsensusMembers(s, b)
  BY PageSeats, PageRank DEF MySeat
<1>2. InBounds(v) <=> v \in Min .. Max
  BY GovernanceAssumption DEF InBounds
<1> QED BY <1>1, <1>2 DEF MaySet

\* Whatever the board has become, the page of the seats says what the chain
\* does: seats, value in force, who may vote, and what it takes to get a seat.
THEOREM PageIsTheChain == Spec => []BoardPageTellsTheTruth
<1>1. ASSUME TypeOK PROVE BoardPageTellsTheTruth
  <2> DEFINE rows == Rows(board, shr, pref)
  <2>1. shr \in Holdings /\ Shaped(board) /\ board \in Seq(Accounts)
        /\ pref \in [Accounts -> (Min .. Max) \union {NoPreference}]
    BY <1>1, TypeFacts DEF Shaped, TypeOK
  <2>2. SeatsOf(rows) = ConsensusMembers(shr, board)
    BY <2>1, PageSeats
  <2>3. ValueInForce(rows) = EffectiveValue(pref, Votes(shr, board, pref))
    BY <2>1, PageValue
  <2>4. \A a \in Accounts, v \in Values :
          MaySet(rows, a, v) <=> v \in Min .. Max /\ a \in ConsensusMembers(shr, board)
    <3>1. \A v \in Values : v \in Int
      BY GovernanceAssumption
    <3> QED BY <2>1, <3>1, PageEditor
  <2>5. \A a \in Accounts :
          LET says   == Standing(rows, a, shr[a])
              gained == [shr EXCEPT ![a] = @ + says.more + 1]
          IN  says.says # "seated" => a \in ConsensusMembers(gained, Offer(gained, board, a))
    BY <2>1, PageStanding
  <2> HIDE DEF rows
  <2> QED BY <2>2, <2>3, <2>4, <2>5 DEF BoardPageTellsTheTruth, rows
<1> QED BY <1>1, BoardKeepsShape, PTL
=============================================================================
