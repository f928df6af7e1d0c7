-------------------------- MODULE TokenLedger_proofs --------------------------
(***************************************************************************)
(* Proofs about TokenLedger.  A call is a chain of steps, and every step   *)
(* is described by three differences: how it moves the balances (Bal), how *)
(* it moves the books apart from what stands behind them (Spread) and how  *)
(* it moves the tokens apart from them (Gap).  A call ends where all three *)
(* add up again.                                                           *)
(***************************************************************************)
EXTENDS TokenLedger, Engine_proofs

Plus(f, a, d) == [f EXCEPT ![a] = @ + d]

Bal(s) == [a \in Accounts |-> s.store.bal[a] + s.token.bal[a]]

Rows(s) == Total(s.store.bal, Accounts)

Spread(s) == Total(Bal(s), Accounts) + s.store.held - Books(s.store)

Gap(s) == s.token.bal[Core] - s.store.held - s.token.supply - Rows(s) + Books(s.store)

\* What every step of a call keeps, apart from balances and the roll.
Kept(s, t) ==
  /\ t \in State
  /\ t.store.held = s.store.held
  /\ t.store.cfg_token = s.store.cfg_token
  /\ t.store.migDone = s.store.migDone
  /\ t.token.owner = s.token.owner

SameBooks(s, t) ==
  /\ t.store.sup_migrated = s.store.sup_migrated
  /\ t.store.sup_emitted = s.store.sup_emitted

\* The step gives account a an amount d, or takes it when d is negative.
Gives(s, t, a, d) ==
  /\ Kept(s, t)
  /\ SameBooks(s, t)
  /\ Bal(t) = Plus(Bal(s), a, d)
  /\ Spread(t) = Spread(s) + d
  /\ Gap(t) = Gap(s) - d
  /\ Adopted(s) => t.token.supply + Rows(t) = s.token.supply + Rows(s)

-----------------------------------------------------------------------------
(* Totals of a state.                                                      *)

LEMMA RowsIsNat ==
  ASSUME NEW s \in State
  PROVE  Rows(s) \in Nat /\ (\A a \in Accounts : s.store.bal[a] \in Nat)
<1>1. \A a \in Accounts : s.store.bal[a] \in Nat
  BY DEF State, Store
<1> QED BY <1>1, TotalIsNat, TokenLedgerAssumption DEF Rows

LEMMA BalIsNat ==
  ASSUME NEW s \in State
  PROVE  /\ Bal(s) \in [Accounts -> Nat]
         /\ Total(Bal(s), Accounts) \in Nat
<1>1. Bal(s) \in [Accounts -> Nat]
  <2>1. ASSUME NEW a \in Accounts PROVE s.store.bal[a] + s.token.bal[a] \in Nat
    BY DEF State, Store, Token
  <2> QED BY <2>1 DEF Bal
<1>2. \A a \in Accounts : Bal(s)[a] \in Nat
  BY <1>1
<1> QED BY <1>1, <1>2, TotalIsNat, TokenLedgerAssumption, Zenon

LEMMA NumbersAreNat ==
  ASSUME NEW s \in State
  PROVE  /\ Rows(s) \in Nat
         /\ s.token.supply \in Nat
         /\ s.token.bal[Core] \in Nat
         /\ s.store.held \in Nat
         /\ Books(s.store) \in Nat
         /\ Total(Bal(s), Accounts) \in Nat
         /\ \A a \in Accounts : s.store.bal[a] \in Nat /\ s.token.bal[a] \in Nat
<1>1. s.token.supply \in Nat /\ \A a \in Accounts \union {Core} : s.token.bal[a] \in Nat
  BY DEF State, Token
<1>2. s.store.held \in Nat /\ Books(s.store) \in Nat
  BY DEF State, Store, Books
<1>3. Core \in Accounts \union {Core} /\ \A a \in Accounts : a \in Accounts \union {Core}
  OBVIOUS
<1> QED BY <1>1, <1>2, <1>3, RowsIsNat, BalIsNat, Zenon

\* One row changes: the rows change by as much.
LEMMA RowsUpdate ==
  ASSUME NEW s \in State, NEW t \in State, NEW a \in Accounts, NEW v \in Nat,
         t.store.bal[a] = v, \A x \in Accounts \ {a} : t.store.bal[x] = s.store.bal[x]
  PROVE  Rows(t) = Rows(s) - s.store.bal[a] + v
<1> DEFINE f == s.store.bal
           g == t.store.bal
<1>1. f \in [Accounts -> Nat] /\ g \in [Accounts -> Nat]
  BY DEF State, Store
<1>2. (\A x \in Accounts \ {a} : g[x] = f[x]) /\ g[a] = v
  OBVIOUS
<1>3. (\A x \in Accounts : f[x] \in Nat) /\ g[a] \in Nat
  BY <1>1
<1>f. IsFiniteSet(Accounts)
  BY TokenLedgerAssumption
<1> HIDE DEF f, g
<1>4. Total(g, Accounts) = Total(f, Accounts) - f[a] + g[a]
  <2>1. \A x \in Accounts \ {a} : g[x] = f[x]
    BY <1>2
  <2>2. g[a] \in Nat
    BY <1>3
  <2>3. \A x \in Accounts : f[x] \in Nat
    BY <1>3
  <2> QED BY <1>f, <2>1, <2>2, <2>3, TotalUpdate
<1> QED BY <1>2, <1>4 DEF Rows, f, g

\* One balance changes: their sum changes by as much.
LEMMA BalUpdate ==
  ASSUME NEW s \in State, NEW t \in State, NEW a \in Accounts, NEW d \in Int,
         Bal(t) = Plus(Bal(s), a, d)
  PROVE  Total(Bal(t), Accounts) = Total(Bal(s), Accounts) + d
<1> DEFINE f == Bal(s)
           g == Bal(t)
<1>1. f \in [Accounts -> Nat] /\ g \in [Accounts -> Nat]
  BY BalIsNat
<1>2. g = [f EXCEPT ![a] = @ + d]
  BY DEF Plus
<1> HIDE DEF f, g
<1>3. (\A x \in Accounts \ {a} : g[x] = f[x]) /\ g[a] = f[a] + d
  BY <1>1, <1>2
<1>4. (\A x \in Accounts : f[x] \in Nat) /\ g[a] \in Nat
  BY <1>1
<1>5. Total(g, Accounts) = Total(f, Accounts) - f[a] + g[a]
  BY <1>3, <1>4, TotalUpdate, TokenLedgerAssumption
<1>6. Total(f, Accounts) \in Nat /\ f[a] \in Nat
  BY <1>4, TotalIsNat, TokenLedgerAssumption
<1>7. Total(g, Accounts) = Total(f, Accounts) + d
  BY <1>3, <1>5, <1>6
<1> QED BY <1>7 DEF f, g

-----------------------------------------------------------------------------
(* The steps.                                                              *)

\* The state s with balances f and supply m in the token.
WithTokens(s, f, m) ==
  [store |-> s.store, token |-> [bal |-> f, supply |-> m, owner |-> s.token.owner]]

LEMMA WithTokensState ==
  ASSUME NEW s \in State, NEW f \in [Accounts \union {Core} -> Nat], NEW m \in Nat
  PROVE  /\ WithTokens(s, f, m) \in State
         /\ WithTokens(s, f, m).store = s.store
         /\ WithTokens(s, f, m).token.bal = f
         /\ WithTokens(s, f, m).token.supply = m
         /\ WithTokens(s, f, m).token.owner = s.token.owner
BY DEF WithTokens, State, Token

LEMMA TokenMintIs ==
  ASSUME NEW s \in State, NEW n \in Nat, NEW t \in TokenMint(s, n)
  PROVE  /\ t = WithTokens(s, [s.token.bal EXCEPT ![Core] = @ + n], s.token.supply + n)
         /\ [s.token.bal EXCEPT ![Core] = @ + n] \in [Accounts \union {Core} -> Nat]
<1>1. t = [s EXCEPT !.token.bal[Core] = @ + n, !.token.supply = @ + n]
  BY DEF TokenMint
<1>2. t = WithTokens(s, [s.token.bal EXCEPT ![Core] = @ + n], s.token.supply + n)
  BY <1>1 DEF WithTokens, State, Token
<1>3. s.token.bal \in [Accounts \union {Core} -> Nat]
  BY DEF State, Token
<1> QED BY <1>2, <1>3

LEMMA TokenTransferIs ==
  ASSUME NEW s \in State, NEW n \in Nat, NEW a \in Accounts, NEW t \in TokenTransfer(s, a, n)
  PROVE  /\ t = WithTokens(s, [s.token.bal EXCEPT ![Core] = @ - n, ![a] = @ + n], s.token.supply)
         /\ [s.token.bal EXCEPT ![Core] = @ - n, ![a] = @ + n] \in [Accounts \union {Core} -> Nat]
<1>1. /\ t = [s EXCEPT !.token.bal[Core] = @ - n, !.token.bal[a] = @ + n]
      /\ s.token.bal[Core] >= n
  BY DEF TokenTransfer
<1>2. t = WithTokens(s, [s.token.bal EXCEPT ![Core] = @ - n, ![a] = @ + n], s.token.supply)
  BY <1>1 DEF WithTokens, State, Token
<1>3. s.token.bal \in [Accounts \union {Core} -> Nat] /\ a # Core
  BY TokenLedgerAssumption DEF State, Token
<1> QED BY <1>1, <1>2, <1>3

LEMMA TokenTransferFromIs ==
  ASSUME NEW s \in State, NEW n \in Nat, NEW a \in Accounts, NEW t \in TokenTransferFrom(s, a, n)
  PROVE  /\ t = WithTokens(s, [s.token.bal EXCEPT ![a] = @ - n, ![Core] = @ + n], s.token.supply)
         /\ [s.token.bal EXCEPT ![a] = @ - n, ![Core] = @ + n] \in [Accounts \union {Core} -> Nat]
         /\ s.token.bal[a] >= n
<1>1. /\ t = [s EXCEPT !.token.bal[a] = @ - n, !.token.bal[Core] = @ + n]
      /\ s.token.bal[a] >= n
  BY DEF TokenTransferFrom
<1>2. t = WithTokens(s, [s.token.bal EXCEPT ![a] = @ - n, ![Core] = @ + n], s.token.supply)
  BY <1>1 DEF WithTokens, State, Token
<1>3. s.token.bal \in [Accounts \union {Core} -> Nat] /\ a # Core
  BY TokenLedgerAssumption DEF State, Token
<1> QED BY <1>1, <1>2, <1>3

\* A step that changes one account's row and tokens gives what both change by.
LEMMA GivesByParts ==
  ASSUME NEW s \in State, NEW t \in State, NEW a \in Accounts, NEW d \in Int,
         Kept(s, t), SameBooks(s, t),
         \A x \in Accounts \ {a} : t.store.bal[x] = s.store.bal[x],
         \A x \in Accounts \ {a} : t.token.bal[x] = s.token.bal[x],
         t.store.bal[a] + t.token.bal[a]
           = s.store.bal[a] + s.token.bal[a] + d,
         t.token.bal[Core] - t.token.supply
           = s.token.bal[Core] - s.token.supply + t.store.bal[a] - s.store.bal[a] - d,
         Adopted(s) => t.token.supply + t.store.bal[a] = s.token.supply + s.store.bal[a]
  PROVE  Gives(s, t, a, d)
<1>1. Rows(t) = Rows(s) - s.store.bal[a] + t.store.bal[a]
  BY RowsIsNat, RowsUpdate
<1>2. Bal(t) = Plus(Bal(s), a, d)
  <2>1. ASSUME NEW x \in Accounts
        PROVE  Bal(t)[x] = IF x = a THEN Bal(s)[x] + d ELSE Bal(s)[x]
    <3>1. CASE x = a
      BY <3>1 DEF Bal
    <3>2. CASE x # a
      BY <3>2 DEF Bal
    <3> QED BY <3>1, <3>2
  <2>3. Bal(s) \in [Accounts -> Nat] /\ Bal(t) \in [Accounts -> Nat]
    BY BalIsNat
  <2> HIDE DEF Bal
  <2> QED BY <2>1, <2>3 DEF Plus
<1>3. Total(Bal(t), Accounts) = Total(Bal(s), Accounts) + d
  BY <1>2, BalUpdate
<1>4. /\ Rows(s) \in Nat /\ s.store.bal[a] \in Nat
      /\ t.store.bal[a] \in Nat
      /\ s.token.supply \in Nat /\ s.token.bal[Core] \in Nat
      /\ t.token.supply \in Nat /\ t.token.bal[Core] \in Nat
      /\ s.store.held \in Nat /\ Books(s.store) \in Nat /\ Total(Bal(s), Accounts) \in Nat
  BY NumbersAreNat, Zenon
<1>5. Books(t.store) = Books(s.store) /\ t.store.held = s.store.held
  BY DEF Kept, SameBooks, Books
<1>6. Spread(t) = Spread(s) + d
  BY <1>3, <1>4, <1>5 DEF Spread
<1>7. Gap(t) = Gap(s) - d
  <2> DEFINE float(u) == u.token.bal[Core] - u.token.supply
  <2>1. float(t) = float(s) + (t.store.bal[a] - s.store.bal[a] - d) /\ float(s) \in Int
    BY <1>4
  <2>2. \A u : Gap(u) = u.token.bal[Core] - u.store.held - u.token.supply - Rows(u) + Books(u.store)
    BY DEF Gap
  <2>3. Gap(t) = float(t) - s.store.held - (Rows(s) - s.store.bal[a] + t.store.bal[a]) + Books(s.store)
    BY <1>1, <1>4, <1>5, <2>2
  <2>4. Gap(s) = float(s) - s.store.held - Rows(s) + Books(s.store)
    BY <1>4, <2>2
  <2> HIDE DEF float
  <2> QED BY <1>4, <2>1, <2>3, <2>4
<1>8. Adopted(s) => t.token.supply + Rows(t) = s.token.supply + Rows(s)
  BY <1>1, <1>4
<1> QED BY <1>2, <1>6, <1>7, <1>8 DEF Gives

\* Two gifts to one account are one.
LEMMA GivesChain ==
  ASSUME NEW s \in State, NEW t, NEW u, NEW a \in Accounts, NEW d \in Int, NEW e \in Int,
         Gives(s, t, a, d), Gives(t, u, a, e)
  PROVE  Gives(s, u, a, d + e)
<1>1. t \in State /\ u \in State
  BY DEF Gives, Kept
<1>2. Kept(s, u) /\ SameBooks(s, u)
  BY DEF Gives, Kept, SameBooks
<1>3. Bal(u) = Plus(Bal(s), a, d + e)
  <2>1. Bal(s) \in [Accounts -> Nat] /\ Bal(t) = Plus(Bal(s), a, d)
        /\ Bal(u) = Plus(Bal(t), a, e)
    BY <1>1, BalIsNat DEF Gives
  <2> DEFINE f == Bal(s)
  <2>2. f \in [Accounts -> Nat] /\ Bal(u) = [[f EXCEPT ![a] = @ + d] EXCEPT ![a] = @ + e]
    BY <2>1 DEF Plus
  <2>3. Plus(f, a, d + e) = [f EXCEPT ![a] = @ + (d + e)]
    BY DEF Plus
  <2> HIDE DEF f
  <2>4. f[a] \in Nat /\ (f[a] + d) + e = f[a] + (d + e)
    BY <2>2
  <2>5. [[f EXCEPT ![a] = @ + d] EXCEPT ![a] = @ + e] = [f EXCEPT ![a] = @ + (d + e)]
    BY <2>2, <2>4
  <2> QED BY <2>2, <2>3, <2>5 DEF f
<1>4. Spread(s) \in Int /\ Gap(s) \in Int
  BY NumbersAreNat DEF Spread, Gap
<1>5. Spread(u) = Spread(s) + (d + e) /\ Gap(u) = Gap(s) - (d + e)
  BY <1>4 DEF Gives
<1>6. Adopted(s) => u.token.supply + Rows(u) = s.token.supply + Rows(s)
  BY DEF Gives, Kept, Adopted
<1> QED BY <1>2, <1>3, <1>5, <1>6 DEF Gives

LEMMA GivesNothing ==
  ASSUME NEW s \in State, NEW a \in Accounts
  PROVE  Gives(s, s, a, 0)
<1>1. Kept(s, s) /\ SameBooks(s, s)
  BY DEF Kept, SameBooks
<1>2. /\ s.store.bal[a] + s.token.bal[a] = s.store.bal[a] + s.token.bal[a] + 0
      /\ s.token.bal[Core] - s.token.supply
           = s.token.bal[Core] - s.token.supply + s.store.bal[a] - s.store.bal[a] - 0
  BY NumbersAreNat
<1>3. 0 \in Int
  OBVIOUS
<1> QED BY <1>1, <1>2, <1>3, GivesByParts, Zenon

\* Moving a row moves nothing of what the account has.
LEMMA EnsureMigratedGives ==
  ASSUME NEW s \in State, NEW a \in Accounts, NEW t \in EnsureMigrated(s, a)
  PROVE  Gives(s, t, a, 0) /\ t.store.seen = s.store.seen
<1> DEFINE legacy == s.store.bal[a]
<1>1. legacy \in Nat
  BY RowsIsNat
<1>2. CASE legacy = 0
  <2>1. t = s
    BY <1>2 DEF EnsureMigrated
  <2> QED BY <2>1, GivesNothing
<1>3. CASE legacy # 0
  <2>1. PICK s1 \in TokenMint(s, legacy) : \E s2 \in TokenTransfer(s1, a, legacy) :
          t = [s2 EXCEPT !.store.bal[a] = 0]
    BY <1>3 DEF EnsureMigrated
  <2>2. PICK s2 \in TokenTransfer(s1, a, legacy) : t = [s2 EXCEPT !.store.bal[a] = 0]
    BY <2>1
  <2> HIDE DEF legacy
  <2> DEFINE f1 == [s.token.bal EXCEPT ![Core] = @ + legacy]
             f2 == [s1.token.bal EXCEPT ![Core] = @ - legacy, ![a] = @ + legacy]
             m  == s.token.supply + legacy
  <2>3. s1 = WithTokens(s, f1, m) /\ f1 \in [Accounts \union {Core} -> Nat]
    BY <1>1, TokenMintIs
  <2>4. m \in Nat
    BY <1>1 DEF State, Token
  <2>5. /\ s1 \in State /\ s1.store = s.store /\ s1.token.bal = f1
        /\ s1.token.supply = m /\ s1.token.owner = s.token.owner
    <3> HIDE DEF f1, m
    <3> QED BY <2>3, <2>4, WithTokensState, ZenonT(60)
  <2>6. s2 = WithTokens(s1, f2, s1.token.supply) /\ f2 \in [Accounts \union {Core} -> Nat]
    BY <1>1, <2>5, TokenTransferIs
  <2>7. /\ s2 \in State /\ s2.store = s.store /\ s2.token.bal = f2
        /\ s2.token.supply = m /\ s2.token.owner = s.token.owner
    <3> HIDE DEF f1, f2, m
    <3>1. s1.token.supply \in Nat
      BY <2>4, <2>5
    <3> QED BY <2>5, <2>6, <3>1, WithTokensState, ZenonT(60)
  <2>8. t \in State /\ t.token = s2.token /\ t.store = [s.store EXCEPT !.bal[a] = 0]
    BY <2>2, <2>7 DEF State, Store
  <2>9. /\ t.store.bal[a] = 0 /\ \A x \in Accounts \ {a} : t.store.bal[x] = s.store.bal[x]
        /\ Kept(s, t) /\ SameBooks(s, t) /\ t.store.seen = s.store.seen
    BY <2>7, <2>8 DEF Kept, SameBooks, State, Store
  <2>10. s.token.bal \in [Accounts \union {Core} -> Nat] /\ a # Core
    BY TokenLedgerAssumption DEF State, Token
  <2>11. /\ t.token.bal[a] = s.token.bal[a] + legacy
         /\ t.token.bal[Core] = s.token.bal[Core]
         /\ \A x \in Accounts \ {a} : t.token.bal[x] = s.token.bal[x]
    BY <1>1, <2>5, <2>7, <2>8, <2>10, TokenLedgerAssumption
  <2>12. t.token.supply = s.token.supply + legacy
    BY <2>7, <2>8
  <2>13. s.token.supply \in Nat /\ s.token.bal[a] \in Nat /\ s.token.bal[Core] \in Nat
    BY <2>10 DEF State, Token
  <2> HIDE DEF f1, f2, m
  <2>14. Gives(s, t, a, 0)
    <3>1. t.store.bal[a] + t.token.bal[a] = s.store.bal[a] + s.token.bal[a] + 0
      BY <1>1, <2>9, <2>11, <2>13 DEF legacy
    <3>2. t.token.bal[Core] - t.token.supply
            = s.token.bal[Core] - s.token.supply + t.store.bal[a] - s.store.bal[a] - 0
      BY <1>1, <2>9, <2>11, <2>12, <2>13 DEF legacy
    <3>3. t.token.supply + t.store.bal[a] = s.token.supply + s.store.bal[a]
      BY <1>1, <2>9, <2>12, <2>13 DEF legacy
    <3>4. 0 \in Int
      OBVIOUS
    <3> HIDE DEF legacy
    <3> QED BY <2>8, <2>9, <2>11, <3>1, <3>2, <3>3, <3>4, GivesByParts, Zenon
  <2> QED BY <2>9, <2>14
<1> QED BY <1>2, <1>3

\* Paying in tokens.
LEMMA TokenTransferGives ==
  ASSUME NEW s \in State, NEW a \in Accounts, NEW n \in Nat, NEW t \in TokenTransfer(s, a, n)
  PROVE  Gives(s, t, a, n) /\ t.store = s.store
<1> DEFINE f == [s.token.bal EXCEPT ![Core] = @ - n, ![a] = @ + n]
<1>1. t = WithTokens(s, f, s.token.supply) /\ f \in [Accounts \union {Core} -> Nat]
  BY TokenTransferIs
<1>2. s.token.bal \in [Accounts \union {Core} -> Nat] /\ a # Core
  BY TokenLedgerAssumption DEF State, Token
<1>3. /\ f[a] = s.token.bal[a] + n
      /\ f[Core] = s.token.bal[Core] - n
      /\ \A x \in Accounts \ {a} : f[x] = s.token.bal[x]
  BY <1>2, TokenLedgerAssumption
<1> HIDE DEF f
<1>4. /\ t \in State /\ t.store = s.store /\ t.token.bal = f
      /\ t.token.supply = s.token.supply /\ t.token.owner = s.token.owner
  <2>1. s.token.supply \in Nat
    BY NumbersAreNat
  <2> QED BY <1>1, <2>1, WithTokensState, ZenonT(60)
<1>5. Kept(s, t) /\ SameBooks(s, t)
  BY <1>4 DEF Kept, SameBooks
<1>6. /\ \A x \in Accounts \ {a} : t.store.bal[x] = s.store.bal[x]
      /\ \A x \in Accounts \ {a} : t.token.bal[x] = s.token.bal[x]
      /\ t.store.bal[a] + t.token.bal[a] = s.store.bal[a] + s.token.bal[a] + n
      /\ t.token.bal[Core] - t.token.supply
           = s.token.bal[Core] - s.token.supply + t.store.bal[a] - s.store.bal[a] - n
      /\ t.token.supply + t.store.bal[a] = s.token.supply + s.store.bal[a]
  BY <1>3, <1>4, NumbersAreNat
<1>7. n \in Int
  OBVIOUS
<1> QED BY <1>4, <1>5, <1>6, <1>7, GivesByParts, Zenon

LEMMA TokenTransferFromGives ==
  ASSUME NEW s \in State, NEW a \in Accounts, NEW n \in Nat, NEW t \in TokenTransferFrom(s, a, n)
  PROVE  Gives(s, t, a, - n) /\ t.store = s.store /\ Bal(s)[a] >= n
<1> DEFINE f == [s.token.bal EXCEPT ![a] = @ - n, ![Core] = @ + n]
<1>1. t = WithTokens(s, f, s.token.supply) /\ f \in [Accounts \union {Core} -> Nat]
      /\ s.token.bal[a] >= n
  BY TokenTransferFromIs
<1>2. s.token.bal \in [Accounts \union {Core} -> Nat] /\ a # Core
  BY TokenLedgerAssumption DEF State, Token
<1>3. /\ f[a] = s.token.bal[a] - n
      /\ f[Core] = s.token.bal[Core] + n
      /\ \A x \in Accounts \ {a} : f[x] = s.token.bal[x]
  BY <1>2, TokenLedgerAssumption
<1> HIDE DEF f
<1>4. /\ t \in State /\ t.store = s.store /\ t.token.bal = f
      /\ t.token.supply = s.token.supply /\ t.token.owner = s.token.owner
  <2>1. s.token.supply \in Nat
    BY NumbersAreNat
  <2> QED BY <1>1, <2>1, WithTokensState, ZenonT(60)
<1>5. Kept(s, t) /\ SameBooks(s, t)
  BY <1>4 DEF Kept, SameBooks
<1>6. /\ \A x \in Accounts \ {a} : t.store.bal[x] = s.store.bal[x]
      /\ \A x \in Accounts \ {a} : t.token.bal[x] = s.token.bal[x]
      /\ t.store.bal[a] + t.token.bal[a] = s.store.bal[a] + s.token.bal[a] + (- n)
      /\ t.token.bal[Core] - t.token.supply
           = s.token.bal[Core] - s.token.supply + t.store.bal[a] - s.store.bal[a] - (- n)
      /\ t.token.supply + t.store.bal[a] = s.token.supply + s.store.bal[a]
  BY <1>3, <1>4, NumbersAreNat
<1>7. - n \in Int
  OBVIOUS
<1>8. Bal(s)[a] >= n
  <2>1. Bal(s)[a] = s.store.bal[a] + s.token.bal[a]
    BY DEF Bal
  <2> QED BY <1>1, <2>1, NumbersAreNat
<1> QED BY <1>4, <1>5, <1>6, <1>7, <1>8, GivesByParts, Zenon

\* Writing a row, before there is a token.
LEMMA RowGives ==
  ASSUME NEW s \in State, NEW a \in Accounts, NEW d \in Int, ~ Adopted(s),
         s.store.bal[a] + d \in Nat,
         NEW t, t = [s EXCEPT !.store.bal[a] = @ + d]
  PROVE  Gives(s, t, a, d) /\ t.store.seen = s.store.seen
<1>1. t \in State /\ t.token = s.token /\ t.store = [s.store EXCEPT !.bal[a] = @ + d]
  BY DEF State, Store
<1>2. /\ t.store.bal[a] = s.store.bal[a] + d
      /\ \A x \in Accounts \ {a} : t.store.bal[x] = s.store.bal[x]
      /\ t.store.seen = s.store.seen
  BY <1>1 DEF State, Store
<1>3. Kept(s, t) /\ SameBooks(s, t)
  BY <1>1 DEF Kept, SameBooks, State, Store
<1>4. /\ \A x \in Accounts \ {a} : t.token.bal[x] = s.token.bal[x]
      /\ t.store.bal[a] + t.token.bal[a] = s.store.bal[a] + s.token.bal[a] + d
      /\ t.token.bal[Core] - t.token.supply
           = s.token.bal[Core] - s.token.supply + t.store.bal[a] - s.store.bal[a] - d
  BY <1>1, <1>2, NumbersAreNat
<1> QED BY <1>1, <1>2, <1>3, <1>4, GivesByParts, Zenon

\* The roll has no part in what is given.
LEMMA NoteGives ==
  ASSUME NEW s \in State, NEW t, NEW a \in Accounts, NEW b \in Accounts, NEW d \in Int,
         Gives(s, t, a, d)
  PROVE  Gives(s, NoteAccount(t, b), a, d)
<1> DEFINE u == NoteAccount(t, b)
<1>1. t \in State
  BY DEF Gives, Kept
<1>2. u \in State /\ u.token = t.token /\ u.store = [t.store EXCEPT !.seen = @ \union {b}]
  BY <1>1 DEF NoteAccount, State, Store
<1>3. /\ u.store.bal = t.store.bal /\ u.store.held = t.store.held
      /\ u.store.sup_migrated = t.store.sup_migrated
      /\ u.store.sup_emitted = t.store.sup_emitted
      /\ u.store.cfg_token = t.store.cfg_token /\ u.store.migDone = t.store.migDone
  BY <1>1, <1>2 DEF State, Store
<1> HIDE DEF u
<1>4. Kept(s, u) /\ SameBooks(s, u)
  BY <1>2, <1>3 DEF Gives, Kept, SameBooks
<1>5. Bal(u) = Bal(t) /\ Rows(u) = Rows(t) /\ Books(u.store) = Books(t.store)
  BY <1>2, <1>3 DEF Bal, Rows, Books
<1>6. Spread(u) = Spread(t) /\ Gap(u) = Gap(t)
  BY <1>2, <1>3, <1>5 DEF Spread, Gap
<1>7. Gives(s, u, a, d)
  BY <1>2, <1>4, <1>5, <1>6 DEF Gives
<1> QED BY <1>7 DEF u

\* A credit gives its amount, wherever the balance is.
LEMMA CreditGives ==
  ASSUME NEW s \in State, NEW a \in Accounts, NEW n \in Nat, NEW t \in Credit(s, a, n)
  PROVE  Gives(s, t, a, n)
<1>1. CASE n = 0
  BY <1>1, GivesNothing DEF Credit
<1>2. CASE n # 0 /\ Adopted(s)
  <2>1. PICK s1 \in EnsureMigrated(s, a) : \E s2 \in TokenTransfer(s1, a, n) : t = NoteAccount(s2, a)
    BY <1>2 DEF Credit
  <2>2. PICK s2 \in TokenTransfer(s1, a, n) : t = NoteAccount(s2, a)
    BY <2>1
  <2>3. Gives(s, s1, a, 0) /\ s1 \in State
    BY EnsureMigratedGives DEF Gives, Kept
  <2>4. Gives(s1, s2, a, n)
    BY <2>3, TokenTransferGives
  <2>5. 0 \in Int /\ n \in Int /\ 0 + n = n
    OBVIOUS
  <2>6. Gives(s, s2, a, 0 + n)
    BY <2>3, <2>4, <2>5, GivesChain, Zenon
  <2> QED BY <2>2, <2>5, <2>6, NoteGives
<1>3. CASE n # 0 /\ ~ Adopted(s)
  <2>1. PICK s1 : s1 = [s EXCEPT !.store.bal[a] = @ + n] /\ t = NoteAccount(s1, a)
    BY <1>3 DEF Credit
  <2>2. n \in Int /\ s.store.bal[a] + n \in Nat
    BY NumbersAreNat
  <2>3. Gives(s, s1, a, n)
    BY <1>3, <2>1, <2>2, RowGives
  <2> QED BY <2>1, <2>2, <2>3, NoteGives
<1> QED BY <1>1, <1>2, <1>3

\* A debit takes its amount from an account that has it, wherever it is.
LEMMA DebitGives ==
  ASSUME NEW s \in State, NEW a \in Accounts, NEW n \in Nat, NEW t \in Debit(s, a, n)
  PROVE  Gives(s, t, a, - n) /\ Bal(s)[a] >= n
<1>1. CASE Adopted(s)
  <2>1. PICK s1 \in EnsureMigrated(s, a) : t \in TokenTransferFrom(s1, a, n)
    BY <1>1 DEF Debit
  <2>2. Gives(s, s1, a, 0) /\ s1 \in State
    BY EnsureMigratedGives DEF Gives, Kept
  <2>3. Gives(s1, t, a, - n) /\ Bal(s1)[a] >= n
    BY <2>1, <2>2, TokenTransferFromGives
  <2>4. 0 \in Int /\ - n \in Int /\ 0 + (- n) = - n
    OBVIOUS
  <2>5. Gives(s, t, a, 0 + (- n))
    BY <2>2, <2>3, <2>4, GivesChain, Zenon
  <2>6. Bal(s1)[a] = Bal(s)[a] + 0 /\ Bal(s)[a] \in Nat
    BY <2>2, BalIsNat DEF Gives, Plus
  <2> QED BY <2>3, <2>4, <2>5, <2>6
<1>2. CASE ~ Adopted(s)
  <2>1. s.store.bal[a] >= n /\ t = [s EXCEPT !.store.bal[a] = @ - n]
    BY <1>2 DEF Debit
  <2>2. - n \in Int /\ s.store.bal[a] + (- n) \in Nat
    BY <2>1, NumbersAreNat
  <2>3. s.store.bal[a] - n = s.store.bal[a] + (- n)
    BY NumbersAreNat
  <2>4. t = [s EXCEPT !.store.bal[a] = @ + (- n)]
    BY <2>1, <2>3
  <2>5. Gives(s, t, a, - n)
    BY <1>2, <2>2, <2>4, RowGives
  <2>6. Bal(s)[a] >= n
    <3>1. Bal(s)[a] = s.store.bal[a] + s.token.bal[a]
      BY DEF Bal
    <3> QED BY <2>1, <3>1, NumbersAreNat
  <2> QED BY <2>5, <2>6
<1> QED BY <1>1, <1>2
-----------------------------------------------------------------------------
(* New supply, and what the contract keeps for others.                     *)

\* The step issues n, and nobody has it yet.
Issues(s, t, n) ==
  /\ Kept(s, t)
  /\ Bal(t) = Bal(s)
  /\ Books(t.store) = Books(s.store) + n
  /\ Spread(t) = Spread(s) - n
  /\ Gap(t) = Gap(s) + n
  /\ Adopted(s) => t.token.supply + Rows(t) = s.token.supply + Rows(s) + n

\* The step changes by h what the contract keeps.
Holds(s, t, h) ==
  /\ t \in State
  /\ t.token = s.token
  /\ t.store.bal = s.store.bal
  /\ t.store.cfg_token = s.store.cfg_token
  /\ SameBooks(s, t)
  /\ t.store.held = s.store.held + h

\* The tokens behind new supply go to the float.
LEMMA MintBackingIs ==
  ASSUME NEW s \in State, NEW n \in Nat, NEW t \in MintBacking(s, n)
  PROVE  /\ t \in State /\ t.store = s.store
         /\ t.token.owner = s.token.owner
         /\ \A x \in Accounts : t.token.bal[x] = s.token.bal[x]
         /\ t.token.bal[Core] - t.token.supply = s.token.bal[Core] - s.token.supply
         /\ Adopted(s) => t.token.supply = s.token.supply + n
<1>1. CASE n = 0 \/ ~ Adopted(s)
  <2>1. t = s
    BY <1>1 DEF MintBacking
  <2> QED BY <1>1, <2>1, NumbersAreNat
<1>2. CASE n # 0 /\ Adopted(s)
  <2> DEFINE f == [s.token.bal EXCEPT ![Core] = @ + n]
  <2>1. t \in TokenMint(s, n)
    BY <1>2 DEF MintBacking
  <2>2. t = WithTokens(s, f, s.token.supply + n) /\ f \in [Accounts \union {Core} -> Nat]
    BY <2>1, TokenMintIs
  <2>3. s.token.bal \in [Accounts \union {Core} -> Nat]
    BY DEF State, Token
  <2>4. f[Core] = s.token.bal[Core] + n /\ \A x \in Accounts : f[x] = s.token.bal[x]
    BY <2>3, TokenLedgerAssumption
  <2>5. s.token.supply + n \in Nat
    BY NumbersAreNat
  <2> HIDE DEF f
  <2>6. /\ t \in State /\ t.store = s.store /\ t.token.bal = f
        /\ t.token.supply = s.token.supply + n /\ t.token.owner = s.token.owner
    BY <2>2, <2>5, WithTokensState, ZenonT(60)
  <2> QED BY <2>4, <2>6, NumbersAreNat
<1> QED BY <1>1, <1>2

\* Either counter grows with its tokens.
LEMMA MintIssues ==
  ASSUME NEW s \in State, NEW n \in Nat, NEW t \in MintMigrated(s, n) \union MintEmitted(s, n)
  PROVE  Issues(s, t, n)
<1>1. PICK u \in MintBacking(s, n) : \/ t = [u EXCEPT !.store.sup_migrated = @ + n]
                                    \/ t = [u EXCEPT !.store.sup_emitted = @ + n]
  BY DEF MintMigrated, MintEmitted
<1>2. /\ u \in State /\ u.store = s.store
      /\ u.token.owner = s.token.owner
      /\ \A x \in Accounts : u.token.bal[x] = s.token.bal[x]
      /\ u.token.bal[Core] - u.token.supply = s.token.bal[Core] - s.token.supply
      /\ Adopted(s) => u.token.supply = s.token.supply + n
  BY MintBackingIs
<1>3. /\ t \in State /\ t.token = u.token
      /\ t.store.bal = s.store.bal /\ t.store.held = s.store.held
      /\ t.store.cfg_token = s.store.cfg_token /\ t.store.migDone = s.store.migDone
  BY <1>1, <1>2 DEF State, Store
<1>4. Books(t.store) = Books(s.store) + n
  BY <1>1, <1>2 DEF State, Store, Books
<1>5. Kept(s, t)
  BY <1>2, <1>3 DEF Kept
<1>6. Bal(t) = Bal(s) /\ Rows(t) = Rows(s)
  BY <1>2, <1>3 DEF Bal, Rows
<1>7. Spread(t) = Spread(s) - n
  BY <1>3, <1>4, <1>6, NumbersAreNat DEF Spread
<1>8. Gap(t) = Gap(s) + n
  <2> DEFINE float(v) == v.token.bal[Core] - v.token.supply
  <2>1. float(t) = float(s) /\ float(s) \in Int
    BY <1>2, <1>3, NumbersAreNat
  <2>2. Gap(t) = float(t) - s.store.held - Rows(s) + (Books(s.store) + n)
    <3>1. /\ t.token.bal[Core] \in Nat /\ t.token.supply \in Nat
          /\ s.store.held \in Nat /\ Rows(s) \in Nat /\ Books(s.store) \in Nat
      BY <1>3, NumbersAreNat
    <3> QED BY <1>3, <1>4, <1>6, <3>1 DEF Gap
  <2>3. Gap(s) = float(s) - s.store.held - Rows(s) + Books(s.store)
    BY NumbersAreNat DEF Gap
  <2> HIDE DEF float
  <2> QED BY <2>1, <2>2, <2>3, NumbersAreNat
<1>9. Adopted(s) => t.token.supply + Rows(t) = s.token.supply + Rows(s) + n
  BY <1>2, <1>3, <1>6, NumbersAreNat
<1> QED BY <1>4, <1>5, <1>6, <1>7, <1>8, <1>9 DEF Issues

\* What is kept moves the sums, and nobody's balance.
LEMMA HoldsEffect ==
  ASSUME NEW s \in State, NEW h \in Int, NEW t, Holds(s, t, h)
  PROVE  /\ Bal(t) = Bal(s) /\ Rows(t) = Rows(s) /\ Books(t.store) = Books(s.store)
         /\ Spread(t) = Spread(s) + h
         /\ Gap(t) = Gap(s) - h
<1>1. Bal(t) = Bal(s) /\ Rows(t) = Rows(s) /\ Books(t.store) = Books(s.store)
  BY DEF Holds, SameBooks, Bal, Rows, Books
<1>2. Spread(t) = Spread(s) + h
  BY <1>1, NumbersAreNat DEF Holds, Spread
<1>3. Gap(t) = Gap(s) - h
  BY <1>1, NumbersAreNat DEF Holds, Gap
<1> QED BY <1>1, <1>2, <1>3

LEMMA SumsAreInt ==
  ASSUME NEW s \in State
  PROVE  Spread(s) \in Int /\ Gap(s) \in Int
BY NumbersAreNat DEF Spread, Gap

LEMMA HeldUpdate ==
  ASSUME NEW s \in State, NEW h \in Int, s.store.held + h \in Nat,
         NEW t, t = [s EXCEPT !.store.held = @ + h]
  PROVE  Holds(s, t, h)
BY DEF Holds, SameBooks, State, Store
-----------------------------------------------------------------------------
(* The calls: each ends in a state where the sums are as they were.        *)

Backing(s) == s.token.supply + Rows(s) - Books(s.store)

Closes(s, t) ==
  /\ t \in State
  /\ Spread(t) = Spread(s)
  /\ Gap(t) = Gap(s)
  /\ Adopted(s) => Backing(t) >= Backing(s)

\* What one account gives and another gets closes.
LEMMA GiftCloses ==
  ASSUME NEW s \in State, NEW a \in Accounts, NEW b \in Accounts, NEW n \in Nat,
         NEW u, Gives(s, u, a, - n), NEW t, Gives(u, t, b, n)
  PROVE  /\ Closes(s, t)
         /\ Bal(t) = Plus(Plus(Bal(s), a, - n), b, n)
         /\ t.store.held = s.store.held /\ Books(t.store) = Books(s.store)
<1>1. u \in State
  BY DEF Gives, Kept
<1>2. t \in State /\ t.store.held = s.store.held /\ Books(t.store) = Books(s.store)
  BY DEF Gives, Kept, SameBooks, Books
<1>3. Bal(t) = Plus(Plus(Bal(s), a, - n), b, n)
  BY DEF Gives
<1>4. Spread(t) = Spread(s) /\ Gap(t) = Gap(s)
  BY SumsAreInt DEF Gives
<1>5. Adopted(s) => Backing(t) >= Backing(s)
  BY <1>1, <1>2, NumbersAreNat DEF Gives, Kept, Adopted, Backing
<1> QED BY <1>2, <1>3, <1>4, <1>5 DEF Closes

\* A payment: a debit, then a credit.
LEMMA MoveCloses ==
  ASSUME NEW s \in State, NEW a \in Accounts, NEW b \in Accounts, NEW n \in Nat,
         NEW t \in UNION {Credit(u, b, n) : u \in Debit(s, a, n)}
  PROVE  /\ Closes(s, t)
         /\ Bal(s)[a] >= n
         /\ Bal(t) = Plus(Plus(Bal(s), a, - n), b, n)
         /\ t.store.held = s.store.held /\ Books(t.store) = Books(s.store)
<1>1. PICK u \in Debit(s, a, n) : t \in Credit(u, b, n)
  OBVIOUS
<1>2. Gives(s, u, a, - n) /\ Bal(s)[a] >= n
  BY DebitGives
<1>3. u \in State
  BY <1>2 DEF Gives, Kept
<1>4. Gives(u, t, b, n)
  BY <1>1, <1>3, CreditGives
<1>5. /\ Closes(s, t)
      /\ Bal(t) = Plus(Plus(Bal(s), a, - n), b, n)
      /\ t.store.held = s.store.held /\ Books(t.store) = Books(s.store)
  BY <1>2, <1>4, GiftCloses
<1> QED BY <1>2, <1>5

\* A debit whose amount the contract keeps.
LEMMA LockCloses ==
  ASSUME NEW s \in State, NEW a \in Accounts, NEW n \in Nat,
         NEW u \in Debit(s, a, n), NEW t, Holds(u, t, n)
  PROVE  /\ Closes(s, t)
         /\ Bal(s)[a] >= n
         /\ Bal(t) = Plus(Bal(s), a, - n)
         /\ t.store.held = s.store.held + n /\ Books(t.store) = Books(s.store)
<1>1. Gives(s, u, a, - n) /\ Bal(s)[a] >= n
  BY DebitGives
<1>2. u \in State /\ u.store.held = s.store.held /\ Books(u.store) = Books(s.store)
  BY <1>1 DEF Gives, Kept, SameBooks, Books
<1>3. /\ Bal(t) = Bal(u) /\ Rows(t) = Rows(u) /\ Books(t.store) = Books(u.store)
      /\ Spread(t) = Spread(u) + n
      /\ Gap(t) = Gap(u) - n
  BY <1>2, HoldsEffect
<1>4. t \in State /\ t.token = u.token /\ t.store.held = s.store.held + n
  BY <1>2 DEF Holds
<1>5. Spread(t) = Spread(s) /\ Gap(t) = Gap(s)
  BY <1>1, <1>3, SumsAreInt DEF Gives
<1>6. Adopted(s) => Backing(t) >= Backing(s)
  BY <1>1, <1>2, <1>3, <1>4, NumbersAreNat DEF Gives, Backing
<1> QED BY <1>1, <1>2, <1>3, <1>4, <1>5, <1>6 DEF Closes, Gives

\* A credit out of what the contract keeps.
LEMMA PayCloses ==
  ASSUME NEW s \in State, NEW a \in Accounts, NEW n \in Nat, n <= s.store.held,
         NEW t \in Credit([s EXCEPT !.store.held = @ - n], a, n)
  PROVE  /\ Closes(s, t)
         /\ Bal(t) = Plus(Bal(s), a, n)
         /\ t.store.held = s.store.held - n /\ Books(t.store) = Books(s.store)
<1> DEFINE u == [s EXCEPT !.store.held = @ - n]
<1>1. - n \in Int /\ s.store.held + (- n) \in Nat /\ s.store.held - n = s.store.held + (- n)
  BY NumbersAreNat
<1>2. u = [s EXCEPT !.store.held = @ + (- n)]
  BY <1>1
<1> HIDE DEF u
<1>3. Holds(s, u, - n)
  BY <1>1, <1>2, HeldUpdate
<1>4. /\ Bal(u) = Bal(s) /\ Rows(u) = Rows(s) /\ Books(u.store) = Books(s.store)
      /\ Spread(u) = Spread(s) + (- n)
      /\ Gap(u) = Gap(s) - (- n)
  BY <1>1, <1>3, HoldsEffect
<1>5. u \in State /\ u.token = s.token /\ u.store.cfg_token = s.store.cfg_token
      /\ u.store.held = s.store.held - n
  BY <1>1, <1>3 DEF Holds
<1>6. Gives(u, t, a, n)
  BY <1>5, CreditGives DEF u
<1>7. t \in State /\ t.store.held = s.store.held - n /\ Books(t.store) = Books(s.store)
  BY <1>4, <1>5, <1>6 DEF Gives, Kept, SameBooks, Books
<1>8. Spread(t) = Spread(s) /\ Gap(t) = Gap(s)
  BY <1>4, <1>6, SumsAreInt DEF Gives
<1>9. Adopted(s) => Backing(t) >= Backing(s)
  BY <1>4, <1>5, <1>6, <1>7, NumbersAreNat DEF Gives, Adopted, Backing
<1> QED BY <1>4, <1>6, <1>7, <1>8, <1>9 DEF Closes, Gives

\* New supply, credited to an account in part and kept in part.
LEMMA IssueCloses ==
  ASSUME NEW s \in State, NEW a \in Accounts, NEW n \in Nat, NEW h \in Nat,
         NEW u \in State, Issues(s, u, n + h), NEW v, Gives(u, v, a, n), NEW t, Holds(v, t, h)
  PROVE  /\ Closes(s, t)
         /\ Bal(t) = Plus(Bal(s), a, n)
         /\ t.store.held = s.store.held + h
<1>1. v \in State /\ v.store.held = s.store.held /\ Books(v.store) = Books(s.store) + (n + h)
  BY DEF Gives, Issues, Kept, SameBooks, Books
<1>2. /\ Bal(t) = Bal(v) /\ Rows(t) = Rows(v) /\ Books(t.store) = Books(v.store)
      /\ Spread(t) = Spread(v) + h
      /\ Gap(t) = Gap(v) - h
  BY <1>1, HoldsEffect
<1>3. t \in State /\ t.token = v.token /\ t.store.held = s.store.held + h
  BY <1>1 DEF Holds
<1>4. Spread(t) = Spread(s) /\ Gap(t) = Gap(s)
  BY <1>2, SumsAreInt DEF Gives, Issues
<1>5. Adopted(s) => Backing(t) >= Backing(s)
  BY <1>1, <1>2, <1>3, NumbersAreNat DEF Gives, Issues, Kept, Adopted, Backing
<1>6. Bal(t) = Plus(Bal(s), a, n)
  BY <1>2 DEF Gives, Issues
<1> QED BY <1>3, <1>4, <1>5, <1>6 DEF Closes

\* Moving rows closes, and changes no balance.
LEMMA RowsMovedCloses ==
  ASSUME NEW s \in State, NEW a \in Accounts, NEW t \in EnsureMigrated(s, a)
  PROVE  /\ Closes(s, t)
         /\ Bal(t) = Bal(s)
         /\ t.store.held = s.store.held /\ Books(t.store) = Books(s.store)
         /\ t.store.cfg_token = s.store.cfg_token
<1>1. Gives(s, t, a, 0)
  BY EnsureMigratedGives
<1>2. /\ t \in State /\ t.store.held = s.store.held /\ Books(t.store) = Books(s.store)
      /\ t.store.cfg_token = s.store.cfg_token
  BY <1>1 DEF Gives, Kept, SameBooks, Books
<1>3. Bal(t) = Bal(s)
  <2>1. Bal(t) = [Bal(s) EXCEPT ![a] = @ + 0] /\ Bal(s) \in [Accounts -> Nat]
    BY <1>1, BalIsNat DEF Gives, Plus
  <2> DEFINE f == Bal(s)
  <2> HIDE DEF f
  <2>2. f \in [Accounts -> Nat] => [f EXCEPT ![a] = @ + 0] = f
    OBVIOUS
  <2> QED BY <2>1, <2>2 DEF f
<1>4. Spread(t) = Spread(s) /\ Gap(t) = Gap(s)
  BY <1>1, SumsAreInt DEF Gives
<1>5. Adopted(s) => Backing(t) >= Backing(s)
  BY <1>1, <1>2, NumbersAreNat DEF Gives, Backing
<1> QED BY <1>2, <1>3, <1>4, <1>5 DEF Closes

-----------------------------------------------------------------------------
(* The invariant, and what the abstract ledger sees.                       *)

Inv ==
  /\ TypeOK
  /\ Spread(Now) + donated = 0
  /\ Gap(Now) = donated

LEMMA NowIsState ==
  /\ TypeOK <=> Now \in State /\ donated \in Nat
  /\ Now.store = store /\ Now.token = token
BY DEF TypeOK, Now, State

LEMMA BalNow == Bal(Now) = [a \in Accounts |-> Balance(a)]
BY DEF Bal, Now, Balance

\* A call ends in one of its states.
LEMMA EndsIn ==
  ASSUME NEW S, Ends(S), \A s \in S : s \in State
  PROVE  Now' \in S /\ donated' = donated
<1>1. PICK s \in S : store' = s.store /\ token' = s.token
  BY DEF Ends
<1>2. Now' = [store |-> s.store, token |-> s.token]
  BY <1>1 DEF Now
<1>3. s = [store |-> s.store, token |-> s.token]
  BY DEF State
<1> QED BY <1>1, <1>2, <1>3 DEF Ends

\* What each step must establish.
Sound ==
  /\ Inv'
  /\ store.cfg_token /\ Backed => Backed'
  /\ [L!Next]_(L!vars)

\* A call that closes keeps the invariant and the backing.
LEMMA CloseSound ==
  ASSUME Inv, Closes(Now, Now'), donated' = donated
  PROVE  Inv' /\ (store.cfg_token /\ Backed => Backed')
<1>1. TypeOK'
  <2>1. Now' \in State /\ donated \in Nat
    BY DEF Closes, Inv, TypeOK
  <2> QED BY <2>1 DEF TypeOK, State, Now
<1>2. Spread(Now') + donated' = 0 /\ Gap(Now') = donated'
  BY DEF Closes, Inv
<1>3. Inv'
  BY <1>1, <1>2 DEF Inv
<1>4. store.cfg_token /\ Backed => Backed'
  BY NowIsState, NumbersAreNat DEF Closes, Inv, Adopted, Backing, Backed, Unmoved, Rows, Now
<1> QED BY <1>3, <1>4

\* A payment refines a Move.
LEMMA MoveRefines ==
  ASSUME Inv, NEW a \in Accounts, NEW b \in Accounts, a # b, NEW n \in Nat \ {0},
         Closes(Now, Now'), donated' = donated, Bal(Now)[a] >= n,
         Bal(Now') = Plus(Plus(Bal(Now), a, - n), b, n),
         Now'.store.held = Now.store.held, Books(Now'.store) = Books(Now.store)
  PROVE  Sound
<1>1. Now \in State
  BY NowIsState DEF Inv
<1>2. store'.held = store.held /\ Books(store') = Books(store)
  BY DEF Now
<1> DEFINE f == [x \in Accounts |-> Balance(x)]
<1>3. f \in [Accounts -> Nat] /\ f[a] >= n
  BY <1>1, BalNow, BalIsNat
<1>4. f' = Plus(Plus(f, a, - n), b, n)
  BY BalNow DEF Bal, Now, Balance
<1> HIDE DEF f
<1>5. f' = [f EXCEPT ![a] = @ - n, ![b] = @ + n]
  BY <1>3, <1>4 DEF Plus
<1>6. n \in 1 .. f[a]
  BY <1>3
<1>7. L!Move(a, b, n)
  BY <1>2, <1>5 DEF L!Move, f
<1>8. L!Next
  BY <1>6, <1>7 DEF L!Next, f
<1> QED BY <1>8, CloseSound DEF Sound

LEMMA MoveSound ==
  ASSUME Inv, NEW a \in Accounts, NEW b \in Accounts, a # b, NEW n \in Nat \ {0},
         Ends(UNION {Credit(s, b, n) : s \in Debit(Now, a, n)})
  PROVE  Sound
<1> DEFINE S == UNION {Credit(s, b, n) : s \in Debit(Now, a, n)}
<1>1. Now \in State /\ n \in Nat
  BY NowIsState DEF Inv
<1>2. \A t \in S : /\ Closes(Now, t)
                  /\ Bal(Now)[a] >= n
                  /\ Bal(t) = Plus(Plus(Bal(Now), a, - n), b, n)
                  /\ t.store.held = Now.store.held /\ Books(t.store) = Books(Now.store)
  BY <1>1, MoveCloses
<1>3. \A t \in S : t \in State
  BY <1>2 DEF Closes
<1> HIDE DEF S
<1>4. Now' \in S /\ donated' = donated
  BY <1>3, EndsIn DEF S
<1> QED BY <1>2, <1>4, MoveRefines

\* A debit that the contract keeps refines a Lock.
LEMMA LockSound ==
  ASSUME Inv, NEW a \in Accounts, NEW n \in Nat \ {0}, NEW S, Ends(S),
         \A t \in S : \E u \in Debit(Now, a, n) : Holds(u, t, n)
  PROVE  Sound
<1>1. Now \in State /\ n \in Nat
  BY NowIsState DEF Inv
<1>2. \A t \in S : /\ Closes(Now, t)
                  /\ Bal(Now)[a] >= n
                  /\ Bal(t) = Plus(Bal(Now), a, - n)
                  /\ t.store.held = Now.store.held + n /\ Books(t.store) = Books(Now.store)
  BY <1>1, LockCloses
<1>3. \A t \in S : t \in State
  BY <1>2 DEF Closes
<1>4. Now' \in S /\ donated' = donated
  BY <1>3, EndsIn
<1>5. Inv' /\ (store.cfg_token /\ Backed => Backed')
  BY <1>2, <1>4, CloseSound
<1>6. L!Next
  <2>1. Bal(Now') = Plus(Bal(Now), a, - n) /\ Bal(Now)[a] >= n
    BY <1>2, <1>4
  <2>2. store'.held = store.held + n /\ Books(store') = Books(store)
    BY <1>2, <1>4 DEF Now
  <2> DEFINE f == [x \in Accounts |-> Balance(x)]
  <2>3. f \in [Accounts -> Nat] /\ f[a] >= n
    BY <1>1, <2>1, BalNow, BalIsNat
  <2>4. f' = Plus(f, a, - n)
    BY <2>1, BalNow DEF Bal, Now, Balance
  <2> HIDE DEF f
  <2>5. f' = [f EXCEPT ![a] = @ - n]
    BY <2>3, <2>4 DEF Plus
  <2>6. n \in 1 .. f[a]
    BY <2>3
  <2>7. store'.held + donated' = (store.held + donated) + n
    BY <1>1, <1>4, <2>2, NumbersAreNat, NowIsState DEF Inv
  <2>8. L!Lock(a, n)
    BY <2>2, <2>5, <2>7 DEF L!Lock, f
  <2> QED BY <2>6, <2>8 DEF L!Next, f
<1> QED BY <1>5, <1>6 DEF Sound

\* A payout refines a Pay.
LEMMA PayOutSound ==
  ASSUME Inv, NEW a \in Accounts, NEW n \in Nat \ {0}, PayOut(a, n)
  PROVE  Sound
<1> DEFINE S == Credit([Now EXCEPT !.store.held = @ - n], a, n)
<1>1. Now \in State /\ n \in Nat /\ n <= Now.store.held /\ Now.store.held \in Nat /\ donated \in Nat
  BY NowIsState, NumbersAreNat DEF Inv, PayOut
<1>2. \A t \in S : /\ Closes(Now, t)
                  /\ Bal(t) = Plus(Bal(Now), a, n)
                  /\ t.store.held = Now.store.held - n /\ Books(t.store) = Books(Now.store)
  BY <1>1, PayCloses
<1>3. \A t \in S : t \in State
  BY <1>2 DEF Closes
<1>4. Ends(S)
  BY DEF PayOut
<1> HIDE DEF S
<1>5. Now' \in S /\ donated' = donated
  BY <1>3, <1>4, EndsIn
<1>6. Inv' /\ (store.cfg_token /\ Backed => Backed')
  BY <1>2, <1>5, CloseSound
<1>7. L!Next
  <2>1. Bal(Now') = Plus(Bal(Now), a, n)
    BY <1>2, <1>5
  <2>2. store'.held = store.held - n /\ Books(store') = Books(store)
    BY <1>2, <1>5 DEF Now
  <2> DEFINE f == [x \in Accounts |-> Balance(x)]
  <2>3. f \in [Accounts -> Nat]
    BY <1>1, BalNow, BalIsNat
  <2>4. f' = Plus(f, a, n)
    BY <2>1, BalNow DEF Bal, Now, Balance
  <2> HIDE DEF f
  <2>5. f' = [f EXCEPT ![a] = @ + n]
    BY <2>3, <2>4 DEF Plus
  <2>6. n <= store.held /\ store.held \in Nat
    BY <1>1, NowIsState
  <2>7. store'.held + donated' = (store.held + donated) - n
    BY <1>1, <1>5, <2>2, <2>6
  <2>8. n \in 1 .. (store.held + donated)
    BY <1>1, <2>6
  <2>9. L!Pay(a, n)
    BY <2>2, <2>5, <2>7 DEF L!Pay, f
  <2> QED BY <2>8, <2>9 DEF L!Next
<1> QED BY <1>6, <1>7 DEF Sound

\* New supply refines an Issue.
LEMMA IssueSound ==
  ASSUME Inv, NEW S, Ends(S),
         \A t \in S : /\ Closes(Now, t)
                     /\ \E a \in Accounts, n \in Nat : Bal(t) = Plus(Bal(Now), a, n)
                     /\ \E h \in Nat : t.store.held = Now.store.held + h
  PROVE  Sound
<1>1. Now \in State /\ donated \in Nat
  BY NowIsState DEF Inv
<1>2. \A t \in S : t \in State
  BY DEF Closes
<1>3. Now' \in S /\ donated' = donated
  BY <1>2, EndsIn
<1>4. Inv' /\ (store.cfg_token /\ Backed => Backed')
  BY <1>3, CloseSound
<1>5. L!Issue
  <2>1. PICK a \in Accounts, n \in Nat : Bal(Now') = Plus(Bal(Now), a, n)
    BY <1>3
  <2>2. PICK h \in Nat : store'.held = store.held + h
    BY <1>3 DEF Now
  <2> DEFINE f == [x \in Accounts |-> Balance(x)]
  <2>3. f \in [Accounts -> Nat] /\ f = Bal(Now)
    BY <1>1, BalNow, BalIsNat
  <2>4. f' = Bal(Now') /\ f' = Plus(f, a, n)
    BY <2>1, BalNow DEF Bal, Now, Balance
  <2>5. store.held \in Nat /\ Books(store) \in Nat /\ Total(Bal(Now), Accounts) \in Nat
    BY <1>1, NumbersAreNat, NowIsState
  <2>6. Now' \in State
    BY <1>2, <1>3
  <2>7. /\ Books(store') \in Nat /\ Total(Bal(Now'), Accounts) \in Nat
        /\ Now'.store = store'
    BY <2>6, NumbersAreNat DEF Now
  <2> HIDE DEF f
  <2>8. f' \in [Accounts -> Nat] /\ \A x \in Accounts : f'[x] >= f[x]
    BY <2>3, <2>4 DEF Plus
  <2>9. store'.held + donated' \in Nat /\ store'.held + donated' >= store.held + donated
    BY <1>1, <1>3, <2>2, <2>5
  <2>10. Books(store') - Books(store)
           = Total(f', Accounts) - Total(f, Accounts)
               + ((store'.held + donated') - (store.held + donated))
    <3>1. Total(f, Accounts) + store.held - Books(store) + donated = 0
      BY <2>3, NowIsState DEF Inv, Spread
    <3>2. Spread(Now') + donated' = 0
      BY <1>4 DEF Inv
    <3>3. Total(f', Accounts) + store'.held - Books(store') + donated' = 0
      BY <2>4, <2>7, <3>2 DEF Spread
    <3> QED BY <1>1, <1>3, <2>2, <2>3, <2>4, <2>5, <2>7, <3>1, <3>3
  <2>11. /\ [x \in Accounts |-> Balance(x)]' \in [Accounts -> Nat]
         /\ \A x \in Accounts : [y \in Accounts |-> Balance(y)]'[x]
                                   >= [y \in Accounts |-> Balance(y)][x]
    BY <2>8 DEF f
  <2>12. Books(store') - Books(store)
           = Total([x \in Accounts |-> Balance(x)]', Accounts)
               - Total([x \in Accounts |-> Balance(x)], Accounts)
               + ((store'.held + donated') - (store.held + donated))
    BY <2>10 DEF f
  <2>13. \A g : L!Total(g, Accounts) = Total(g, Accounts)
    BY DEF L!Total, Total, L!Pairs, Pairs, L!Cardinality, Cardinality
  <2> QED BY <2>9, <2>11, <2>12, <2>13 DEF L!Issue
<1> QED BY <1>4, <1>5 DEF Sound, L!Next

\* A day's emission.
LEMMA SettleSound ==
  ASSUME Inv, NEW n \in Nat, Settle(n)
  PROVE  Sound
<1> DEFINE S == {[s EXCEPT !.store.held = @ + n] : s \in MintEmitted(Now, n)}
<1>1. Now \in State
  BY NowIsState DEF Inv
<1>2. ASSUME NEW t \in S
      PROVE  /\ Closes(Now, t)
             /\ \E a \in Accounts, k \in Nat : Bal(t) = Plus(Bal(Now), a, k)
             /\ \E h \in Nat : t.store.held = Now.store.held + h
  <2>1. PICK u \in MintEmitted(Now, n) : t = [u EXCEPT !.store.held = @ + n]
    BY <1>2
  <2>2. Issues(Now, u, 0 + n) /\ u \in State
    <3>1. Issues(Now, u, n)
      BY <1>1, MintIssues
    <3>2. 0 + n = n
      OBVIOUS
    <3> QED BY <3>1, <3>2 DEF Issues, Kept
  <2>3. n \in Int /\ u.store.held + n \in Nat
    BY <2>2, NumbersAreNat
  <2>4. Holds(u, t, n)
    BY <2>1, <2>2, <2>3, HeldUpdate
  <2>5. Null \in Accounts /\ 0 \in Nat
    BY TokenLedgerAssumption
  <2>6. Gives(u, u, Null, 0)
    BY <2>2, <2>5, GivesNothing
  <2>7. /\ Closes(Now, t) /\ Bal(t) = Plus(Bal(Now), Null, 0)
        /\ t.store.held = Now.store.held + n
    BY <1>1, <2>2, <2>4, <2>5, <2>6, IssueCloses
  <2> QED BY <2>5, <2>7
<1>3. Ends(S)
  BY DEF Settle
<1> HIDE DEF S
<1> QED BY <1>2, <1>3, IssueSound

LEMMA SnapshotIsNat ==
  ASSUME NEW a \in Accounts
  PROVE  Snapshot[a].liquid \in Nat /\ Snapshot[a].staked \in Nat
<1>1. Snapshot[a] \in [liquid : Nat, staked : Nat]
  BY TokenLedgerAssumption
<1> QED BY <1>1

\* A staked position is kept for its owner, who is noted.
LEMMA StakeHolds ==
  ASSUME NEW v \in State, NEW a \in Accounts, NEW k \in Nat, NEW roll \in SUBSET Accounts,
         NEW t, t = [v EXCEPT !.store.held = @ + k, !.store.seen = roll,
                              !.store.migDone = @ \union {a}]
  PROVE  Holds(v, t, k)
<1>1. PICK q : t.store = q /\ t.token = v.token /\ t = [store |-> q, token |-> v.token]
               /\ q = [v.store EXCEPT !.held = @ + k, !.seen = roll, !.migDone = @ \union {a}]
  BY DEF State, Store
<1>2. PICK w : w = v.store /\ w \in Store
  BY DEF State
<1>3. q = [bal |-> w.bal, sup_migrated |-> w.sup_migrated,
           sup_emitted |-> w.sup_emitted, held |-> w.held + k,
           migDone |-> w.migDone \union {a}, seen |-> roll,
           cfg_token |-> w.cfg_token]
  BY <1>1, <1>2 DEF Store
<1>4. /\ w.bal \in [Accounts -> Nat] /\ w.sup_migrated \in Nat
      /\ w.sup_emitted \in Nat /\ w.held + k \in Nat
      /\ w.migDone \union {a} \in SUBSET Accounts /\ w.cfg_token \in BOOLEAN
  BY <1>2 DEF Store
<1>5. q \in Store
  BY <1>3, <1>4 DEF Store
<1>6. t \in State
  BY <1>1, <1>5 DEF State
<1>7. /\ q.bal = w.bal /\ q.cfg_token = w.cfg_token /\ q.held = w.held + k
      /\ q.sup_migrated = w.sup_migrated /\ q.sup_emitted = w.sup_emitted
  BY <1>3
<1> QED BY <1>1, <1>2, <1>6, <1>7, Zenon DEF Holds, SameBooks

\* A snapshot position credited.
LEMMA CreditMigrationSound ==
  ASSUME Inv, NEW a \in Accounts, CreditMigration(a)
  PROVE  Sound
<1> DEFINE l == Snapshot[a].liquid
           k == Snapshot[a].staked
           locked(s) == [s EXCEPT !.store.held = @ + k,
                                  !.store.seen = IF k > 0 THEN @ \union {a} ELSE @,
                                  !.store.migDone = @ \union {a}]
           S == {locked(s2) : s2 \in UNION {Credit(s1, a, l) : s1 \in MintMigrated(Now, l + k)}}
<1>1. Now \in State
  BY NowIsState DEF Inv
<1>2. l \in Nat /\ k \in Nat /\ l + k \in Nat
  BY SnapshotIsNat
<1>3. Ends(S)
  BY DEF CreditMigration
<1> HIDE DEF l, k
<1>4. ASSUME NEW t \in S
      PROVE  /\ Closes(Now, t)
             /\ \E b \in Accounts, n \in Nat : Bal(t) = Plus(Bal(Now), b, n)
             /\ \E h \in Nat : t.store.held = Now.store.held + h
  <2>1. PICK v \in UNION {Credit(s1, a, l) : s1 \in MintMigrated(Now, l + k)} : t = locked(v)
    BY <1>4
  <2>u. PICK u \in MintMigrated(Now, l + k) : v \in Credit(u, a, l)
    OBVIOUS
  <2>2. Issues(Now, u, l + k) /\ u \in State
    <3>1. Issues(Now, u, l + k)
      BY <1>1, <1>2, MintIssues
    <3> QED BY <3>1 DEF Issues, Kept
  <2>3. Gives(u, v, a, l) /\ v \in State
    <3>1. Gives(u, v, a, l)
      BY <1>2, <2>u, <2>2, CreditGives
    <3> QED BY <3>1 DEF Gives, Kept
  <2>4. Holds(v, t, k)
    <3> DEFINE roll == IF k > 0 THEN v.store.seen \union {a} ELSE v.store.seen
    <3>1. t = [v EXCEPT !.store.held = @ + k, !.store.seen = roll, !.store.migDone = @ \union {a}]
      BY <2>1
    <3>2. roll \in SUBSET Accounts
      BY <2>3 DEF State, Store
    <3> HIDE DEF locked, S, roll
    <3> QED BY <1>2, <2>3, <3>1, <3>2, StakeHolds
  <2>5. /\ Closes(Now, t) /\ Bal(t) = Plus(Bal(Now), a, l)
        /\ t.store.held = Now.store.held + k
    <3> HIDE DEF locked, S
    <3> QED BY <1>1, <1>2, <2>2, <2>3, <2>4, IssueCloses
  <2> QED BY <1>2, <2>5
<1> HIDE DEF S
<1> QED BY <1>3, <1>4, IssueSound

\* A snapshot position burnt.
LEMMA BurnMigrationSound ==
  ASSUME Inv, NEW a \in Accounts, BurnMigration(a)
  PROVE  Sound
<1> DEFINE n == Snapshot[a].liquid + Snapshot[a].staked
           S == {[s2 EXCEPT !.store.migDone = @ \union {a}] :
                   s2 \in UNION {Credit(s1, Null, n) : s1 \in MintMigrated(Now, n)}}
<1>1. Now \in State
  BY NowIsState DEF Inv
<1>2. n \in Nat /\ n + 0 = n /\ 0 \in Nat
  BY SnapshotIsNat
<1>3. Ends(S)
  BY DEF BurnMigration
<1>4. Null \in Accounts
  BY TokenLedgerAssumption
<1> HIDE DEF n
<1>5. ASSUME NEW t \in S
      PROVE  /\ Closes(Now, t)
             /\ \E b \in Accounts, k \in Nat : Bal(t) = Plus(Bal(Now), b, k)
             /\ \E h \in Nat : t.store.held = Now.store.held + h
  <2>u. PICK u \in MintMigrated(Now, n) :
          \E v \in Credit(u, Null, n) : t = [v EXCEPT !.store.migDone = @ \union {a}]
    BY <1>5
  <2>1. PICK v \in Credit(u, Null, n) : t = [v EXCEPT !.store.migDone = @ \union {a}]
    BY <2>u
  <2>2. Issues(Now, u, n + 0) /\ u \in State
    <3>1. Issues(Now, u, n)
      BY <1>1, <1>2, MintIssues
    <3> QED BY <1>2, <3>1 DEF Issues, Kept
  <2>3. Gives(u, v, Null, n) /\ v \in State
    <3>1. Gives(u, v, Null, n)
      BY <1>2, <1>4, <2>1, <2>2, CreditGives
    <3> QED BY <3>1 DEF Gives, Kept
  <2>4. Holds(v, t, 0)
    <3>1. v.store.held + 0 = v.store.held
      BY <2>3, NumbersAreNat
    <3> QED BY <2>1, <2>3, <3>1 DEF Holds, SameBooks, State, Store
  <2>5. /\ Closes(Now, t) /\ Bal(t) = Plus(Bal(Now), Null, n)
        /\ t.store.held = Now.store.held + 0
    BY <1>1, <1>2, <1>4, <2>2, <2>3, <2>4, IssueCloses
  <2> QED BY <1>2, <1>4, <2>5
<1> HIDE DEF S
<1> QED BY <1>3, <1>5, IssueSound

\* A payment into a mint or a pool.
LEMMA LockCallsSound ==
  ASSUME Inv, NEW a \in Accounts, NEW n \in Nat \ {0}, LockInMint(a, n) \/ LockInPool(a, n)
  PROVE  Sound
<1>1. Now \in State
  BY NowIsState DEF Inv
<1>2. ASSUME NEW u \in Debit(Now, a, n)
      PROVE  /\ Holds(u, [u EXCEPT !.store.held = @ + n], n)
             /\ Holds(u, NoteAccount([u EXCEPT !.store.held = @ + n], a), n)
  <2> DEFINE t == [u EXCEPT !.store.held = @ + n]
  <2>1. u \in State
    <3>1. Gives(Now, u, a, - n)
      BY <1>1, DebitGives
    <3> QED BY <3>1 DEF Gives, Kept
  <2>2. Holds(u, t, n)
    <3>1. n \in Int /\ u.store.held + n \in Nat
      BY <2>1, NumbersAreNat
    <3> QED BY <2>1, <3>1, HeldUpdate
  <2> HIDE DEF t
  <2>3. t \in State
    BY <2>2 DEF Holds
  <2>4. Holds(u, NoteAccount(t, a), n)
    <3>1. /\ NoteAccount(t, a) \in State
          /\ NoteAccount(t, a).token = t.token
          /\ NoteAccount(t, a).store = [t.store EXCEPT !.seen = @ \union {a}]
      BY <2>3 DEF NoteAccount, State, Store
    <3> QED BY <2>2, <2>3, <3>1 DEF Holds, SameBooks, State, Store
  <2> QED BY <2>2, <2>4 DEF t
<1>3. CASE LockInMint(a, n)
  <2> DEFINE S == {NoteAccount([s EXCEPT !.store.held = @ + n], a) : s \in Debit(Now, a, n)}
  <2>1. Ends(S)
    BY <1>3 DEF LockInMint
  <2>2. \A t \in S : \E u \in Debit(Now, a, n) : Holds(u, t, n)
    BY <1>2
  <2> HIDE DEF S
  <2> QED BY <2>1, <2>2, LockSound
<1>4. CASE LockInPool(a, n)
  <2> DEFINE S == {[s EXCEPT !.store.held = @ + n] : s \in Debit(Now, a, n)}
  <2>1. Ends(S)
    BY <1>4 DEF LockInPool
  <2>2. \A t \in S : \E u \in Debit(Now, a, n) : Holds(u, t, n)
    BY <1>2
  <2> HIDE DEF S
  <2> QED BY <2>1, <2>2, LockSound
<1> QED BY <1>3, <1>4

\* A call that closes and changes no balance is a stutter.
LEMMA StutterSound ==
  ASSUME Inv, Closes(Now, Now'), donated' = donated, Bal(Now') = Bal(Now),
         Now'.store.held = Now.store.held, Books(Now'.store) = Books(Now.store)
  PROVE  Sound
<1>1. UNCHANGED L!vars
  BY BalNow DEF L!vars, Bal, Balance, Now
<1> QED BY <1>1, CloseSound DEF Sound

\* Moving a batch of rows.
LEMMA MigrateLedgerSound ==
  ASSUME Inv, NEW a \in Accounts, NEW b \in Accounts, MigrateLedger(a, b)
  PROVE  Sound
<1> DEFINE S == UNION {EnsureMigrated(s, b) : s \in EnsureMigrated(Now, a)}
<1>1. Now \in State
  BY NowIsState DEF Inv
<1>2. ASSUME NEW t \in S
      PROVE  /\ Closes(Now, t)
             /\ Bal(t) = Bal(Now)
             /\ t.store.held = Now.store.held /\ Books(t.store) = Books(Now.store)
  <2>1. PICK u \in EnsureMigrated(Now, a) : t \in EnsureMigrated(u, b)
    BY <1>2
  <2>2. /\ Closes(Now, u) /\ Bal(u) = Bal(Now) /\ u.store.cfg_token = Now.store.cfg_token
        /\ u.store.held = Now.store.held /\ Books(u.store) = Books(Now.store)
    BY <1>1, RowsMovedCloses
  <2>3. u \in State
    BY <2>2 DEF Closes
  <2>4. /\ Closes(u, t) /\ Bal(t) = Bal(u)
        /\ t.store.held = u.store.held /\ Books(t.store) = Books(u.store)
    BY <2>1, <2>3, RowsMovedCloses
  <2>5. Closes(Now, t)
    <3>1. Backing(t) >= Backing(u) /\ Backing(u) >= Backing(Now) => Backing(t) >= Backing(Now)
      <4>1. t \in State
        BY <2>4 DEF Closes
      <4>2. Backing(t) \in Int /\ Backing(u) \in Int /\ Backing(Now) \in Int
        BY <1>1, <2>3, <4>1, NumbersAreNat DEF Backing
      <4> QED BY <4>2
    <3> QED BY <2>2, <2>4, <3>1, Zenon DEF Closes, Adopted
  <2> QED BY <2>2, <2>4, <2>5
<1>3. Ends(S)
  BY DEF MigrateLedger
<1> HIDE DEF S
<1>4. Now' \in S /\ donated' = donated
  <2>1. \A t \in S : t \in State
    BY <1>2 DEF Closes
  <2> QED BY <1>3, <2>1, EndsIn
<1> QED BY <1>2, <1>4, StutterSound

\* Reconciling mints to the float, and only that.
LEMMA ReconcileFloatSound ==
  ASSUME Inv, ReconcileFloat
  PROVE  Sound
<1> DEFINE k == ReconcileAmount
           S == TokenMint(Now, k)
           f == [Now.token.bal EXCEPT ![Core] = @ + k]
<1>1. Now \in State /\ Now.store = store /\ Now.token = token
  BY NowIsState DEF Inv
<1>2. k \in Nat
  <2>1. token.supply \in Nat /\ Books(store) \in Nat
    BY <1>1, NumbersAreNat
  <2> QED BY <2>1 DEF ReconcileFloat, ReconcileAmount
<1>3. ASSUME NEW t \in S
      PROVE  /\ Closes(Now, t)
             /\ Bal(t) = Bal(Now)
             /\ t.store.held = Now.store.held /\ Books(t.store) = Books(Now.store)
  <2> HIDE DEF k
  <2>1. t = WithTokens(Now, f, Now.token.supply + k) /\ f \in [Accounts \union {Core} -> Nat]
    BY <1>1, <1>2, <1>3, TokenMintIs
  <2>2. Now.token.bal \in [Accounts \union {Core} -> Nat]
    BY <1>1 DEF State, Token
  <2>3. f[Core] = Now.token.bal[Core] + k /\ \A x \in Accounts : f[x] = Now.token.bal[x]
    BY <2>2, TokenLedgerAssumption
  <2>4. Now.token.supply + k \in Nat
    BY <1>1, <1>2, NumbersAreNat
  <2> HIDE DEF f
  <2>5. /\ t \in State /\ t.store = Now.store /\ t.token.bal = f
        /\ t.token.supply = Now.token.supply + k
    BY <1>1, <2>1, <2>4, WithTokensState, ZenonT(60)
  <2>6. Bal(t) = Bal(Now) /\ Rows(t) = Rows(Now)
    BY <2>3, <2>5 DEF Bal, Rows
  <2>7. Spread(t) = Spread(Now)
    BY <2>5, <2>6 DEF Spread
  <2>8. Gap(t) = Gap(Now)
    BY <1>1, <1>2, <2>3, <2>5, <2>6, NumbersAreNat DEF Gap
  <2>9. Backing(t) >= Backing(Now)
    BY <1>1, <1>2, <2>5, <2>6, NumbersAreNat DEF Backing
  <2> QED BY <2>5, <2>6, <2>7, <2>8, <2>9 DEF Closes
<1>4. Ends(S)
  BY DEF ReconcileFloat
<1> HIDE DEF S
<1>5. Now' \in S /\ donated' = donated
  <2>1. \A t \in S : t \in State
    BY <1>3 DEF Closes
  <2> QED BY <1>4, <2>1, EndsIn
<1> QED BY <1>3, <1>5, StutterSound

\* Adopting a token, and handing it over, move nothing.
LEMMA OwnerCallsSound ==
  ASSUME Inv, SetToken \/ HandOver
  PROVE  Sound
<1>1. Now \in State /\ Now.store = store /\ Now.token = token
  BY NowIsState DEF Inv
<1>2. /\ Now' \in State /\ donated' = donated
      /\ store'.bal = store.bal /\ store'.held = store.held
      /\ store'.sup_migrated = store.sup_migrated /\ store'.sup_emitted = store.sup_emitted
      /\ token'.bal = token.bal /\ token'.supply = token.supply
      /\ store.cfg_token => store'.cfg_token
      /\ Now'.store = store' /\ Now'.token = token'
  <2>1. CASE SetToken
    BY <1>1, <2>1 DEF SetToken, Now, State, Store
  <2>2. CASE HandOver
    BY <1>1, <2>2 DEF HandOver, Now, State, Token
  <2> QED BY <2>1, <2>2
<1>3. Bal(Now') = Bal(Now) /\ Rows(Now') = Rows(Now) /\ Books(Now'.store) = Books(Now.store)
  BY <1>1, <1>2 DEF Bal, Rows, Books
<1>4. Spread(Now') = Spread(Now) /\ Gap(Now') = Gap(Now) /\ Backing(Now') = Backing(Now)
  BY <1>1, <1>2, <1>3 DEF Spread, Gap, Backing
<1>5. Backing(Now) \in Int
  BY <1>1, NumbersAreNat DEF Backing
<1>6. Closes(Now, Now')
  BY <1>2, <1>4, <1>5 DEF Closes
<1> QED BY <1>1, <1>2, <1>3, <1>6, StutterSound

\* A holder's own call of the token: the contract neither sees nor needs it.
LEMMA TokenSendSound ==
  ASSUME Inv, NEW a \in Signers, NEW to \in Accounts \union {Core}, NEW n \in Amounts,
         TokenSend(a, to, n)
  PROVE  Sound
<1>1. Now \in State /\ Now.store = store /\ Now.token = token /\ donated \in Nat
  BY NowIsState DEF Inv
<1>2. a \in Accounts /\ n \in Nat /\ n \in Nat \ {0}
  BY TokenLedgerAssumption DEF Signers
<1> DEFINE u == [Now EXCEPT !.token.bal[a] = @ - n, !.token.bal[Core] = @ + n]
<1>3. u \in TokenTransferFrom(Now, a, n)
  BY <1>1, <1>2 DEF TokenTransferFrom, TokenSend
<1> HIDE DEF u
<1>4. /\ Gives(Now, u, a, - n) /\ u.store = store /\ Bal(Now)[a] >= n
      /\ u = WithTokens(Now, [token.bal EXCEPT ![a] = @ - n, ![Core] = @ + n], token.supply)
  BY <1>1, <1>2, <1>3, TokenTransferFromGives, TokenTransferFromIs
<1>5. /\ token' = [token EXCEPT !.bal[a] = @ - n, !.bal[to] = @ + n]
      /\ store' = store /\ to # a
      /\ donated' = IF to = Core THEN donated + n ELSE donated
  BY DEF TokenSend
<1>6. token.bal \in [Accounts \union {Core} -> Nat] /\ token.bal[a] >= n
  BY <1>1 DEF State, Token, TokenSend
<1>7. Now' = WithTokens(Now, [token.bal EXCEPT ![a] = @ - n, ![to] = @ + n], token.supply)
  BY <1>1, <1>5 DEF Now, WithTokens, State, Token
<1>8. CASE to = Core
  <2>1. Now' = u /\ donated' = donated + n
    BY <1>4, <1>5, <1>7, <1>8
  <2>2. Now' \in State
    BY <1>4, <2>1 DEF Gives, Kept
  <2>3. Bal(Now') = Plus(Bal(Now), a, - n) /\ Books(store') = Books(store)
    BY <1>4, <1>5, <2>1 DEF Gives
  <2>4. Spread(Now') + donated' = 0 /\ Gap(Now') = donated'
    BY <1>1, <1>2, <1>4, <2>1, SumsAreInt DEF Gives, Inv
  <2>5. Inv'
    <3>1. TypeOK'
      BY <1>1, <1>2, <2>1, <2>2 DEF TypeOK, State, Now
    <3> QED BY <2>4, <3>1 DEF Inv
  <2>6. store.cfg_token /\ Backed => Backed'
    <3>1. token'.supply = token.supply
      BY <1>1, <1>5 DEF State, Token
    <3> QED BY <1>5, <3>1 DEF Backed, Unmoved
  <2>7. L!Next
    <3> DEFINE f == [x \in Accounts |-> Balance(x)]
    <3>1. f \in [Accounts -> Nat] /\ f[a] >= n
      BY <1>1, <1>4, BalNow, BalIsNat
    <3>2. f' = Plus(f, a, - n)
      BY <2>3, BalNow DEF Bal, Now, Balance
    <3> HIDE DEF f
    <3>3. f' = [f EXCEPT ![a] = @ - n]
      BY <1>2, <3>1, <3>2 DEF Plus
    <3>4. n \in 1 .. f[a]
      BY <1>2, <3>1
    <3>5. store'.held + donated' = (store.held + donated) + n
      BY <1>1, <1>2, <1>5, <2>1, NumbersAreNat
    <3>6. L!Lock(a, n)
      BY <2>3, <3>3, <3>5 DEF L!Lock, f
    <3> QED BY <1>2, <3>4, <3>6 DEF L!Next, f
  <2> QED BY <2>5, <2>6, <2>7 DEF Sound
<1>9. CASE to # Core
  <2>1. to \in Accounts /\ donated' = donated /\ a # Core
    BY <1>2, <1>5, <1>9, TokenLedgerAssumption
  <2> DEFINE g == [token.bal EXCEPT ![a] = @ - n, ![Core] = @ + n]
             h == [u.token.bal EXCEPT ![Core] = @ - n, ![to] = @ + n]
  <2>2. u \in State /\ u.token.bal = g /\ u.token.supply = token.supply
        /\ u.token.owner = token.owner /\ u.store = store
    BY <1>1, <1>4 DEF Gives, Kept, WithTokens
  <2>3. h = [token.bal EXCEPT ![a] = @ - n, ![to] = @ + n]
    BY <1>2, <1>5, <1>6, <2>1, <2>2
  <2>4. Now' = WithTokens(u, h, u.token.supply)
    BY <1>1, <1>7, <2>2, <2>3 DEF WithTokens
  <2>5. PICK v : v = [u EXCEPT !.token.bal[Core] = @ - n, !.token.bal[to] = @ + n]
    OBVIOUS
  <2>6. Now' \in TokenTransfer(u, to, n)
    <3>1. u.token.bal[Core] >= n
      BY <1>1, <1>2, <1>6, <2>1, <2>2
    <3>2. v \in TokenTransfer(u, to, n)
      BY <1>2, <2>5, <3>1 DEF TokenTransfer
    <3>3. v = WithTokens(u, h, u.token.supply)
      BY <1>2, <2>1, <2>2, <3>2, TokenTransferIs
    <3> QED BY <2>4, <3>2, <3>3
  <2>7. Gives(u, Now', to, n)
    BY <1>2, <2>1, <2>2, <2>6, TokenTransferGives
  <2>8. /\ Closes(Now, Now')
        /\ Bal(Now') = Plus(Plus(Bal(Now), a, - n), to, n)
        /\ Now'.store.held = Now.store.held /\ Books(Now'.store) = Books(Now.store)
    BY <1>1, <1>2, <1>4, <2>1, <2>7, GiftCloses
  <2> QED BY <1>2, <1>4, <1>5, <2>1, <2>8, MoveRefines
<1> QED BY <1>8, <1>9

-----------------------------------------------------------------------------
(* The theorems.                                                           *)

\* Nothing is anywhere at first.
LEMMA InitSound == Init => Inv /\ L!Init
<1> SUFFICES ASSUME Init PROVE Inv /\ L!Init
  OBVIOUS
<1>1. TypeOK
  BY DEF Init, TypeOK, Store, Token
<1>2. \A a \in Accounts : store.bal[a] = 0 /\ token.bal[a] = 0
  BY DEF Init
<1>3. Bal(Now) = [a \in Accounts |-> 0]
  BY <1>2 DEF Bal, Now
<1>4. Total([a \in Accounts |-> 0], Accounts) = 0
  <2> DEFINE z == [a \in Accounts |-> 0]
  <2>1. \A x \in Accounts : 1 .. z[x] = {}
    OBVIOUS
  <2> HIDE DEF z
  <2>2. Pairs(z, Accounts) = {}
    BY <2>1 DEF Pairs
  <2>3. Total(z, Accounts) = 0
    BY <2>2, FS_EmptySet DEF Total
  <2> QED BY <2>3 DEF z
<1>5. /\ store.bal = [a \in Accounts |-> 0] /\ store.held = 0 /\ Books(store) = 0
      /\ token.bal[Core] = 0 /\ token.supply = 0 /\ donated = 0
  BY DEF Init, Books
<1>6. Spread(Now) + donated = 0 /\ Gap(Now) = donated
  BY <1>3, <1>4, <1>5, NowIsState DEF Spread, Gap, Rows
<1>7. L!Init
  BY <1>3, <1>5, BalNow DEF L!Init
<1> QED BY <1>1, <1>6, <1>7 DEF Inv

\* Every step keeps the invariant and the backing, and is one of the ledger's.
LEMMA NextSound == Inv /\ [Next]_vars => Sound
<1> SUFFICES ASSUME Inv, [Next]_vars PROVE Sound
  OBVIOUS
<1>a. \A a \in Signers : a \in Accounts /\ a # Null
  BY DEF Signers
<1>n. \A n \in Amounts : n \in Nat \ {0} /\ n \in Nat
  BY TokenLedgerAssumption
<1>0. Null \in Accounts
  BY TokenLedgerAssumption
<1>1. ASSUME NEW a \in Signers, NEW n \in Amounts, NEW b \in Accounts, Transfer(a, b, n)
      PROVE  Sound
  BY <1>a, <1>n, <1>1, MoveSound DEF Transfer
<1>2. ASSUME NEW a \in Signers, NEW n \in Amounts, Burn(a, n)
      PROVE  Sound
  BY <1>a, <1>n, <1>0, <1>2, MoveSound DEF Burn
<1>3. ASSUME NEW a \in Signers, NEW n \in Amounts, LockInMint(a, n) \/ LockInPool(a, n)
      PROVE  Sound
  BY <1>a, <1>n, <1>3, LockCallsSound
<1>4. ASSUME NEW a \in Signers, NEW n \in Amounts, PayOut(a, n)
      PROVE  Sound
  BY <1>a, <1>n, <1>4, PayOutSound
<1>5. ASSUME NEW a \in Signers, NEW n \in Amounts, NEW to \in Accounts \union {Core},
             TokenSend(a, to, n)
      PROVE  Sound
  BY <1>5, TokenSendSound
<1>6. ASSUME NEW n \in Amounts, Settle(n)
      PROVE  Sound
  BY <1>n, <1>6, SettleSound
<1>7. ASSUME NEW a \in Accounts, CreditMigration(a) \/ BurnMigration(a)
      PROVE  Sound
  BY <1>7, CreditMigrationSound, BurnMigrationSound
<1>8. ASSUME SetToken \/ HandOver
      PROVE  Sound
  BY <1>8, OwnerCallsSound
<1>9. ASSUME NEW a \in Accounts, NEW b \in Accounts, MigrateLedger(a, b)
      PROVE  Sound
  BY <1>9, MigrateLedgerSound
<1>10. ASSUME ReconcileFloat
       PROVE  Sound
  BY <1>10, ReconcileFloatSound
<1>11. CASE UNCHANGED vars
  <2>1. Now' = Now /\ donated' = donated
    BY <1>11 DEF vars, Now
  <2>2. Now \in State /\ Backing(Now) \in Int
    BY NowIsState, NumbersAreNat DEF Inv, Backing
  <2>3. Closes(Now, Now')
    BY <2>1, <2>2 DEF Closes
  <2> QED BY <2>1, <2>3, StutterSound
<1> QED BY <1>1, <1>2, <1>3, <1>4, <1>5, <1>6, <1>7, <1>8, <1>9, <1>10, <1>11 DEF Next

\* The inductive invariant: the shape of the state, and the two sums.
THEOREM InvAlways == Spec => []Inv
<1>1. Init => Inv
  BY InitSound
<1>2. Inv /\ [Next]_vars => Inv'
  BY NextSound DEF Sound
<1> QED BY <1>1, <1>2, PTL DEF Spec

\* No balance, counter or float ever goes below zero.
THEOREM TokenTypeCorrect == Spec => []TypeOK
<1>1. Inv => TypeOK
  BY DEF Inv
<1> QED BY <1>1, InvAlways, PTL

\* The audit of ledger.go balances to the unit in every state.
THEOREM BooksExact == Spec => []BooksBalance
<1>1. Inv => BooksBalance
  <2> SUFFICES ASSUME Inv PROVE BooksBalance
    OBVIOUS
  <2>1. Now \in State /\ Now.store = store /\ donated \in Nat
    BY NowIsState DEF Inv
  <2>2. Total(Bal(Now), Accounts) + store.held - Books(store) + donated = 0
    BY <2>1 DEF Inv, Spread
  <2>3. Total(Bal(Now), Accounts) \in Nat /\ store.held \in Nat /\ Books(store) \in Nat
    BY <2>1, NumbersAreNat
  <2>4. PICK x \in Nat, h \in Nat, b \in Nat, d \in Nat :
          x = Total(Bal(Now), Accounts) /\ h = store.held /\ b = Books(store) /\ d = donated
    BY <2>1, <2>3
  <2>5. x + h - b + d = 0
    BY <2>2, <2>4
  <2>6. x + h + d = b
    BY <2>5
  <2> QED BY <2>4, <2>6, BalNow DEF BooksBalance
<1> QED BY <1>1, InvAlways, PTL

\* Once the supply is backed the float covers what is kept for others.
THEOREM FloatPays == Spec => []BackedFloatPays
<1>1. Inv => BackedFloatPays
  <2> SUFFICES ASSUME Inv, Backed PROVE token.bal[Core] >= store.held
    BY DEF BackedFloatPays
  <2>1. Now \in State /\ Now.store = store /\ Now.token = token /\ donated \in Nat
    BY NowIsState DEF Inv
  <2>2. token.bal[Core] - store.held - token.supply - Rows(Now) + Books(store) = donated
    BY <2>1 DEF Inv, Gap
  <2>3. token.supply + Rows(Now) >= Books(store)
    BY <2>1 DEF Backed, Unmoved, Rows
  <2>4. /\ token.bal[Core] \in Nat /\ store.held \in Nat /\ token.supply \in Nat
        /\ Rows(Now) \in Nat /\ Books(store) \in Nat
    BY <2>1, NumbersAreNat
  <2> QED BY <2>1, <2>2, <2>3, <2>4
<1> QED BY <1>1, InvAlways, PTL

\* A backed supply stays backed, whatever is emitted, migrated, moved or paid.
THEOREM StaysBacked == Spec => BackedStaysBacked
<1>1. Inv /\ [Next]_vars => [store.cfg_token /\ Backed => Backed']_vars
  BY NextSound DEF Sound
<1> QED BY <1>1, InvAlways, PTL DEF Spec, BackedStaysBacked

\* Rows and tokens together are the one ledger that LASSECASH promises.
THEOREM Implements == Spec => ImplementsLedger
<1>1. Init => L!Init
  BY InitSound
<1>2. Inv /\ [Next]_vars => [L!Next]_(L!vars)
  BY NextSound DEF Sound
<1> QED BY <1>1, <1>2, InvAlways, PTL DEF Spec, ImplementsLedger, L!Spec

-----------------------------------------------------------------------------
(* Whoever holds is served: the counters stay under their caps, no token   *)
(* is issued beyond the books, and whom the contract pays is on the roll.  *)

Counters(s) ==
  /\ s.store.sup_emitted <= EmissionCap
  /\ s.store.sup_migrated + EmissionCap <= HistoricHardCap

Rolled(s) == \A a \in Accounts \ DirectTo : Bal(s)[a] > 0 => a \in s.store.seen

Sane(s) ==
  /\ Counters(s)
  /\ IF Adopted(s) THEN Backing(s) <= 0 ELSE s.token.supply = 0
  /\ Rolled(s)

\* A step that issues no token beyond the books and notes whom it pays.
Serves(s, t) ==
  /\ t \in State
  /\ t.store.cfg_token = s.store.cfg_token
  /\ s.store.seen \subseteq t.store.seen
  /\ \A x \in Accounts : Bal(t)[x] > Bal(s)[x] => x \in t.store.seen
  /\ IF Adopted(s) THEN Backing(t) = Backing(s) ELSE t.token.supply = s.token.supply

LEMMA ServesChain ==
  ASSUME NEW s \in State, NEW t, NEW u, Serves(s, t), Serves(t, u)
  PROVE  Serves(s, u)
<1>1. t \in State /\ u \in State
  BY DEF Serves
<1>2. ASSUME NEW x \in Accounts, Bal(u)[x] > Bal(s)[x]
      PROVE  x \in u.store.seen
  <2>1. Bal(s)[x] \in Nat /\ Bal(t)[x] \in Nat /\ Bal(u)[x] \in Nat
    BY <1>1, BalIsNat
  <2>2. Bal(t)[x] > Bal(s)[x] \/ Bal(u)[x] > Bal(t)[x]
    BY <1>2, <2>1
  <2> QED BY <2>2 DEF Serves
<1>3. Adopted(t) <=> Adopted(s)
  BY DEF Serves, Adopted
<1> QED BY <1>1, <1>2, <1>3 DEF Serves

LEMMA ServesSelf ==
  ASSUME NEW s \in State
  PROVE  Serves(s, s)
<1>1. \A x \in Accounts : ~ (Bal(s)[x] > Bal(s)[x])
  BY BalIsNat
<1> QED BY <1>1 DEF Serves

\* A gift serves if who gets it is noted.
LEMMA GivesServes ==
  ASSUME NEW s \in State, NEW t, NEW a \in Accounts, NEW d \in Int, Gives(s, t, a, d),
         s.store.seen \subseteq t.store.seen,
         d <= 0 \/ a \in t.store.seen,
         Adopted(s) \/ t.token.supply = s.token.supply
  PROVE  Serves(s, t) /\ (Counters(s) => Counters(t))
<1>1. t \in State /\ t.store.cfg_token = s.store.cfg_token
  BY DEF Gives, Kept
<1>2. ASSUME NEW x \in Accounts, Bal(t)[x] > Bal(s)[x]
      PROVE  x \in t.store.seen
  <2> DEFINE f == Bal(s)
  <2>1. f \in [Accounts -> Nat] /\ Bal(t) = [f EXCEPT ![a] = @ + d]
    BY BalIsNat DEF Gives, Plus
  <2> HIDE DEF f
  <2>2. Bal(t)[x] = (IF x = a THEN f[x] + d ELSE f[x]) /\ f[x] \in Nat
    BY <2>1
  <2>3. Bal(t)[x] > f[x]
    BY <1>2 DEF f
  <2> QED BY <2>2, <2>3
<1>3. Adopted(s) => Backing(t) = Backing(s)
  <2> SUFFICES ASSUME Adopted(s) PROVE Backing(t) = Backing(s)
    OBVIOUS
  <2>1. t.token.supply + Rows(t) = s.token.supply + Rows(s) /\ Books(t.store) = Books(s.store)
    BY DEF Gives, SameBooks, Books
  <2>2. Rows(s) \in Nat /\ s.token.supply \in Nat /\ Books(s.store) \in Nat
        /\ Rows(t) \in Nat /\ t.token.supply \in Nat
    BY <1>1, NumbersAreNat
  <2> QED BY <2>1, <2>2 DEF Backing
<1>4. Counters(s) => Counters(t)
  BY DEF Gives, SameBooks, Counters
<1> QED BY <1>1, <1>2, <1>3, <1>4 DEF Serves

\* A credit notes its account, wherever the balance is.
LEMMA CreditServes ==
  ASSUME NEW s \in State, NEW a \in Accounts, NEW n \in Nat, NEW t \in Credit(s, a, n)
  PROVE  Serves(s, t) /\ (Counters(s) => Counters(t))
<1>0. Gives(s, t, a, n) /\ n \in Int
  BY CreditGives
<1>1. CASE n = 0
  <2>1. t = s
    BY <1>1 DEF Credit
  <2> QED BY <2>1, ServesSelf
<1>2. CASE n # 0
  <2>1. ASSUME NEW s2 \in State, t = NoteAccount(s2, a), s2.store.seen = s.store.seen
        PROVE  s.store.seen \subseteq t.store.seen /\ a \in t.store.seen
               /\ t.token = s2.token
    BY <2>1 DEF NoteAccount, State, Store
  <2>2. CASE Adopted(s)
    <3>1. PICK s1 \in EnsureMigrated(s, a) : \E s2 \in TokenTransfer(s1, a, n) : t = NoteAccount(s2, a)
      BY <1>2, <2>2 DEF Credit
    <3>2. PICK s2 \in TokenTransfer(s1, a, n) : t = NoteAccount(s2, a)
      BY <3>1
    <3>3. s1 \in State /\ s1.store.seen = s.store.seen
      BY EnsureMigratedGives DEF Gives, Kept
    <3>4. s2 \in State /\ s2.store = s1.store
      BY <3>3, TokenTransferGives DEF Gives, Kept
    <3>5. s.store.seen \subseteq t.store.seen /\ a \in t.store.seen
      BY <2>1, <3>2, <3>3, <3>4
    <3> QED BY <1>0, <2>2, <3>5, GivesServes
  <2>3. CASE ~ Adopted(s)
    <3>1. PICK s1 : s1 = [s EXCEPT !.store.bal[a] = @ + n] /\ t = NoteAccount(s1, a)
      BY <1>2, <2>3 DEF Credit
    <3>2. s.store.bal[a] + n \in Nat
      BY NumbersAreNat
    <3>3. Gives(s, s1, a, n) /\ s1.store.seen = s.store.seen
      BY <1>0, <2>3, <3>1, <3>2, RowGives, ZenonT(60)
    <3>4. s1 \in State /\ s1.token = s.token
      BY <3>1, <3>3 DEF Gives, Kept, State
    <3>5. s.store.seen \subseteq t.store.seen /\ a \in t.store.seen /\ t.token = s.token
      BY <2>1, <3>1, <3>3, <3>4
    <3> QED BY <1>0, <3>5, GivesServes
  <2> QED BY <2>2, <2>3
<1> QED BY <1>1, <1>2

\* A debit pays nobody.
LEMMA DebitServes ==
  ASSUME NEW s \in State, NEW a \in Accounts, NEW n \in Nat, NEW t \in Debit(s, a, n)
  PROVE  Serves(s, t) /\ (Counters(s) => Counters(t))
<1>0. Gives(s, t, a, - n) /\ - n \in Int /\ - n <= 0
  BY DebitGives
<1>1. CASE Adopted(s)
  <2>1. PICK s1 \in EnsureMigrated(s, a) : t \in TokenTransferFrom(s1, a, n)
    BY <1>1 DEF Debit
  <2>2. s1 \in State /\ s1.store.seen = s.store.seen
    BY EnsureMigratedGives DEF Gives, Kept
  <2>3. t.store = s1.store
    BY <2>1, <2>2, TokenTransferFromGives
  <2>4. s.store.seen \subseteq t.store.seen
    BY <2>2, <2>3
  <2> QED BY <1>0, <1>1, <2>4, GivesServes
<1>2. CASE ~ Adopted(s)
  <2>1. t = [s EXCEPT !.store.bal[a] = @ - n]
    BY <1>2 DEF Debit
  <2>2. t.store.seen = s.store.seen /\ t.token = s.token
    BY <2>1 DEF State, Store
  <2>3. s.store.seen \subseteq t.store.seen /\ t.token.supply = s.token.supply
    BY <2>2
  <2> QED BY <1>0, <2>3, GivesServes
<1> QED BY <1>1, <1>2

\* New supply has its tokens behind it, and no holder yet.
LEMMA MintServes ==
  ASSUME NEW s \in State, NEW n \in Nat, NEW t \in MintMigrated(s, n) \union MintEmitted(s, n)
  PROVE  Serves(s, t) /\ t.store.seen = s.store.seen
<1>0. Issues(s, t, n)
  BY MintIssues
<1>1. PICK u \in MintBacking(s, n) : \/ t = [u EXCEPT !.store.sup_migrated = @ + n]
                                    \/ t = [u EXCEPT !.store.sup_emitted = @ + n]
  BY DEF MintMigrated, MintEmitted
<1>2. u \in State /\ u.store = s.store
  BY MintBackingIs
<1>3. t.store.seen = s.store.seen /\ t.token = u.token
  BY <1>1, <1>2 DEF State, Store
<1>4. ~ Adopted(s) => t.token.supply = s.token.supply
  BY <1>3 DEF MintBacking
<1>5. t \in State /\ t.store.cfg_token = s.store.cfg_token /\ Bal(t) = Bal(s)
  BY <1>0 DEF Issues, Kept
<1>6. \A x \in Accounts : ~ (Bal(t)[x] > Bal(s)[x])
  BY <1>5, BalIsNat
<1>7. Adopted(s) => Backing(t) = Backing(s)
  BY <1>0, <1>5, NumbersAreNat DEF Issues, Backing
<1> QED BY <1>3, <1>4, <1>5, <1>6, <1>7 DEF Serves

\* Neither has what the contract keeps.
LEMMA HoldsServes ==
  ASSUME NEW s \in State, NEW h \in Int, NEW t, Holds(s, t, h), s.store.seen \subseteq t.store.seen
  PROVE  Serves(s, t) /\ (Counters(s) => Counters(t))
<1>1. Bal(t) = Bal(s) /\ Rows(t) = Rows(s) /\ Books(t.store) = Books(s.store)
  BY HoldsEffect
<1>2. t \in State /\ t.token = s.token /\ t.store.cfg_token = s.store.cfg_token
  BY DEF Holds
<1>3. \A x \in Accounts : ~ (Bal(t)[x] > Bal(s)[x])
  BY <1>1, BalIsNat
<1>4. Backing(t) = Backing(s)
  BY <1>1, <1>2 DEF Backing
<1>5. Counters(s) => Counters(t)
  BY DEF Holds, SameBooks, Counters
<1> QED BY <1>2, <1>3, <1>4, <1>5 DEF Serves

\* A step that serves, with its counters under their caps, keeps all sane.
LEMMA ServesSane ==
  ASSUME NEW s \in State, NEW t, Sane(s), Serves(s, t), Counters(t)
  PROVE  Sane(t)
<1>1. t \in State /\ (Adopted(t) <=> Adopted(s))
  BY DEF Serves, Adopted
<1>2. IF Adopted(t) THEN Backing(t) <= 0 ELSE t.token.supply = 0
  BY <1>1 DEF Serves, Sane
<1>3. ASSUME NEW a \in Accounts \ DirectTo, Bal(t)[a] > 0
      PROVE  a \in t.store.seen
  <2>1. Bal(s)[a] \in Nat /\ Bal(t)[a] \in Nat
    BY <1>1, BalIsNat
  <2>2. Bal(t)[a] > Bal(s)[a] \/ Bal(s)[a] > 0
    BY <1>3, <2>1
  <2> QED BY <2>2 DEF Serves, Sane, Rolled
<1> QED BY <1>2, <1>3 DEF Sane, Rolled

LEMMA EndsSane ==
  ASSUME Inv, Sane(Now), NEW S, Ends(S), \A t \in S : Serves(Now, t) /\ Counters(t)
  PROVE  Sane(Now')
<1>1. Now \in State
  BY NowIsState DEF Inv
<1>2. \A t \in S : t \in State
  BY DEF Serves
<1>3. Now' \in S
  BY <1>2, EndsIn
<1> QED BY <1>1, <1>3, ServesSane

-----------------------------------------------------------------------------
(* The calls keep it.                                                      *)

\* A payment from one account to another.
LEMMA PaymentSane ==
  ASSUME Inv, Sane(Now), NEW a \in Accounts, NEW b \in Accounts, NEW n \in Nat,
         Ends(UNION {Credit(s, b, n) : s \in Debit(Now, a, n)})
  PROVE  Sane(Now')
<1> DEFINE S == UNION {Credit(s, b, n) : s \in Debit(Now, a, n)}
<1>1. Now \in State
  BY NowIsState DEF Inv
<1>2. ASSUME NEW t \in S PROVE Serves(Now, t) /\ Counters(t)
  <2>1. PICK u \in Debit(Now, a, n) : t \in Credit(u, b, n)
    BY <1>2
  <2>2. Serves(Now, u) /\ Counters(u)
    BY <1>1, DebitServes DEF Sane
  <2>3. u \in State
    BY <2>2 DEF Serves
  <2>4. Serves(u, t) /\ Counters(t)
    BY <2>1, <2>2, <2>3, CreditServes
  <2> QED BY <1>1, <2>2, <2>4, ServesChain
<1> HIDE DEF S
<1>3. Ends(S)
  BY DEF S
<1> QED BY <1>2, <1>3, EndsSane

\* What the contract keeps changes, and perhaps the roll grows.
LEMMA KeptServes ==
  ASSUME NEW s \in State, NEW k \in Int, s.store.held + k \in Nat, NEW a \in Accounts
  PROVE  LET t == [s EXCEPT !.store.held = @ + k]
         IN  /\ Serves(s, t) /\ (Counters(s) => Counters(t))
             /\ Serves(s, NoteAccount(t, a)) /\ (Counters(s) => Counters(NoteAccount(t, a)))
<1> DEFINE t == [s EXCEPT !.store.held = @ + k]
<1>1. Holds(s, t, k)
  BY HeldUpdate
<1>2. t.store.seen = s.store.seen
  BY DEF State, Store
<1>3. t \in State
  BY <1>1 DEF Holds
<1> HIDE DEF t
<1>4. Serves(s, t) /\ (Counters(s) => Counters(t))
  BY <1>1, <1>2, HoldsServes
<1> DEFINE u == NoteAccount(t, a)
<1>5. u \in State /\ u.token = t.token /\ u.store = [t.store EXCEPT !.seen = @ \union {a}]
  BY <1>3 DEF NoteAccount, State, Store
<1>6. Holds(s, u, k) /\ s.store.seen \subseteq u.store.seen
  BY <1>1, <1>2, <1>3, <1>5 DEF Holds, SameBooks, State, Store
<1> HIDE DEF u
<1>7. Serves(s, u) /\ (Counters(s) => Counters(u))
  BY <1>6, HoldsServes
<1> QED BY <1>4, <1>7 DEF t, u

LEMMA LockCallsSane ==
  ASSUME Inv, Sane(Now), NEW a \in Accounts, NEW n \in Nat, LockInMint(a, n) \/ LockInPool(a, n)
  PROVE  Sane(Now')
<1>1. Now \in State
  BY NowIsState DEF Inv
<1> DEFINE kept(u) == [u EXCEPT !.store.held = @ + n]
<1>2. ASSUME NEW u \in Debit(Now, a, n)
      PROVE  /\ Serves(Now, kept(u)) /\ Counters(kept(u))
             /\ Serves(Now, NoteAccount(kept(u), a)) /\ Counters(NoteAccount(kept(u), a))
  <2>1. Serves(Now, u) /\ Counters(u)
    BY <1>1, DebitServes DEF Sane
  <2>2. u \in State
    BY <2>1 DEF Serves
  <2>3. n \in Int /\ u.store.held + n \in Nat
    BY <2>2, NumbersAreNat
  <2>4. /\ Serves(u, kept(u)) /\ (Counters(u) => Counters(kept(u)))
        /\ Serves(u, NoteAccount(kept(u), a)) /\ (Counters(u) => Counters(NoteAccount(kept(u), a)))
    BY <2>2, <2>3, KeptServes
  <2> HIDE DEF kept
  <2> QED BY <1>1, <2>1, <2>4, ServesChain
<1>3. CASE LockInMint(a, n)
  <2> DEFINE S == {NoteAccount(kept(s), a) : s \in Debit(Now, a, n)}
  <2>1. Ends(S)
    BY <1>3 DEF LockInMint
  <2>2. \A t \in S : Serves(Now, t) /\ Counters(t)
    BY <1>2
  <2> HIDE DEF S
  <2> QED BY <2>1, <2>2, EndsSane
<1>4. CASE LockInPool(a, n)
  <2> DEFINE S == {kept(s) : s \in Debit(Now, a, n)}
  <2>1. Ends(S)
    BY <1>4 DEF LockInPool
  <2>2. \A t \in S : Serves(Now, t) /\ Counters(t)
    BY <1>2
  <2> HIDE DEF S
  <2> QED BY <2>1, <2>2, EndsSane
<1> QED BY <1>3, <1>4

LEMMA PayOutSane ==
  ASSUME Inv, Sane(Now), NEW a \in Accounts, NEW n \in Nat, PayOut(a, n)
  PROVE  Sane(Now')
<1> DEFINE u == [Now EXCEPT !.store.held = @ - n]
           S == Credit(u, a, n)
<1>1. Now \in State /\ n <= Now.store.held /\ Now.store.held \in Nat
  BY NowIsState, NumbersAreNat DEF Inv, PayOut
<1>2. Serves(Now, u) /\ Counters(u)
  <2>1. - n \in Int /\ Now.store.held + (- n) \in Nat /\ Now.store.held - n = Now.store.held + (- n)
    BY <1>1
  <2>2. u = [Now EXCEPT !.store.held = @ + (- n)]
    BY <2>1
  <2> HIDE DEF u
  <2> QED BY <1>1, <2>1, <2>2, KeptServes DEF Sane
<1>3. Ends(S)
  BY DEF PayOut
<1> HIDE DEF u
<1>4. u \in State
  BY <1>2 DEF Serves
<1>5. ASSUME NEW t \in S PROVE Serves(Now, t) /\ Counters(t)
  <2>1. Serves(u, t) /\ Counters(t)
    BY <1>2, <1>4, <1>5, CreditServes
  <2> QED BY <1>1, <1>2, <2>1, ServesChain
<1> HIDE DEF S
<1> QED BY <1>3, <1>5, EndsSane

\* A day's emission stays under the cap of emission.
LEMMA SettleSane ==
  ASSUME Inv, Sane(Now), NEW n \in Nat, Settle(n)
  PROVE  Sane(Now')
<1> DEFINE kept(s) == [s EXCEPT !.store.held = @ + n]
           S == {kept(s) : s \in MintEmitted(Now, n)}
<1>1. Now \in State /\ Now.store = store
  BY NowIsState DEF Inv
<1>2. ASSUME NEW t \in S PROVE Serves(Now, t) /\ Counters(t)
  <2>1. PICK u \in MintEmitted(Now, n) : t = kept(u)
    BY <1>2
  <2>2. Serves(Now, u)
    BY <1>1, MintServes
  <2>3. u \in State
    BY <2>2 DEF Serves
  <2>4. Counters(u)
    <3>1. PICK v \in MintBacking(Now, n) : u = [v EXCEPT !.store.sup_emitted = @ + n]
      BY DEF MintEmitted
    <3>2. v \in State /\ v.store = store
      BY <1>1, MintBackingIs
    <3>3. u.store.sup_emitted = store.sup_emitted + n /\ u.store.sup_migrated = store.sup_migrated
      BY <3>1, <3>2 DEF State, Store
    <3> QED BY <1>1, <3>3 DEF Settle, Sane, Counters
  <2>5. n \in Int /\ u.store.held + n \in Nat
    BY <2>3, NumbersAreNat
  <2>6. Serves(u, t) /\ Counters(t)
    <3>1. Null \in Accounts
      BY TokenLedgerAssumption
    <3>2. Serves(u, kept(u)) /\ (Counters(u) => Counters(kept(u)))
      BY <2>3, <2>5, <3>1, KeptServes
    <3> HIDE DEF kept
    <3> QED BY <2>1, <2>4, <3>2
  <2> QED BY <1>1, <2>2, <2>6, ServesChain
<1>3. Ends(S)
  BY DEF Settle
<1> HIDE DEF S
<1> QED BY <1>2, <1>3, EndsSane

\* Migrated supply leaves room for all of emission.
LEMMA MintMigratedSane ==
  ASSUME Inv, Sane(Now), NEW n \in Nat, MigrationOpen(n), NEW a \in Accounts, NEW l \in Nat,
         NEW u \in MintMigrated(Now, n), NEW v \in Credit(u, a, l)
  PROVE  v \in State /\ Serves(Now, v) /\ Counters(v)
<1>1. Now \in State /\ Now.store = store
  BY NowIsState DEF Inv
<1>2. Serves(Now, u)
  BY <1>1, MintServes
<1>3. u \in State
  BY <1>2 DEF Serves
<1>4. Counters(u)
  <2>1. PICK w \in MintBacking(Now, n) : u = [w EXCEPT !.store.sup_migrated = @ + n]
    BY DEF MintMigrated
  <2>2. w \in State /\ w.store = store
    BY <1>1, MintBackingIs
  <2>3. u.store.sup_migrated = store.sup_migrated + n /\ u.store.sup_emitted = store.sup_emitted
    BY <2>1, <2>2 DEF State, Store
  <2> QED BY <1>1, <2>3 DEF MigrationOpen, Sane, Counters
<1>5. Serves(u, v) /\ Counters(v)
  BY <1>3, <1>4, CreditServes
<1> QED BY <1>1, <1>2, <1>5, ServesChain DEF Serves

LEMMA CreditMigrationSane ==
  ASSUME Inv, Sane(Now), NEW a \in Accounts, CreditMigration(a)
  PROVE  Sane(Now')
<1> DEFINE l == Snapshot[a].liquid
           k == Snapshot[a].staked
           locked(s) == [s EXCEPT !.store.held = @ + k,
                                  !.store.seen = IF k > 0 THEN @ \union {a} ELSE @,
                                  !.store.migDone = @ \union {a}]
           S == {locked(s2) : s2 \in UNION {Credit(s1, a, l) : s1 \in MintMigrated(Now, l + k)}}
<1>1. Now \in State
  BY NowIsState DEF Inv
<1>2. l \in Nat /\ k \in Nat /\ l + k \in Nat
  BY SnapshotIsNat
<1>3. Ends(S) /\ MigrationOpen(l + k)
  BY DEF CreditMigration
<1> HIDE DEF l, k
<1>4. ASSUME NEW t \in S PROVE Serves(Now, t) /\ Counters(t)
  <2>1. PICK v \in UNION {Credit(s1, a, l) : s1 \in MintMigrated(Now, l + k)} : t = locked(v)
    BY <1>4
  <2>2. PICK u \in MintMigrated(Now, l + k) : v \in Credit(u, a, l)
    OBVIOUS
  <2>3. v \in State /\ Serves(Now, v) /\ Counters(v)
    BY <1>2, <1>3, <2>2, MintMigratedSane
  <2> DEFINE roll == IF k > 0 THEN v.store.seen \union {a} ELSE v.store.seen
  <2>4. t = [v EXCEPT !.store.held = @ + k, !.store.seen = roll, !.store.migDone = @ \union {a}]
    BY <2>1
  <2>5. roll \in SUBSET Accounts /\ v.store.seen \subseteq roll
    BY <2>3 DEF State, Store
  <2>6. t.store.seen = roll
    <3> HIDE DEF locked, S, roll
    <3> QED BY <2>3, <2>4 DEF State, Store
  <2> HIDE DEF locked, S, roll
  <2>7. Holds(v, t, k)
    BY <1>2, <2>3, <2>4, <2>5, StakeHolds
  <2>8. Serves(v, t) /\ Counters(t)
    BY <1>2, <2>3, <2>5, <2>6, <2>7, HoldsServes
  <2> QED BY <1>1, <2>3, <2>8, ServesChain
<1> HIDE DEF S
<1> QED BY <1>3, <1>4, EndsSane

LEMMA BurnMigrationSane ==
  ASSUME Inv, Sane(Now), NEW a \in Accounts, BurnMigration(a)
  PROVE  Sane(Now')
<1> DEFINE n == Snapshot[a].liquid + Snapshot[a].staked
           S == {[s2 EXCEPT !.store.migDone = @ \union {a}] :
                   s2 \in UNION {Credit(s1, Null, n) : s1 \in MintMigrated(Now, n)}}
<1>1. Now \in State /\ Null \in Accounts
  BY NowIsState, TokenLedgerAssumption DEF Inv
<1>2. n \in Nat
  BY SnapshotIsNat
<1>3. Ends(S) /\ MigrationOpen(n)
  BY DEF BurnMigration
<1> HIDE DEF n
<1>4. ASSUME NEW t \in S PROVE Serves(Now, t) /\ Counters(t)
  <2>1. PICK u \in MintMigrated(Now, n) :
          \E v \in Credit(u, Null, n) : t = [v EXCEPT !.store.migDone = @ \union {a}]
    BY <1>4
  <2>2. PICK v \in Credit(u, Null, n) : t = [v EXCEPT !.store.migDone = @ \union {a}]
    BY <2>1
  <2>3. v \in State /\ Serves(Now, v) /\ Counters(v)
    BY <1>1, <1>2, <1>3, MintMigratedSane
  <2>4. Holds(v, t, 0) /\ t.store.seen = v.store.seen
    <3>1. v.store.held + 0 = v.store.held
      BY <2>3, NumbersAreNat
    <3> QED BY <2>2, <2>3, <3>1 DEF Holds, SameBooks, State, Store
  <2>5. Serves(v, t) /\ Counters(t)
    <3>1. 0 \in Int /\ v.store.seen \subseteq t.store.seen
      BY <2>4
    <3> QED BY <2>3, <2>4, <3>1, HoldsServes
  <2> QED BY <1>1, <2>3, <2>5, ServesChain
<1> HIDE DEF S
<1> QED BY <1>3, <1>4, EndsSane

\* Rows moved one after the other.
LEMMA MigrateLedgerSane ==
  ASSUME Inv, Sane(Now), NEW a \in Accounts, NEW b \in Accounts, MigrateLedger(a, b)
  PROVE  Sane(Now')
<1> DEFINE S == UNION {EnsureMigrated(s, b) : s \in EnsureMigrated(Now, a)}
<1>1. Now \in State /\ Adopted(Now)
  BY NowIsState DEF Inv, MigrateLedger, Adopted
<1>2. ASSUME NEW s \in State, Adopted(s), NEW x \in Accounts, NEW t \in EnsureMigrated(s, x)
      PROVE  Serves(s, t) /\ (Counters(s) => Counters(t)) /\ t \in State /\ Adopted(t)
  <2>1. Gives(s, t, x, 0) /\ t.store.seen = s.store.seen
    BY EnsureMigratedGives
  <2>2. 0 \in Int /\ s.store.seen \subseteq t.store.seen /\ 0 <= 0
    BY <2>1
  <2>3. Serves(s, t) /\ (Counters(s) => Counters(t))
    BY <1>2, <2>1, <2>2, GivesServes
  <2> QED BY <1>2, <2>3 DEF Serves, Adopted
<1>3. ASSUME NEW t \in S PROVE Serves(Now, t) /\ Counters(t)
  <2>1. PICK u \in EnsureMigrated(Now, a) : t \in EnsureMigrated(u, b)
    BY <1>3
  <2>2. Serves(Now, u) /\ Counters(u) /\ u \in State /\ Adopted(u)
    BY <1>1, <1>2 DEF Sane
  <2>3. Serves(u, t) /\ Counters(t)
    BY <1>2, <2>1, <2>2
  <2> QED BY <1>1, <2>2, <2>3, ServesChain
<1>4. Ends(S)
  BY DEF MigrateLedger
<1> HIDE DEF S
<1> QED BY <1>3, <1>4, EndsSane

\* Reconciling after the last row is moved issues exactly what is missing.
LEMMA ReconcileFloatSane ==
  ASSUME Inv, Sane(Now), ~ EarlyReconcile, ReconcileFloat
  PROVE  Sane(Now')
<1> DEFINE k == ReconcileAmount
           S == TokenMint(Now, k)
           f == [Now.token.bal EXCEPT ![Core] = @ + k]
<1>1. Now \in State /\ Now.store = store /\ Now.token = token /\ store.cfg_token
  BY NowIsState DEF Inv, ReconcileFloat
<1>2. k \in Nat /\ token.supply + k = Books(store)
  <2>1. token.supply \in Nat /\ Books(store) \in Nat
    BY <1>1, NumbersAreNat
  <2> QED BY <2>1 DEF ReconcileFloat, ReconcileAmount
<1>3. Rows(Now) = 0
  <2>1. \A a \in Accounts : Now.store.bal[a] = 0
    BY <1>1 DEF ReconcileFloat
  <2>2. Pairs(Now.store.bal, Accounts) = {}
    <3> DEFINE g == Now.store.bal
    <3>1. \A x \in Accounts : 1 .. g[x] = {}
      BY <2>1
    <3> HIDE DEF g
    <3>2. Pairs(g, Accounts) = {}
      BY <3>1 DEF Pairs
    <3> QED BY <3>2 DEF g
  <2> QED BY <2>2, FS_EmptySet DEF Total, Rows
<1>4. ASSUME NEW t \in S PROVE t \in State /\ Sane(t)
  <2> HIDE DEF k
  <2>1. t = WithTokens(Now, f, Now.token.supply + k) /\ f \in [Accounts \union {Core} -> Nat]
    BY <1>1, <1>2, <1>4, TokenMintIs
  <2>2. Now.token.bal \in [Accounts \union {Core} -> Nat]
    BY <1>1 DEF State, Token
  <2>3. \A x \in Accounts : f[x] = Now.token.bal[x]
    BY <2>2, TokenLedgerAssumption
  <2>4. Now.token.supply + k \in Nat
    BY <1>1, <1>2, NumbersAreNat
  <2> HIDE DEF f
  <2>5. /\ t \in State /\ t.store = Now.store /\ t.token.bal = f
        /\ t.token.supply = Now.token.supply + k
    <3> DEFINE m == Now.token.supply + k
    <3>1. t = WithTokens(Now, f, m) /\ m \in Nat /\ f \in [Accounts \union {Core} -> Nat]
      BY <2>1, <2>4
    <3> HIDE DEF m, S
    <3>2. t \in State /\ t.store = Now.store /\ t.token.bal = f /\ t.token.supply = m
      BY <1>1, <3>1, WithTokensState, SMTT(60)
    <3> QED BY <3>2 DEF m
  <2>6. Bal(t) = Bal(Now) /\ Rows(t) = Rows(Now)
    BY <2>3, <2>5 DEF Bal, Rows
  <2>7. Backing(t) = 0
    BY <1>1, <1>2, <1>3, <2>5, <2>6, NumbersAreNat DEF Backing
  <2>8. Adopted(t)
    BY <1>1, <2>5 DEF Adopted
  <2> QED BY <2>5, <2>6, <2>7, <2>8 DEF Sane, Counters, Rolled
<1>5. Ends(S)
  BY DEF ReconcileFloat
<1> HIDE DEF S
<1> QED BY <1>4, <1>5, EndsIn

\* At the adoption nothing is issued, and every row is in the books.
LEMMA OwnerCallsSane ==
  ASSUME Inv, Sane(Now), SetToken \/ HandOver
  PROVE  Sane(Now')
<1>1. Now \in State /\ Now.store = store /\ Now.token = token /\ donated \in Nat
  BY NowIsState DEF Inv
<1>2. /\ Now' \in State
      /\ store'.bal = store.bal /\ store'.seen = store.seen
      /\ store'.sup_migrated = store.sup_migrated /\ store'.sup_emitted = store.sup_emitted
      /\ token'.bal = token.bal /\ token'.supply = token.supply
      /\ Now'.store = store' /\ Now'.token = token'
      /\ \/ store'.cfg_token = store.cfg_token
         \/ ~ store.cfg_token /\ store'.cfg_token
  <2>1. CASE SetToken
    BY <1>1, <2>1 DEF SetToken, Now, State, Store
  <2>2. CASE HandOver
    BY <1>1, <2>2 DEF HandOver, Now, State, Token
  <2> QED BY <2>1, <2>2
<1>3. Bal(Now') = Bal(Now) /\ Rows(Now') = Rows(Now) /\ Books(Now'.store) = Books(Now.store)
  BY <1>1, <1>2 DEF Bal, Rows, Books
<1>4. Counters(Now') /\ Rolled(Now')
  BY <1>1, <1>2, <1>3 DEF Sane, Counters, Rolled
<1>5. Backing(Now') = Backing(Now)
  BY <1>1, <1>2, <1>3 DEF Backing
<1>6. CASE store'.cfg_token = store.cfg_token
  BY <1>1, <1>2, <1>4, <1>5, <1>6 DEF Sane, Adopted
<1>7. CASE ~ store.cfg_token /\ store'.cfg_token
  <2>1. token.supply = 0
    BY <1>1, <1>7 DEF Sane, Adopted
  <2>2. Rows(Now) <= Total(Bal(Now), Accounts)
    <3> DEFINE f == Now.store.bal
               g == Bal(Now)
    <3>1. ASSUME NEW x \in Accounts PROVE f[x] \in Nat /\ g[x] \in Nat /\ f[x] <= g[x]
      <4>1. g[x] = f[x] + Now.token.bal[x]
        BY DEF Bal
      <4>2. f[x] \in Nat /\ Now.token.bal[x] \in Nat
        BY <1>1, NumbersAreNat
      <4> HIDE DEF f, g
      <4> QED BY <4>1, <4>2
    <3>2. IsFiniteSet(Accounts)
      BY TokenLedgerAssumption
    <3> HIDE DEF f, g
    <3>3. Total(f, Accounts) <= Total(g, Accounts)
      BY <3>1, <3>2, TotalMono
    <3> QED BY <3>3 DEF f, g, Rows
  <2>3. Total(Bal(Now), Accounts) + Now.store.held - Books(Now.store) + donated = 0
    BY DEF Inv, Spread
  <2>4. /\ Rows(Now) \in Nat /\ Total(Bal(Now), Accounts) \in Nat /\ Now.store.held \in Nat
        /\ Books(Now.store) \in Nat
    BY <1>1, NumbersAreNat
  <2>5. Rows(Now) <= Books(Now.store)
    BY <1>1, <2>2, <2>3, <2>4
  <2>6. Backing(Now) <= 0
    BY <1>1, <2>1, <2>4, <2>5 DEF Backing
  <2> QED BY <1>2, <1>4, <1>5, <1>7, <2>6 DEF Sane, Adopted
<1> QED BY <1>2, <1>6, <1>7

\* Tokens sent without the contract: rows, supply and roll stay.
LEMMA TokenSendSane ==
  ASSUME Inv, Sane(Now), NEW a \in Signers, NEW to \in Accounts \union {Core}, NEW n \in Amounts,
         TokenSend(a, to, n)
  PROVE  Sane(Now')
<1>1. Now \in State /\ Now.store = store /\ Now.token = token
  BY NowIsState DEF Inv
<1>2. a \in Accounts /\ n \in Nat /\ a # Core
  BY TokenLedgerAssumption DEF Signers
<1>3. /\ token' = [token EXCEPT !.bal[a] = @ - n, !.bal[to] = @ + n]
      /\ store' = store /\ to # a /\ to \in DirectTo
  BY DEF TokenSend
<1>4. token.bal \in [Accounts \union {Core} -> Nat] /\ token.bal[a] >= n
  BY <1>1 DEF State, Token, TokenSend
<1>5. /\ token'.supply = token.supply
      /\ Now'.store = store /\ Now'.token = token'
      /\ \A x \in Accounts \ DirectTo : token'.bal[x] <= token.bal[x]
  <2>1. token'.supply = token.supply /\ token'.bal = [token.bal EXCEPT ![a] = @ - n, ![to] = @ + n]
    BY <1>1, <1>3 DEF State, Token
  <2>2. ASSUME NEW x \in Accounts \ DirectTo PROVE token'.bal[x] <= token.bal[x]
    <3>1. x # to /\ token.bal[x] \in Nat
      BY <1>3, <1>4
    <3>2. token'.bal[x] = (IF x = a THEN token.bal[x] - n ELSE token.bal[x])
      BY <1>2, <1>3, <1>4, <2>1, <3>1
    <3> QED BY <1>2, <3>1, <3>2
  <2> QED BY <1>3, <2>1, <2>2 DEF Now
<1>6. Rows(Now') = Rows(Now) /\ Books(Now'.store) = Books(Now.store)
  BY <1>1, <1>5 DEF Rows
<1>7. Counters(Now') /\ Backing(Now') = Backing(Now) /\ (Adopted(Now') <=> Adopted(Now))
  BY <1>1, <1>5, <1>6 DEF Sane, Counters, Backing, Adopted
<1>8. Rolled(Now')
  <2> SUFFICES ASSUME NEW x \in Accounts \ DirectTo, Bal(Now')[x] > 0
               PROVE  x \in Now'.store.seen
    BY DEF Rolled
  <2>1. Bal(Now')[x] = store.bal[x] + token'.bal[x] /\ Bal(Now)[x] = store.bal[x] + token.bal[x]
    BY <1>1, <1>5 DEF Bal
  <2>2. store.bal[x] \in Nat /\ token.bal[x] \in Nat /\ token'.bal[x] <= token.bal[x]
    BY <1>1, <1>5, NumbersAreNat
  <2>3. token'.bal[x] \in Int
    <3>1. token'.bal = [token.bal EXCEPT ![a] = @ - n, ![to] = @ + n]
      BY <1>1, <1>3 DEF State, Token
    <3> QED BY <1>2, <1>3, <1>4, <3>1
  <2>4. Bal(Now)[x] > 0
    BY <2>1, <2>2, <2>3
  <2> QED BY <1>1, <1>5, <2>4 DEF Sane, Rolled
<1> QED BY <1>1, <1>5, <1>7, <1>8 DEF Sane

LEMMA InitSane == Init => Sane(Now)
<1> SUFFICES ASSUME Init PROVE Sane(Now)
  OBVIOUS
<1>1. Now.store = store /\ Now.token = token
  BY NowIsState
<1>2. \A a \in Accounts : Bal(Now)[a] = 0
  BY DEF Init, Bal, Now
<1>3. Counters(Now) /\ ~ Adopted(Now) /\ token.supply = 0
  BY <1>1, TokenLedgerAssumption, EngineAssumption DEF Init, Counters, Adopted
<1> QED BY <1>1, <1>2, <1>3 DEF Sane, Rolled

LEMMA NextSane == Inv /\ Sane(Now) /\ ~ EarlyReconcile /\ [Next]_vars => Sane(Now')
<1> SUFFICES ASSUME Inv, Sane(Now), ~ EarlyReconcile, [Next]_vars PROVE Sane(Now')
  OBVIOUS
<1>a. \A a \in Signers : a \in Accounts
  BY DEF Signers
<1>n. \A n \in Amounts : n \in Nat
  BY TokenLedgerAssumption
<1>0. Null \in Accounts
  BY TokenLedgerAssumption
<1>1. ASSUME NEW a \in Signers, NEW n \in Amounts, NEW b \in Accounts, Transfer(a, b, n)
      PROVE  Sane(Now')
  BY <1>a, <1>n, <1>1, PaymentSane DEF Transfer
<1>2. ASSUME NEW a \in Signers, NEW n \in Amounts, Burn(a, n)
      PROVE  Sane(Now')
  BY <1>a, <1>n, <1>0, <1>2, PaymentSane DEF Burn
<1>3. ASSUME NEW a \in Signers, NEW n \in Amounts, LockInMint(a, n) \/ LockInPool(a, n)
      PROVE  Sane(Now')
  BY <1>a, <1>n, <1>3, LockCallsSane
<1>4. ASSUME NEW a \in Signers, NEW n \in Amounts, PayOut(a, n)
      PROVE  Sane(Now')
  BY <1>a, <1>n, <1>4, PayOutSane
<1>5. ASSUME NEW a \in Signers, NEW n \in Amounts, NEW to \in Accounts \union {Core},
             TokenSend(a, to, n)
      PROVE  Sane(Now')
  BY <1>5, TokenSendSane
<1>6. ASSUME NEW n \in Amounts, Settle(n)
      PROVE  Sane(Now')
  BY <1>n, <1>6, SettleSane
<1>7. ASSUME NEW a \in Accounts, CreditMigration(a) \/ BurnMigration(a)
      PROVE  Sane(Now')
  BY <1>7, CreditMigrationSane, BurnMigrationSane
<1>8. ASSUME SetToken \/ HandOver
      PROVE  Sane(Now')
  BY <1>8, OwnerCallsSane
<1>9. ASSUME NEW a \in Accounts, NEW b \in Accounts, MigrateLedger(a, b)
      PROVE  Sane(Now')
  BY <1>9, MigrateLedgerSane
<1>10. ASSUME ReconcileFloat
       PROVE  Sane(Now')
  BY <1>10, ReconcileFloatSane
<1>11. CASE UNCHANGED vars
  <2>1. Now' = Now
    BY <1>11 DEF vars, Now
  <2> QED BY <2>1
<1> QED BY <1>1, <1>2, <1>3, <1>4, <1>5, <1>6, <1>7, <1>8, <1>9, <1>10, <1>11 DEF Next

\* A row that is moved fits under the token's maxSupply, so a debit of all
\* there is succeeds.
LEMMA SaneServes ==
  ASSUME Inv, Sane(Now)
  PROVE  HoldersAreServed
<1>1. Now \in State /\ Now.store = store /\ Now.token = token
  BY NowIsState DEF Inv
<1>2. /\ Rows(Now) \in Nat /\ token.supply \in Nat /\ Books(store) \in Nat
      /\ \A a \in Accounts : store.bal[a] \in Nat /\ token.bal[a] \in Nat
  BY <1>1, NumbersAreNat
<1>3. Adopted(Now) <=> store.cfg_token
  BY <1>1 DEF Adopted
<1>4. store.cfg_token => token.supply + Rows(Now) <= Books(store)
  BY <1>1, <1>2, <1>3 DEF Sane, Backing
<1>5. SupplyWithinBooks
  BY <1>1, <1>4 DEF SupplyWithinBooks, Unmoved, Rows
<1>6. RollIsComplete
  BY <1>1, BalNow DEF Sane, Rolled, RollIsComplete
<1>7. BalancesAreSpendable
  <2> SUFFICES ASSUME store.cfg_token, token.owner = "core", NEW a \in Signers, Balance(a) > 0
               PROVE  Debit(Now, a, Balance(a)) # {}
    BY DEF BalancesAreSpendable
  <2>1. a \in Accounts /\ a # Core /\ Core \notin Accounts
    BY TokenLedgerAssumption DEF Signers
  <2> DEFINE legacy == store.bal[a]
             n == Balance(a)
  <2>2. legacy \in Nat /\ token.bal[a] \in Nat /\ n = legacy + token.bal[a] /\ n > 0
    BY <1>2, <2>1 DEF Balance
  <2>3. Books(store) <= HistoricHardCap
    <3>1. store.sup_migrated \in Nat /\ store.sup_emitted \in Nat
      BY <1>1 DEF State, Store
    <3> QED BY <1>1, <3>1, TokenLedgerAssumption, EngineAssumption DEF Sane, Counters, Books
  <2>4. legacy <= Rows(Now)
    <3> DEFINE f == store.bal
    <3>1. \A x \in Accounts : f[x] \in Nat
      BY <1>2
    <3>2. f[a] <= Total(f, Accounts)
      <4> HIDE DEF f
      <4> QED BY <2>1, <3>1, TotalRemove, TokenLedgerAssumption
    <3> QED BY <1>1, <3>2 DEF Rows
  <2>5. \E s1 \in EnsureMigrated(Now, a) : s1.token.bal[a] = n
    <3>1. CASE legacy = 0
      BY <1>1, <2>2, <3>1 DEF EnsureMigrated
    <3>2. CASE legacy # 0
      <4> HIDE DEF legacy, n
      <4> DEFINE s1 == [Now EXCEPT !.token.bal[Core] = @ + legacy, !.token.supply = @ + legacy]
                 s2 == [s1 EXCEPT !.token.bal[Core] = @ - legacy, !.token.bal[a] = @ + legacy]
                 s3 == [s2 EXCEPT !.store.bal[a] = 0]
      <4>1. token.supply + legacy <= HistoricHardCap
        BY <1>2, <1>4, <2>2, <2>3, <2>4, TokenLedgerAssumption
      <4>2. s1 \in TokenMint(Now, legacy)
        BY <1>1, <2>2, <3>2, <4>1 DEF TokenMint
      <4>3. s1.token.bal[Core] = token.bal[Core] + legacy /\ s1.token.bal[a] = token.bal[a]
            /\ token.bal[Core] \in Nat /\ s1 \in State
        <5> DEFINE f == [token.bal EXCEPT ![Core] = @ + legacy]
                   m == token.supply + legacy
        <5>1. token.bal \in [Accounts \union {Core} -> Nat] /\ m \in Nat
          BY <1>1, <1>2, <2>2 DEF State, Token
        <5>2. f[Core] = token.bal[Core] + legacy /\ f[a] = token.bal[a] /\ token.bal[Core] \in Nat
          BY <2>1, <2>2, <5>1
        <5> HIDE DEF s1
        <5>3. s1 = WithTokens(Now, f, m) /\ f \in [Accounts \union {Core} -> Nat]
          BY <1>1, <2>2, <4>2, TokenMintIs
        <5> HIDE DEF f, m
        <5>4. s1 \in State /\ s1.token.bal = f
          BY <1>1, <5>1, <5>3, WithTokensState, ZenonT(100)
        <5> QED BY <5>2, <5>4
      <4> HIDE DEF s1
      <4>4. s1.token.bal[Core] >= legacy /\ legacy > 0
        BY <2>2, <3>2, <4>3
      <4>5. s2 \in TokenTransfer(s1, a, legacy)
        BY <4>4 DEF TokenTransfer
      <4>6. s2.token.bal[a] = token.bal[a] + legacy
        <5>1. s1.token.bal \in [Accounts \union {Core} -> Nat]
          BY <4>3 DEF State, Token
        <5> HIDE DEF s2
        <5>2. s2 = WithTokens(s1, [s1.token.bal EXCEPT ![Core] = @ - legacy, ![a] = @ + legacy],
                              s1.token.supply)
          BY <2>1, <2>2, <4>3, <4>5, TokenTransferIs
        <5>3. s2.token.bal = [s1.token.bal EXCEPT ![Core] = @ - legacy, ![a] = @ + legacy]
          BY <5>2 DEF WithTokens
        <5> QED BY <2>1, <2>2, <4>3, <5>1, <5>3
      <4>7. s3 \in EnsureMigrated(Now, a)
        <5>1. s2 \in UNION {TokenTransfer(x, a, legacy) : x \in TokenMint(Now, legacy)}
          BY <4>2, <4>5
        <5>2. Now.store.bal[a] = legacy
          BY <1>1 DEF legacy
        <5> HIDE DEF s2
        <5> QED BY <3>2, <5>1, <5>2 DEF EnsureMigrated
      <4>8. s3.token = s2.token
        <5> QED BY <2>1, <2>2, <4>3, <4>5, TokenTransferIs DEF WithTokens
      <4> HIDE DEF s2, s3
      <4>9. s3.token.bal[a] = n
        BY <2>2, <4>6, <4>8
      <4> QED BY <4>7, <4>9
    <3> QED BY <3>1, <3>2
  <2>6. PICK s1 \in EnsureMigrated(Now, a) : s1.token.bal[a] = n
    BY <2>5
  <2> HIDE DEF n, legacy
  <2>7. TokenTransferFrom(s1, a, n) # {}
    BY <2>2, <2>6 DEF TokenTransferFrom
  <2>8. Debit(Now, a, n) # {}
    BY <1>3, <2>6, <2>7 DEF Debit
  <2> QED BY <2>8 DEF n
<1> QED BY <1>5, <1>6, <1>7 DEF HoldersAreServed

\* Whatever a holder has can be spent and its holder is on the roll, and no
\* token is issued beyond the books, if the operator moves the rows first.
THEOREM HoldersServed == ~ EarlyReconcile => (Spec => []HoldersAreServed)
<1> SUFFICES ASSUME ~ EarlyReconcile PROVE Spec => []HoldersAreServed
  OBVIOUS
<1>1. Init => Sane(Now)
  BY InitSane
<1>2. Inv /\ Sane(Now) /\ [Next]_vars => Sane(Now)'
  <2>1. Inv /\ Sane(Now) /\ [Next]_vars => Sane(Now')
    BY NextSane
  <2>2. Sane(Now)' <=> Sane(Now')
    BY DEF Sane, Counters, Adopted, Rolled, Backing, Bal, Rows, Books, Now
  <2> QED BY <2>1, <2>2
<1>3. Inv /\ Sane(Now) => HoldersAreServed
  BY SaneServes
<1> QED BY <1>1, <1>2, <1>3, InvAlways, PTL DEF Spec
=============================================================================
