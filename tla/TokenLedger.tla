----------------------------- MODULE TokenLedger -----------------------------
(***************************************************************************)
(* TokenLedger: LASSECASH balances in two places at once.  A balance is a  *)
(* legacy row `bal_<account>' of the contract, a balance in an external    *)
(* magi_token, or some of each while the rows are moved.  The contract     *)
(* pays out of the tokens it holds itself, its float.                      *)
(*                                                                         *)
(* A step that the code may refuse is a set of next stores: empty when it  *)
(* refuses, and then the whole call is aborted and reverted.               *)
(***************************************************************************)
EXTENDS Engine               \* for EmissionCap and Total

CONSTANTS
  Accounts,
  Null,               \* BurnAccount: nobody can sign for it
  Core,               \* the contract's own address in the token
  Snapshot,           \* [Accounts -> [liquid, staked]]
  HistoricHardCap,    \* also the token's maxSupply
  Amounts,            \* BOUND: the amounts of calls
  DirectTo,           \* BOUND: whom holders send tokens to without the contract
  EarlyReconcile      \* BOUND: whether the owner reconciles before the rows are moved

ASSUME TokenLedgerAssumption ==
  /\ IsFiniteSet(Accounts)
  /\ Null \in Accounts
  /\ Core \notin Accounts
  /\ Snapshot \in [Accounts -> [liquid : Nat, staked : Nat]]
  /\ HistoricHardCap \in Nat /\ EmissionCap <= HistoricHardCap
  /\ Amounts \subseteq Nat \ {0}
  /\ DirectTo \subseteq Accounts \union {Core} /\ EarlyReconcile \in BOOLEAN

VARIABLES
  store,    \* the contract: rows, counters, what it keeps for others, the roll
  token,    \* the magi_token
  donated   \* tokens holders sent to the contract's own address

vars == <<store, token, donated>>

Store == [bal : [Accounts -> Nat], sup_migrated : Nat, sup_emitted : Nat, held : Nat,
          migDone : SUBSET Accounts, seen : SUBSET Accounts, cfg_token : BOOLEAN]

Token == [bal : [Accounts \union {Core} -> Nat], supply : Nat, owner : {"operator", "core"}]

\* A call works on both.
State == [store : Store, token : Token]

Books(s) == s.sup_migrated + s.sup_emitted

Adopted(st) == st.store.cfg_token

-----------------------------------------------------------------------------
(* The token.  Only its owner may mint, and minting credits the owner.     *)

TokenMint(st, n) ==
  IF n > 0 /\ st.token.owner = "core" /\ st.token.supply + n <= HistoricHardCap
  THEN {[st EXCEPT !.token.bal[Core] = @ + n, !.token.supply = @ + n]}
  ELSE {}

TokenTransfer(st, to, n) ==
  IF n > 0 /\ st.token.bal[Core] >= n
  THEN {[st EXCEPT !.token.bal[Core] = @ - n, !.token.bal[to] = @ + n]}
  ELSE {}

TokenTransferFrom(st, from, n) ==
  IF n > 0 /\ st.token.bal[from] >= n
  THEN {[st EXCEPT !.token.bal[from] = @ - n, !.token.bal[Core] = @ + n]}
  ELSE {}

-----------------------------------------------------------------------------
(* The contract's ledger.                                                  *)

\* Mutant: the legacy row survives.
EnsureMigratedKept(st, a) ==
  IF st.store.bal[a] = 0 THEN {st}
  ELSE UNION {TokenTransfer(s1, a, st.store.bal[a]) : s1 \in TokenMint(st, st.store.bal[a])}

\* Moves one legacy row into the token.  A deleted row is a moved row.
EnsureMigrated(st, a) ==
  LET legacy == st.store.bal[a]
  IN  IF legacy = 0 THEN {st}
      ELSE {[s2 EXCEPT !.store.bal[a] = 0] :
              s2 \in UNION {TokenTransfer(s1, a, legacy) : s1 \in TokenMint(st, legacy)}}

\* The account roll lists every account once.
NoteAccount(st, a) == [st EXCEPT !.store.seen = @ \union {a}]

\* Mutant: the roll is forgotten.
CreditUnnoted(st, a, n) ==
  IF n = 0 THEN {st}
  ELSE IF Adopted(st)
  THEN UNION {TokenTransfer(s1, a, n) : s1 \in EnsureMigrated(st, a)}
  ELSE {[st EXCEPT !.store.bal[a] = @ + n]}

Credit(st, a, n) ==
  IF n = 0 THEN {st}
  ELSE {NoteAccount(s2, a) :
          s2 \in IF Adopted(st)
                 THEN UNION {TokenTransfer(s1, a, n) : s1 \in EnsureMigrated(st, a)}
                 ELSE {[st EXCEPT !.store.bal[a] = @ + n]}}

\* Mutant: nothing refuses to overdraw a row.
DebitOverdrawn(st, a, n) ==
  IF Adopted(st)
  THEN UNION {TokenTransferFrom(s1, a, n) : s1 \in EnsureMigrated(st, a)}
  ELSE {[st EXCEPT !.store.bal[a] = @ - n]}

\* A balance that is too small is refused.
Debit(st, a, n) ==
  IF Adopted(st)
  THEN UNION {TokenTransferFrom(s1, a, n) : s1 \in EnsureMigrated(st, a)}
  ELSE IF st.store.bal[a] >= n THEN {[st EXCEPT !.store.bal[a] = @ - n]}
  ELSE {}

\* Mutant: the counter grows without the tokens.
MintSupplyUnbacked(st, n) == {st}

\* The tokens behind new supply, when there is a token.
MintBacking(st, n) ==
  IF n = 0 \/ ~ Adopted(st) THEN {st} ELSE TokenMint(st, n)

\* mintSupply for either counter.
MintMigrated(st, n) == {[s EXCEPT !.store.sup_migrated = @ + n] : s \in MintBacking(st, n)}

MintEmitted(st, n) == {[s EXCEPT !.store.sup_emitted = @ + n] : s \in MintBacking(st, n)}

-----------------------------------------------------------------------------
(* Calls.                                                                  *)

Now == [store |-> store, token |-> token]

\* The call ends in one of the states S.
Ends(S) ==
  /\ \E s \in S : store' = s.store /\ token' = s.token
  /\ UNCHANGED donated

Init ==
  /\ store = [bal |-> [a \in Accounts |-> 0], sup_migrated |-> 0, sup_emitted |-> 0,
              held |-> 0, migDone |-> {}, seen |-> {}, cfg_token |-> FALSE]
  /\ token = [bal |-> [a \in Accounts \union {Core} |-> 0], supply |-> 0,
              owner |-> "operator"]
  /\ donated = 0

Signers == Accounts \ {Null}

Transfer(a, b, n) ==
  /\ a # b
  /\ Ends(UNION {Credit(s, b, n) : s \in Debit(Now, a, n)})

Burn(a, n) == Ends(UNION {Credit(s, Null, n) : s \in Debit(Now, a, n)})

\* A call that takes value from an account into a mint: it notes the owner.
LockInMint(a, n) ==
  Ends({NoteAccount([s EXCEPT !.store.held = @ + n], a) : s \in Debit(Now, a, n)})

\* A call that takes value from an account into a pool.
LockInPool(a, n) == Ends({[s EXCEPT !.store.held = @ + n] : s \in Debit(Now, a, n)})

\* A call that pays an account what the contract keeps for it.
PayOut(a, n) ==
  /\ n <= store.held
  /\ Ends(Credit([Now EXCEPT !.store.held = @ - n], a, n))

\* The walk credits a day's emission to the pools.
Settle(n) ==
  /\ store.sup_emitted + n <= EmissionCap
  /\ Ends({[s EXCEPT !.store.held = @ + n] : s \in MintEmitted(Now, n)})

\* The guards the migration calls share; emission has not started.
MigrationOpen(n) ==
  /\ store.sup_emitted = 0
  /\ n > 0
  /\ store.sup_migrated + n + EmissionCap <= HistoricHardCap

CreditMigration(a) ==
  LET liquid == Snapshot[a].liquid
      staked == Snapshot[a].staked
      locked(s) == [s EXCEPT !.store.held = @ + staked,
                             !.store.seen = IF staked > 0 THEN @ \union {a} ELSE @,
                             !.store.migDone = @ \union {a}]
  IN  /\ MigrationOpen(liquid + staked)
      /\ a = Null => staked = 0
      /\ a \notin store.migDone
      /\ Ends({locked(s2) : s2 \in UNION {Credit(s1, a, liquid) :
                                            s1 \in MintMigrated(Now, liquid + staked)}})

\* A snapshot position that is burnt instead of credited.
BurnMigration(a) ==
  LET amount == Snapshot[a].liquid + Snapshot[a].staked
  IN  /\ MigrationOpen(amount)
      /\ a \notin store.migDone
      /\ Ends({[s2 EXCEPT !.store.migDone = @ \union {a}] :
                 s2 \in UNION {Credit(s1, Null, amount) : s1 \in MintMigrated(Now, amount)}})

-----------------------------------------------------------------------------
(* Moving to the token.                                                    *)

SetToken ==
  /\ ~ store.cfg_token
  /\ store' = [store EXCEPT !.cfg_token = TRUE]
  /\ UNCHANGED <<token, donated>>

\* changeOwner on the token, a call of the operator.
HandOver ==
  /\ token.owner = "operator"
  /\ token' = [token EXCEPT !.owner = "core"]
  /\ UNCHANGED <<store, donated>>

\* Moves the rows of a batch; a batch that cannot move them all moves none.
MigrateLedger(a, b) ==
  /\ store.cfg_token
  /\ Ends(UNION {EnsureMigrated(s, b) : s \in EnsureMigrated(Now, a)})

\* Mutant: mints what the contract keeps for others, not the difference.
ReconcileAmountHeld == store.held

ReconcileAmount == Books(store) - token.supply

ReconcileFloat ==
  /\ store.cfg_token
  /\ EarlyReconcile \/ \A a \in Accounts : store.bal[a] = 0
  /\ token.supply < Books(store)
  /\ Ends(TokenMint(Now, ReconcileAmount))

\* A holder's own call of the token, to another holder or to the contract.
TokenSend(a, to, n) ==
  /\ to \in DirectTo
  /\ to # a
  /\ token.bal[a] >= n
  /\ token' = [token EXCEPT !.bal[a] = @ - n, !.bal[to] = @ + n]
  /\ donated' = IF to = Core THEN donated + n ELSE donated
  /\ UNCHANGED store

Next ==
  \/ \E a \in Signers, n \in Amounts :
       \/ \E b \in Accounts : Transfer(a, b, n)
       \/ Burn(a, n)
       \/ LockInMint(a, n)
       \/ LockInPool(a, n)
       \/ PayOut(a, n)
       \/ \E to \in Accounts \union {Core} : TokenSend(a, to, n)
  \/ \E n \in Amounts : Settle(n)
  \/ \E a \in Accounts : CreditMigration(a) \/ BurnMigration(a)
  \/ SetToken
  \/ HandOver
  \/ \E a, b \in Accounts : MigrateLedger(a, b)
  \/ ReconcileFloat

Spec == Init /\ [][Next]_vars

-----------------------------------------------------------------------------
(* The money of an account, wherever it is stored (Balance, ledger.go:52). *)
Balance(a) == store.bal[a] + token.bal[a]

L == INSTANCE Ledger WITH
       balance <- [a \in Accounts |-> Balance(a)],
       reserve <- store.held + donated,
       books   <- Books(store)

Unmoved == Total(store.bal, Accounts)

\* Every token the books speak of exists, or will when its row is moved.
Backed == token.supply + Unmoved >= Books(store)

-----------------------------------------------------------------------------
(* The shape of the state.  No balance, counter or float goes below zero.  *)
TypeOK ==
  /\ store \in Store
  /\ token \in Token
  /\ donated \in Nat

(* Two places, one ledger: every call does to the balances what it says,   *)
(* wherever each of them is stored and whichever rows it moves on its way. *)
ImplementsLedger == L!Spec

(* The two places and what the contract keeps add up to the books, to the  *)
(* unit, before, during and after the move (the audit of ledger.go).       *)
BooksBalance ==
  Total([a \in Accounts |-> Balance(a)], Accounts) + store.held + donated = Books(store)

(* Once the supply is backed the float covers all the contract keeps for   *)
(* others, so no payout is refused for want of tokens (tokenledger.go:264).*)
BackedFloatPays ==
  store.cfg_token /\ Backed => token.bal[Core] >= store.held

(* A token contract whose supply is backed stays backed, whatever is then  *)
(* emitted, migrated, moved, paid or locked (mintSupply).                  *)
BackedStaysBacked == [][store.cfg_token /\ Backed => Backed']_vars

(* Reconciling after the last row is moved never issues more tokens than   *)
(* the books allow, counting the rows that have yet to be minted.          *)
SupplyWithinBooks ==
  store.cfg_token => token.supply + Unmoved <= Books(store)

(* Whoever signs can spend all that Balance reports, row and tokens, once  *)
(* the contract owns its token (debit, ensureMigrated).                    *)
BalancesAreSpendable ==
  (store.cfg_token /\ token.owner = "core") =>
    \A a \in Signers : Balance(a) > 0 => Debit(Now, a, Balance(a)) # {}

(* The account roll lists every holder the contract itself ever paid,     *)
(* wherever the balance is kept and whichever call moved its row; only who *)
(* is sent tokens behind the contract's back may be missing (noteAccount). *)
RollIsComplete == \A a \in Accounts \ DirectTo : Balance(a) > 0 => a \in store.seen

(* A holder can spend all of a balance and is on the roll, wherever the    *)
(* balance is kept, and no token is issued beyond the books (ledger.go).   *)
HoldersAreServed == SupplyWithinBooks /\ BalancesAreSpendable /\ RollIsComplete

(* "WHY IT CANNOT INVENT MONEY: it mints the DIFFERENCE"                   *)
(* (tokenledger.go:281): reconciling never leaves more tokens than books.  *)
SupplyNeverExceedsBooks == token.supply <= Books(store)
=============================================================================
