-------------------------------- MODULE Ledger --------------------------------
(***************************************************************************)
(* What LASSECASH promises of its money, wherever the numbers are stored:  *)
(* every account has one balance, the contract keeps a reserve for what it *)
(* owes (locked principals, pools), and both together are what the books   *)
(* say was ever issued.                                                    *)
(***************************************************************************)
EXTENDS Loops

CONSTANT Accounts

VARIABLES balance, reserve, books

vars == <<balance, reserve, books>>

Init ==
  /\ balance = [a \in Accounts |-> 0]
  /\ reserve = 0
  /\ books = 0

\* A payment from one account to another.
Move(a, b, n) ==
  /\ a # b
  /\ balance' = [balance EXCEPT ![a] = @ - n, ![b] = @ + n]
  /\ UNCHANGED <<reserve, books>>

\* An account gives value into the contract's keeping.
Lock(a, n) ==
  /\ balance' = [balance EXCEPT ![a] = @ - n]
  /\ reserve' = reserve + n
  /\ UNCHANGED books

\* The contract pays an account out of its reserve.
Pay(a, n) ==
  /\ balance' = [balance EXCEPT ![a] = @ + n]
  /\ reserve' = reserve - n
  /\ UNCHANGED books

\* New supply: it goes to accounts and to the reserve, and nobody loses.
Issue ==
  /\ balance' \in [Accounts -> Nat]
  /\ reserve' \in Nat
  /\ \A a \in Accounts : balance'[a] >= balance[a]
  /\ reserve' >= reserve
  /\ books' - books = Total(balance', Accounts) - Total(balance, Accounts)
                        + (reserve' - reserve)

Next ==
  \/ \E a, b \in Accounts : \E n \in 1 .. balance[a] : Move(a, b, n)
  \/ \E a \in Accounts : \E n \in 1 .. balance[a] : Lock(a, n)
  \/ \E a \in Accounts : \E n \in 1 .. reserve : Pay(a, n)
  \/ Issue

Spec == Init /\ [][Next]_vars
=============================================================================
