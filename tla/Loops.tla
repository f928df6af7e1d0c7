-------------------------------- MODULE Loops --------------------------------
(***************************************************************************)
(* Bounded loops and finite totals, in a form that both TLC and TLAPS can  *)
(* work with: every argument is a value, never an operator, so that what   *)
(* is proved of them once (Engine_proofs) applies to every use.             *)
(***************************************************************************)
EXTENDS Integers, FiniteSets

\* The value left by n turns of the loop `x := body[x]'.
Iterate(body, x, n) ==
  LET after[i \in Nat] == IF i = 0 THEN x ELSE body[after[i - 1]]
  IN  after[n]

\* The total of f over S, for naturals: as many pairs as f counts.
Pairs(f, S) == UNION {{x} \X (1 .. f[x]) : x \in S}

Total(f, S) == Cardinality(Pairs(f, S))
=============================================================================
