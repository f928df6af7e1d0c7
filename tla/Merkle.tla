-------------------------------- MODULE Merkle --------------------------------
(***************************************************************************)
(* The snapshot as a Merkle tree: how the tool builds the root and the     *)
(* proofs, how the contract verifies one, and how the page recomputes the  *)
(* root (merkle.go, migtree.go, burned/+page.svelte).  A hash without      *)
(* collisions is a constructor: a node is its leaf, or the unordered pair  *)
(* of its children, and the leaf domain keeps the two apart.               *)
(***************************************************************************)
EXTENDS Naturals, Sequences, SequencesExt, FiniteSets

LeafHash(entry) == [leaf |-> {entry}, kids |-> {}]

ParentHash(a, b) == [leaf |-> {}, kids |-> {a, b}]

VerifyProof(leaf, proof, root) == FoldLeft(ParentHash, leaf, proof) = root

\* Mutant: the odd node at the end of a level is paired with itself.
NextLevelDuplicated(level) ==
  [i \in 1 .. (Len(level) + 1) \div 2 |->
     ParentHash(level[2 * i - 1], level[IF 2 * i <= Len(level) THEN 2 * i ELSE 2 * i - 1])]

\* Nodes are paired in order; an odd one at the end is promoted unchanged.
NextLevel(level) ==
  [i \in 1 .. (Len(level) + 1) \div 2 |->
     IF 2 * i <= Len(level) THEN ParentHash(level[2 * i - 1], level[2 * i])
     ELSE level[2 * i - 1]]

\* The levels of the tree over the leaves, up to the one with the root alone.
Levels(leaves) ==
  LET level[n \in 0 .. Len(leaves)] ==
        IF n = 0 THEN [i \in DOMAIN leaves |-> LeafHash(leaves[i])] ELSE NextLevel(level[n - 1])
      height == CHOOSE n \in 0 .. Len(leaves) :
                  Len(level[n]) = 1 /\ \A k \in 0 .. n - 1 : Len(level[k]) > 1
  IN  [k \in 1 .. height + 1 |-> level[k - 1]]

Root(leaves) == LET levels == Levels(leaves) IN Last(levels)[1]

\* The sibling of a leaf's ancestor on each level where it has one.
Proof(leaves, i) ==
  LET levels == Levels(leaves)
      pos[k \in 1 .. Len(levels)] == IF k = 1 THEN i ELSE (pos[k - 1] + 1) \div 2
      sib(k) == IF pos[k] % 2 = 1 THEN pos[k] + 1 ELSE pos[k] - 1
      paired == SelectSeq([k \in 1 .. Len(levels) - 1 |-> k], LAMBDA k : sib(k) <= Len(levels[k]))
  IN  [j \in DOMAIN paired |-> levels[paired[j]][sib(paired[j])]]

\* Every hash that occurs in the tree.
Nodes(leaves) == UNION {{Levels(leaves)[k][i] : i \in DOMAIN Levels(leaves)[k]} :
                        k \in DOMAIN Levels(leaves)}

(* Every leaf's published proof is accepted, and no proof made of hashes    *)
(* of the tree lets another entry in: the root is a record of exactly those *)
(* leaves, and two published lists with one root have the same leaves.      *)
BindsExactly(leaves, entries) ==
  LET root    == Root(leaves)
      listed  == {leaves[i] : i \in DOMAIN leaves}
      depth   == Len(Levels(leaves)) - 1
  IN  /\ \A i \in DOMAIN leaves :
           /\ VerifyProof(LeafHash(leaves[i]), Proof(leaves, i), root)
           \* A position has one proof: no shorter or longer one reaches the root.
           /\ \A proof \in SeqOf(Nodes(leaves), depth) :
                VerifyProof(LeafHash(leaves[i]), proof, root) => proof = Proof(leaves, i)
      /\ \A e \in entries \ listed : \A proof \in SeqOf(Nodes(leaves), depth) :
           ~ VerifyProof(LeafHash(e), proof, root)
===============================================================================
