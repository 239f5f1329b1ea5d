---------------------------- MODULE MerkleProofs ----------------------------
(***************************************************************************)
(* The two Merkle trees: storage proofs (shared/storage-proof.ts), which    *)
(* bind a leaf to its position, and the epoch tree of rewards, built once   *)
(* by the API (epoch-merkle.ts) for its root and once by the keeper         *)
(* (keeper/src/tree.ts) for root and proofs.  A hash is the value that was  *)
(* hashed, so two hashes are equal exactly when their inputs are.           *)
(***************************************************************************)
EXTENDS Naturals, Sequences, FiniteSets
LOCAL INSTANCE SequencesExt

CONSTANT MaxLeaves   \* bound: leaves of a tree

MerkleAssumption == MaxLeaves \in Nat \ {0}

VARIABLES proof,     \* a storage proof to verify
          epoch      \* the leaves of an epoch, in the order of their hashes and as the API lists them

vars == <<proof, epoch>>

-----------------------------------------------------------------------------
(* Storage proofs: n leaves, leaf k has content <<k>>. *)

leafHash(content) == [tag |-> 0, of |-> content]
nodeHash(a, b) == [tag |-> 1, of |-> <<a, b>>]

\* Nodes on a level above width nodes.
Above(width) == (width + 1) \div 2

\* merkleLevels: the levels of a tree over the given nodes, leaves first; an odd last node is carried up.
RECURSIVE merkleLevels(_)
merkleLevels(level) ==
  IF Len(level) = 1 THEN <<level>>
  ELSE <<level>> \o merkleLevels([k \in 1..Above(Len(level)) |->
         IF 2 * k =< Len(level) THEN nodeHash(level[2 * k - 1], level[2 * k]) ELSE level[2 * k - 1]])

Levels(n) == merkleLevels([k \in 1..n |-> leafHash(<<k - 1>>)])
merkleRoot(n) == Last(Levels(n))[1]

\* The last node of an odd level has no sibling.
Carried(i, width) == i = width - 1 /\ width % 2 = 1

\* merklePath: the siblings of leaf i, bottom up (the other node of its pair).
RECURSIVE merklePath(_, _)
merklePath(levels, i) ==
  IF Len(levels) = 1 THEN <<>>
  ELSE (IF Carried(i, Len(levels[1])) THEN <<>> ELSE <<levels[1][IF i % 2 = 0 THEN i + 2 ELSE i]>>)
       \o merklePath(Tail(levels), i \div 2)

\* Mutant: siblings that are left over are ignored.
NoneLeftAny(path) == TRUE

\* Every sibling of the path was used.
NoneLeft(path) == path = <<>>

\* verifyLeaf from the hash h of node i on a level of the given width.
RECURSIVE verifyUp(_, _, _, _, _)
verifyUp(h, i, width, path, root) ==
  IF width =< 1 THEN NoneLeft(path) /\ h = root
  ELSE IF Carried(i, width) THEN verifyUp(h, i \div 2, Above(width), path, root)
  ELSE /\ path # <<>>
       /\ verifyUp(IF i % 2 = 0 THEN nodeHash(h, path[1]) ELSE nodeHash(path[1], h),
                   i \div 2, Above(width), Tail(path), root)

verifyLeaf(content, i, leaves, path, root) == i < leaves /\ verifyUp(leafHash(content), i, leaves, path, root)

\* What an answer may carry: a leaf of the copy or two hashes that stand next to each other, with the path of
\* any leaf, complete, cut short, or one hash too long.
Contents(n) == {<<k>> : k \in 0..(n - 1)} \cup {<<leafHash(<<k>>), leafHash(<<k + 1>>)>> : k \in 0..(n - 2)}
Paths(n) ==
  LET whole == {merklePath(Levels(n), k) : k \in 0..(n - 1)}
  IN  whole \cup {Front(p) : p \in whole \ {<<>>}} \cup {Tail(p) : p \in whole \ {<<>>}} \cup {Append(p, leafHash(<<0>>)) : p \in whole}

-----------------------------------------------------------------------------
(* The epoch tree.  A leaf hash is named by its rank among all leaf hashes; sorting a pair before hashing it makes
   the hash of the pair that of the set. *)

EpochLeaf(rank) == [rank |-> rank, of |-> {}]
hashPair(a, b) == [rank |-> 0, of |-> {a, b}]

\* Both builders sort the leaf hashes and lay them out from the end of an array of 2n - 1.
Layout(sorted) ==
  LET n == Len(sorted)
      tree[i \in 0..(2 * n - 2)] == IF i >= n - 1 THEN EpochLeaf(sorted[2 * n - 1 - i]) ELSE hashPair(tree[2 * i + 1], tree[2 * i + 2])
  IN  tree

Sorted(ranks) == SortSeq(ranks, <)

\* epoch-merkle.ts: the root the API records.
epochRoot(ranks) == Layout(Sorted(ranks))[0]

\* Mutant: the keeper keeps the API's order.
KeeperOrderApi(ranks) == ranks

\* keeper/src/tree.ts sorts the indices of the leaves by their hashes.
KeeperOrder(ranks) == LET order == SortSeq([i \in DOMAIN ranks |-> i], LAMBDA i, j : ranks[i] < ranks[j])
                      IN  [p \in DOMAIN order |-> ranks[order[p]]]

\* Mutant: a right node is its own sibling.
SiblingLeft(i) == IF i % 2 = 1 THEN i + 1 ELSE i

Sibling(i) == IF i % 2 = 1 THEN i + 1 ELSE i - 1

\* The proof of the leaf at position i.
RECURSIVE ProofFrom(_, _)
ProofFrom(tree, i) == IF i = 0 THEN <<>> ELSE <<tree[Sibling(i)]>> \o ProofFrom(tree, (i - 1) \div 2)

buildTree(ranks) ==
  LET sorted == KeeperOrder(ranks)
      tree == Layout(sorted)
      at(r) == 2 * Len(sorted) - 1 - (CHOOSE p \in DOMAIN sorted : sorted[p] = r)
  IN  [root |-> tree[0], proofs |-> [k \in DOMAIN ranks |-> ProofFrom(tree, at(ranks[k]))]]

\* MerkleProof.processProof, in the keeper and in the contract.
RECURSIVE processProof(_, _)
processProof(leaf, path) == IF path = <<>> THEN leaf ELSE processProof(hashPair(leaf, path[1]), Tail(path))

-----------------------------------------------------------------------------

Claims == UNION {[n : {n}, i : 0..(n - 1), content : Contents(n), path : Paths(n)] : n \in 1..MaxLeaves}

\* Leaf hashes in the order the API lists the accounts; one rank stays out of the tree.
Epochs == {s \in UNION {[1..n -> 1..(n + 1)] : n \in 1..(MaxLeaves - 1)} : IsInjective(s)}

Init == proof = [n |-> 1, i |-> 0, content |-> <<0>>, path |-> <<>>] /\ epoch = <<1>>

\* One check of a storage proof, or one close of an epoch.
Verify == proof.n = 1 /\ epoch = <<1>> /\ proof' \in Claims /\ UNCHANGED epoch
CloseEpoch == proof.n = 1 /\ epoch = <<1>> /\ epoch' \in Epochs /\ UNCHANGED proof

Next == Verify \/ CloseEpoch

Spec == Init /\ [][Next]_vars

-----------------------------------------------------------------------------
(* Properties. *)

\* A storage proof is accepted exactly when it is the leaf at that position with the path of that position: never
\* another leaf, another position, an inner node for a leaf, or a path that is too short or too long.
AcceptsExactly ==
  verifyLeaf(proof.content, proof.i, proof.n, proof.path, merkleRoot(proof.n))
    <=> proof.content = <<proof.i>> /\ proof.path = merklePath(Levels(proof.n), proof.i)

\* The API and the keeper compute the same root, whatever the order of the leaves.
RootsAgree == buildTree(epoch).root = epochRoot(epoch)

\* Every leaf of the keeper's tree is claimable with its proof, and nothing else is with that proof.
ProofsClaim ==
  LET t == buildTree(epoch)
  IN  \A k \in DOMAIN epoch : \A rank \in 1..(Len(epoch) + 1) :
        processProof(EpochLeaf(rank), t.proofs[k]) = t.root <=> rank = epoch[k]
=============================================================================
