------------------------------ MODULE MCPayout ------------------------------
(***************************************************************************)
(* What an epoch pays and how it is proved: the fee split and lane B over  *)
(* three slots and two wallets, and the Merkle trees that the ledger and   *)
(* the contract build of it. They share no state, so a behaviour exercises *)
(* one of them and the rest stay as they start.                            *)
(***************************************************************************)
EXTENDS FeeSplit

VARIABLES
  part,  \* the component this behaviour exercises
  proof, epoch

Mer == INSTANCE MerkleProofs WITH
  MaxLeaves <- 6

ASSUME Mer!MerkleAssumption

merVars == <<proof, epoch>>

\* The components share no state: those that are not exercised stay as they start.
PayoutInit ==
  /\ part \in {"split", "merkle"}
  /\ SplitInit
  /\ Mer!Init

SplitOnly == part = "split" /\ UNCHANGED <<part, merVars>>
MerkleOnly == part = "merkle" /\ UNCHANGED <<part, splitVars>>

PayoutNext ==
  \/ SplitOnly /\ SplitNext
  \/ MerkleOnly /\ Mer!Next

all == <<part, splitVars, merVars>>
PayoutSpec == PayoutInit /\ [][PayoutNext]_all

-----------------------------------------------------------------------------
\* The contract accepts the proof of a leaf of the tree and of no other, the API's and the keeper's roots are the
\* same, and every leaf can be claimed with the proof the API serves.
MerkleExact == Mer!AcceptsExactly /\ Mer!RootsAgree /\ Mer!ProofsClaim
=============================================================================
