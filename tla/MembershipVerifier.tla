------------------------- MODULE MembershipVerifier -------------------------
(***************************************************************************)
(* contracts/src/membership_verifier.cairo: the contract that accepts a    *)
(* membership proof against the current Merkle root or one of the last     *)
(* HistorySize roots, kept in a ring of storage slots.                     *)
(*                                                                         *)
(* A transaction is atomic, and one that fails an assertion leaves no      *)
(* trace, so an action is a successful call.  update_merkle_root,          *)
(* use_nullifier and record_verification are functions of the contract     *)
(* that its interface does not list, so no transaction reaches them in the *)
(* class as it is deployed: Spec has them as the operations they are       *)
(* written to be, DeployedNext is what is left to callers.                 *)
(***************************************************************************)
EXTENDS Integers, Sequences, SequencesExt

CONSTANTS
  Callers, Owner,    \* contract addresses, and the one the constructor was given
  Roots,             \* u256 values used as Merkle roots; 0 may be one of them
  Leaves,            \* u256 values used as leaf hashes and nullifiers
  HistorySize,       \* ROOT_HISTORY_SIZE
  MaxUpdates,        \* bound on the number of root updates
  MaxUses,           \* bound on the number of nullifier uses
  MaxVerifications   \* bound on the number of recorded verifications

ASSUME OwnerAssumption == Owner \in Callers
ASSUME HistorySizeAssumption == HistorySize \in Nat \ {0}
ASSUME BoundsAssumption == {MaxUpdates, MaxUses, MaxVerifications} \subseteq Nat

VARIABLES
  current_root,
  root_history,         \* all slots of the map, those never written read as 0
  root_history_index,
  nullifiers,           \* the keys of the map that read TRUE
  verification_count,
  updates,              \* the MerkleRootUpdated events, oldest first
  uses                  \* the nullifiers of the NullifierUsed events, oldest first

vars == <<current_root, root_history, root_history_index, nullifiers,
          verification_count, updates, uses>>

Slots == 0..HistorySize-1

(* A proof as validate_proof_structure sees it: which of the points a and c have
   a coordinate that is not zero. *)
Proofs == [a : BOOLEAN, c : BOOLEAN]
validate_proof_structure(proof) == proof.a /\ proof.c

is_valid_root(root) ==
  root = current_root \/ \E i \in Slots : root_history[i] = root

(* constructor *)
Init ==
  /\ \E initial_root \in Roots :
       /\ current_root = initial_root
       /\ root_history = [i \in Slots |-> IF i = 0 THEN initial_root ELSE 0]
  /\ root_history_index = 0
  /\ nullifiers = {}
  /\ verification_count = 0
  /\ updates = << >>
  /\ uses = << >>

(* A view: the caller learns the answer and the storage stays as it is.  The
   nullifier check is commented out and the Groth16 verifier is not called. *)
verify_membership(proof, merkle_root, leaf_hash) ==
  /\ is_valid_root(merkle_root)
  /\ validate_proof_structure(proof)
  /\ UNCHANGED vars

(* Mutations of update_merkle_root: the index does not wrap; it wraps one slot
   early; anybody may call. *)
UpdateWith(caller, new_root, next_index) ==
  /\ current_root' = new_root
  /\ root_history' = [root_history EXCEPT ![next_index] = new_root]
  /\ root_history_index' = next_index
  /\ Len(updates) < MaxUpdates
  /\ updates' = Append(updates,
       [updater |-> caller, old_root |-> current_root, new_root |-> new_root])
  /\ UNCHANGED <<nullifiers, verification_count, uses>>
UpdateUnwrapped(caller, new_root) ==
  caller = Owner /\ UpdateWith(caller, new_root, root_history_index + 1)
UpdateWrappedEarly(caller, new_root) ==
  caller = Owner /\ UpdateWith(caller, new_root, (root_history_index + 1) % (HistorySize - 1))
UpdateByAnybody(caller, new_root) ==
  UpdateWith(caller, new_root, (root_history_index + 1) % HistorySize)

update_merkle_root(caller, new_root) ==
  /\ caller = Owner
  /\ current_root' = new_root
  /\ LET next_index == (root_history_index + 1) % HistorySize
     IN  /\ root_history' = [root_history EXCEPT ![next_index] = new_root]
         /\ root_history_index' = next_index
  /\ Len(updates) < MaxUpdates
  /\ updates' = Append(updates,
       [updater |-> caller, old_root |-> current_root, new_root |-> new_root])
  /\ UNCHANGED <<nullifiers, verification_count, uses>>

(* Mutation: the assertion of use_nullifier is missing. *)
UseAgain(nullifier) ==
  /\ nullifiers' = nullifiers \cup {nullifier}
  /\ Len(uses) < MaxUses
  /\ uses' = Append(uses, nullifier)
  /\ UNCHANGED <<current_root, root_history, root_history_index, verification_count,
                 updates>>

use_nullifier(nullifier) ==
  /\ nullifier \notin nullifiers
  /\ nullifiers' = nullifiers \cup {nullifier}
  /\ Len(uses) < MaxUses
  /\ uses' = Append(uses, nullifier)
  /\ UNCHANGED <<current_root, root_history, root_history_index, verification_count,
                 updates>>

(* Its MembershipVerified event repeats the arguments and is left out. *)
record_verification ==
  /\ verification_count < MaxVerifications
  /\ verification_count' = verification_count + 1
  /\ UNCHANGED <<current_root, root_history, root_history_index, nullifiers,
                 updates, uses>>

DeployedNext ==
  \E proof \in Proofs, root \in Roots, leaf \in Leaves : verify_membership(proof, root, leaf)

Next ==
  \/ DeployedNext
  \/ \E caller \in Callers, root \in Roots : update_merkle_root(caller, root)
  \/ \E leaf \in Leaves : use_nullifier(leaf)
  \/ record_verification

Spec == Init /\ [][Next]_vars

-----------------------------------------------------------------------------
(* What the events tell: every root there has been, oldest first. *)
RootsSoFar ==
  <<IF updates = << >> THEN current_root ELSE updates[1].old_root>>
    \o [n \in DOMAIN updates |-> updates[n].new_root]
Window ==
  LET n == Len(RootsSoFar) IN
    {RootsSoFar[i] : i \in {k \in 1..n : k + HistorySize > n}}

(* Every variable has its type; the index stays within the ring. *)
TypeOK ==
  /\ current_root \in Roots
  /\ root_history \in [Slots -> Roots \cup {0}]
  /\ root_history_index \in Slots
  /\ nullifiers \subseteq Leaves
  /\ updates \in Seq([updater : Callers, old_root : Roots, new_root : Roots])
  /\ uses \in Seq(Leaves)
  /\ verification_count \in 0..MaxVerifications

(* Of the roots other than 0, and of 0 too once every slot is written, the ring
   accepts exactly the last HistorySize ones: none of them is lost to an early
   overwrite, none outlives its window, wherever the index stands and however
   often it has wrapped. *)
AcceptedRootsAreTheWindow ==
  \A r \in Roots \cup {0} :
    r # 0 \/ Len(RootsSoFar) >= HistorySize => (is_valid_root(r) <=> r \in Window)

(* What the interface says of is_valid_root, "current or historical", and
   verify_membership of the roots it takes, with no word on 0: the ring accepts
   the last HistorySize roots and nothing else. *)
AcceptedRootsAreCurrentOrHistorical == {r \in Roots \cup {0} : is_valid_root(r)} = Window

(* The events tell the whole story of the root: each MerkleRootUpdated starts
   from the root the one before it ended with, the last one ends with the current
   root, and all of them were emitted for the owner. *)
EventsTellTheRoot ==
  /\ Last(RootsSoFar) = current_root
  /\ \A n \in DOMAIN updates :
       updates[n].updater = Owner /\ (n > 1 => updates[n].old_root = updates[n-1].new_root)

(* Over the life of the contract a nullifier is announced as used once at most,
   and exactly the announced ones read as used. *)
NullifiersAreUsedOnce ==
  ToSet(uses) = nullifiers /\ \A m, n \in DOMAIN uses : uses[m] = uses[n] => m = n
=============================================================================
