----------------------------- MODULE ProofCache -----------------------------
(***************************************************************************)
(* pkg/storage/proof_cache.go: proofs and commitments by id, kept under    *)
(* two prefixes of a LevelDB store.  What the cache keeps of a store's     *)
(* contents s is s.proofs and s.commitments; the module says how its       *)
(* operations read and write these, a module that composes the cache with  *)
(* other users of the store says when.                                     *)
(*                                                                         *)
(* Ids are numbers in the order of their keys.  Of a StoredProof there are *)
(* the fields a query looks at; its bytes, which no other proof has, stand *)
(* for the rest.  A commitment is written and read whole, by its id.       *)
(***************************************************************************)
EXTENDS LevelDB, FiniteSets

CONSTANT NoProof   \* what GetProofByRoot returns with ErrNotFound

-----------------------------------------------------------------------------
(* The queries, when the iteration meets no error. *)

ProofCount(s) == Cardinality(s.proofs)

(* The scan is in the order of the keys and ends at the first proof of the root. *)
IsFirstOfRoot(s, root, p) ==
  /\ p \in s.proofs /\ p.root = root
  /\ \A q \in s.proofs : q.root = root => p.id <= q.id

(* GetProofByRoot *)
GetProofByRoot(s, root) ==
  IF \E p \in s.proofs : p.root = root
    THEN CHOOSE p \in s.proofs : IsFirstOfRoot(s, root, p)
    ELSE NoProof

-----------------------------------------------------------------------------
(* The writes. *)

(* The Put of StoreProof, of a proof whose ID is the id it is stored under: a proof
   that had the id is overwritten. *)
WithProof(s, p) == [s EXCEPT !.proofs = {q \in s.proofs : q.id # p.id} \cup {p}]
WithoutProof(s, id) == [s EXCEPT !.proofs = {q \in s.proofs : q.id # id}]
WithCommitment(s, id) == [s EXCEPT !.commitments = s.commitments \cup {id}]

DeleteProof(id) == Write(WithoutProof(Store, id)) \/ FailedWrite

StoreCommitment(id) == Write(WithCommitment(Store, id)) \/ FailedWrite
=============================================================================
