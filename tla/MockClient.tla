------------------------------ MODULE MockClient ------------------------------
(***************************************************************************)
(* pkg/katana/mock.go: the client that stands in for a Katana node.  Every *)
(* method holds the mock's lock from its first line to its return, so it   *)
(* is one step whoever else calls.  A request is known by its key, the     *)
(* root and the leaf hash as ToFelt writes them: the mock does not look at *)
(* the proof.                                                              *)
(***************************************************************************)
EXTENDS Naturals, Sequences

CONSTANTS
  Keys,             \* of requests
  Addresses,        \* of contracts
  NoAddress,        \* verifierAddress ""
  MaxBlock,         \* bound on the block number
  MaxRequests       \* bound on the requests and on the commitments the mock keeps

VARIABLES
  blockNumber,
  proofs,           \* the map; a key that is not in it reads FALSE
  verifiedProofs,   \* the keys of the requests, oldest first
  simulateValid,
  simulateError,    \* whether there is one
  commitments,      \* how many there are
  verifierAddress,
  told              \* history variable: what the last caller with a request of a
                    \* key was told, since the mock was made or reset

mockVars == <<blockNumber, proofs, verifiedProofs, simulateValid, simulateError,
              commitments, verifierAddress, told>>

IsProofVerified(k) == proofs[k]
GetVerifiedProofs == verifiedProofs

(* NewMockClient *)
Init ==
  /\ blockNumber = 1
  /\ proofs = [k \in Keys |-> FALSE]
  /\ verifiedProofs = << >>
  /\ simulateValid = TRUE /\ simulateError = FALSE
  /\ commitments = 0
  /\ verifierAddress = NoAddress
  /\ told = [k \in Keys |-> "nothing"]

(* Mutation: the request is recorded before the configured error is looked at. *)
SimulateRecordsFirst(k) ==
  /\ Len(verifiedProofs) < MaxRequests
  /\ verifiedProofs' = Append(verifiedProofs, k)
  /\ proofs' = [proofs EXCEPT ![k] = simulateValid]
  /\ told' = IF simulateError THEN told
             ELSE [told EXCEPT ![k] = IF simulateValid THEN "valid" ELSE "invalid"]
  /\ UNCHANGED <<blockNumber, simulateValid, simulateError, commitments, verifierAddress>>

(* The configured error, or the configured answer: no contract is asked. *)
SimulateVerification(k) ==
  IF simulateError THEN UNCHANGED mockVars
  ELSE /\ Len(verifiedProofs) < MaxRequests
       /\ verifiedProofs' = Append(verifiedProofs, k)
       /\ proofs' = [proofs EXCEPT ![k] = simulateValid]
       /\ told' = [told EXCEPT ![k] = IF simulateValid THEN "valid" ELSE "invalid"]
       /\ UNCHANGED <<blockNumber, simulateValid, simulateError, commitments, verifierAddress>>

(* Every commitment makes a block of its own. *)
SubmitProofCommitment ==
  /\ blockNumber < MaxBlock /\ commitments < MaxRequests
  /\ blockNumber' = blockNumber + 1
  /\ commitments' = commitments + 1
  /\ UNCHANGED <<proofs, verifiedProofs, simulateValid, simulateError, verifierAddress, told>>

(* SetBlockNumber; AdvanceBlock is the case of the next number. *)
SetBlockNumber(n) ==
  /\ blockNumber' = n
  /\ UNCHANGED <<proofs, verifiedProofs, simulateValid, simulateError, commitments,
                 verifierAddress, told>>

(* SetSimulateValid, SetSimulateError *)
Configure(valid, error) ==
  /\ simulateValid' = valid /\ simulateError' = error
  /\ UNCHANGED <<blockNumber, proofs, verifiedProofs, commitments, verifierAddress, told>>

SetVerifierAddress(a) ==
  /\ verifierAddress' = a
  /\ UNCHANGED <<blockNumber, proofs, verifiedProofs, simulateValid, simulateError, commitments,
                 told>>

(* All of it but the address and the chain id. *)
Reset ==
  /\ blockNumber' = 1
  /\ proofs' = [k \in Keys |-> FALSE]
  /\ verifiedProofs' = << >> /\ commitments' = 0
  /\ simulateValid' = TRUE /\ simulateError' = FALSE
  /\ told' = [k \in Keys |-> "nothing"]
  /\ UNCHANGED verifierAddress

Next ==
  \/ \E k \in Keys : SimulateVerification(k)
  \/ SubmitProofCommitment
  \/ \E n \in 0..MaxBlock : SetBlockNumber(n)
  \/ \E valid, error \in BOOLEAN : Configure(valid, error)
  \/ \E a \in Addresses : SetVerifierAddress(a)
  \/ Reset

Spec == Init /\ [][Next]_mockVars

-----------------------------------------------------------------------------
(* The three things the mock tells of past simulations agree, through changes of
   its configuration, errors and resets in between: IsProofVerified says of a key
   what the last answered request with that key was told, and a key has a request
   in GetVerifiedProofs exactly if one with that key was answered at all.  The list
   has those that were told "invalid" as well. *)
MockTellsWhatItTold ==
  /\ \A k \in Keys : IsProofVerified(k) <=> told[k] = "valid"
  /\ {GetVerifiedProofs[i] : i \in DOMAIN GetVerifiedProofs} = {k \in Keys : told[k] # "nothing"}
=============================================================================
