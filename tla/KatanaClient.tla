---------------------------- MODULE KatanaClient ----------------------------
(***************************************************************************)
(* pkg/katana/client.go: operations made of several JSON-RPC calls, on a   *)
(* chain that grows between them.  Every call may fail: the node is not    *)
(* reached, its reply is lost, comes too late or cannot be parsed.  Some   *)
(* replies that make no sense are taken for answers all the same, and one  *)
(* of them ends the program.  One operation runs at a time.                *)
(*                                                                         *)
(* What the contract at an address says to a request depends on the block: *)
(* roots come and go.                                                      *)
(***************************************************************************)
EXTENDS Naturals, Sequences

CONSTANTS
  Addresses,             \* of contracts; Katana answers for each of them
  NoAddress,             \* VerifierAddress "", as DefaultConfig has it
  NoHash,                \* block hash "" of a status
  NoResult,              \* what an operation returns beside an error
  MembershipVerifiers,   \* those of the contract in contracts/
  MaxHeight              \* bound on the height of the chain

ASSUME MaxHeightAssumption == MaxHeight \in Nat
ASSUME ContractsAssumption == MembershipVerifiers \subseteq Addresses
ASSUME SentinelsAssumption == NoAddress \notin Addresses /\ NoHash \notin Nat

VARIABLES
  chain,            \* chain[n + 1]: what each contract says in block n
  verifier,         \* config.VerifierAddress
  pc,               \* the RPC the client waits for, or "idle"
  draft,            \* what the operation under way has learnt so far
  status,           \* the last status GetChainStatus gave
  sim               \* the last answer of SimulateVerification

vars == <<chain, verifier, pc, draft, status, sim>>

Verdicts == {"true", "false", "reverts"}
Height == Len(chain) - 1
Blank == [since |-> 0, fits |-> FALSE, silent |-> FALSE, number |-> 0, valid |-> FALSE]

Init ==
  /\ chain \in {<<v>> : v \in [Addresses -> Verdicts]}
  /\ verifier = NoAddress
  /\ pc = "idle" /\ draft = Blank
  /\ status = NoResult /\ sim = NoResult

NewBlock(v) ==
  /\ Height < MaxHeight /\ chain' = Append(chain, v)
  /\ UNCHANGED <<verifier, pc, draft, status, sim>>

SetVerifierAddress(a) ==
  /\ pc = "idle" /\ verifier' = a
  /\ UNCHANGED <<chain, pc, draft, status, sim>>

-----------------------------------------------------------------------------
(* GetChainStatus asks for the chain id, ... *)
GetChainStatus ==
  /\ pc = "idle" /\ pc' = "chainId"
  /\ UNCHANGED <<chain, verifier, draft, status, sim>>

GetChainID ==
  /\ pc = "chainId" /\ pc' = "blockNumber"
  /\ UNCHANGED <<chain, verifier, draft, status, sim>>

(* Mutation: the number of the last status is used again. *)
CachedBlockNumber(number) ==
  /\ pc = "blockNumber" /\ pc' = "latestBlock" /\ number \in {Height, 0}
  /\ draft' = [draft EXCEPT !.number = IF status = NoResult THEN number ELSE status.number]
  /\ UNCHANGED <<chain, verifier, status, sim>>

(* ... for the number of the latest block, which is 0 when the node replies null, ... *)
GetBlockNumber(number) ==
  /\ pc = "blockNumber" /\ pc' = "latestBlock" /\ number \in {Height, 0}
  /\ draft' = [draft EXCEPT !.number = number]
  /\ UNCHANGED <<chain, verifier, status, sim>>

(* ... gives up if one of these calls fails, ... *)
StatusFails ==
  /\ pc \in {"chainId", "blockNumber"} /\ pc' = "idle" /\ draft' = Blank
  /\ UNCHANGED <<chain, verifier, status, sim>>

(* ... and asks for the latest block, doing without its hash if that fails.  The
   hash is known by the number of its block. *)
GetLatestBlock(hash) ==
  /\ pc = "latestBlock" /\ hash \in {Height, NoHash}
  /\ status' = [number |-> draft.number, hash |-> hash]
  /\ pc' = "idle" /\ draft' = Blank
  /\ UNCHANGED <<chain, verifier, sim>>

-----------------------------------------------------------------------------
(* buildVerificationCalldata: one felt for each of the eight coordinates, the root
   and the leaf.  The contract in contracts/ reads each of the ten as a u256, two
   felts, and its selector is not the one getSelectorFromName has made up; the
   other contracts are written for this client.  The node refuses a call without
   an entry point of that selector, with another number of felts than it reads, or
   with a number that is no felt: ToFelt writes down whatever it is given. *)
Numbers == 8 + 2
Calldata == Numbers
FeltsOf(a) == IF a \in MembershipVerifiers THEN 2 * Numbers ELSE Numbers
KnowsSelector(a) == a \notin MembershipVerifiers
Understands(a, fits) == KnowsSelector(a) /\ Calldata = FeltsOf(a) /\ fits
StarknetCall(a) == IF Understands(a, draft.fits) THEN chain[Height + 1][a] ELSE "reverts"

(* fits: every number of the request is a felt. *)
SimulateVerification(fits) ==
  /\ pc = "idle"
  /\ IF verifier = NoAddress
       THEN sim' = NoResult /\ UNCHANGED <<pc, draft>>
       ELSE /\ pc' = "call" /\ draft' = [draft EXCEPT !.since = Height, !.fits = fits]
            /\ UNCHANGED sim
  /\ UNCHANGED <<chain, verifier, status>>

(* Beside the result, sim keeps what was asked of whom, and whether the answer
   was an empty one. *)
SimReturns(error, valid, number) ==
  /\ sim' = [at |-> verifier, since |-> draft.since, fits |-> draft.fits, silent |-> draft.silent,
             error |-> error, valid |-> valid, number |-> number]
  /\ pc' = "idle" /\ draft' = Blank
  /\ UNCHANGED <<chain, verifier, status>>

(* Mutation: a node that cannot be asked counts as a no. *)
LostCallIsNo == pc = "call" /\ SimReturns("none", FALSE, 0)

(* starknet_call fails or its result is not a list of strings, ... *)
CallFails == pc = "call" /\ SimReturns("rpc", FALSE, 0)

(* ... or the node says that the call was refused or reverts, ... *)
CallReverts == pc = "call" /\ StarknetCall(verifier) = "reverts" /\ SimReturns("reverts", FALSE, 0)

(* ... or it answers, and the number of the latest block is asked for.  An answer
   of nothing, null or an empty list, is a no like any other. *)
CallAnswers(silent) ==
  /\ pc = "call" /\ pc' = "simNumber"
  /\ silent \/ StarknetCall(verifier) # "reverts"
  /\ draft' = [draft EXCEPT !.silent = silent, !.valid = ~silent /\ StarknetCall(verifier) = "true"]
  /\ UNCHANGED <<chain, verifier, status, sim>>

(* If that fails or the reply is null the number is 0. *)
GetSimNumber(number) ==
  /\ pc = "simNumber" /\ number \in {Height, 0}
  /\ SimReturns("none", draft.valid, number)

(* A block number that is a string but no hex number: the error of FromFelt is
   dropped with a nil number, and the program panics.  The next one starts anew. *)
NumberPanics ==
  /\ pc \in {"blockNumber", "simNumber"}
  /\ pc' = "idle" /\ draft' = Blank /\ verifier' = NoAddress
  /\ status' = NoResult /\ sim' = NoResult
  /\ UNCHANGED chain

-----------------------------------------------------------------------------
Operate ==
  \/ \E v \in [Addresses -> Verdicts] : NewBlock(v)
  \/ \E a \in Addresses \cup {NoAddress} : SetVerifierAddress(a)
  \/ GetChainStatus \/ GetChainID \/ StatusFails
  \/ \E number \in 0..MaxHeight : GetBlockNumber(number) \/ GetSimNumber(number)
  \/ \E hash \in 0..MaxHeight \cup {NoHash} : GetLatestBlock(hash)
  \/ \E fits \in BOOLEAN : SimulateVerification(fits)
  \/ CallFails \/ CallReverts
  \/ \E silent \in BOOLEAN : CallAnswers(silent)

Next == Operate \/ NumberPanics

Spec == Init /\ [][Next]_vars

-----------------------------------------------------------------------------
Answer(s) == IF s.error = "reverts" THEN "reverts" ELSE IF s.valid THEN "true" ELSE "false"
Span(s) == s.since..(IF s.number = 0 THEN Height ELSE s.number)
SaidInSpan(s) == \E n \in Span(s) : chain[n + 1][s.at] = Answer(s)

(* What a simulation says is what the contract it asked said in some block of the
   chain between the call and the reported number, and the contract understood the
   question: a "no" is never a lost call.  But a refusal may be of a call the
   contract cannot read, and a "no" may be an answer of nothing. *)
AnswersAreTheContracts ==
  sim # NoResult /\ sim.error # "rpc" =>
    \/ Understands(sim.at, sim.fits) /\ SaidInSpan(sim)
    \/ sim.error = "reverts" /\ ~Understands(sim.at, sim.fits)
    \/ sim.error = "none" /\ ~sim.valid /\ sim.silent

(* What the comments of SimulateVerification ("simulates a verification call to the
   verifier contract") and of buildVerificationCalldata promise of the contract in
   contracts/: an answer the node has got is that contract's.  The selector and
   the widths of the calldata break it. *)
VerifiersAreAsked ==
  sim # NoResult /\ sim.error # "rpc" /\ ~sim.silent /\ sim.at \in MembershipVerifiers =>
    SaidInSpan(sim)

(* A status may have the number of one block and the hash of a later one, when the
   chain grew between the calls.  All the same statuses follow the chain, also with
   failures between them: the hash of a status is not older than its number, and
   one given later is not older in its number than an earlier one was in its hash,
   unless its number is the 0 of a null reply. *)
StatusesAdvance ==
  [][status' # NoResult /\ status' # status =>
       /\ status'.hash # NoHash => status'.number <= status'.hash
       /\ status # NoResult /\ status.hash # NoHash /\ status'.number # 0 =>
            status.hash <= status'.number]_vars
=============================================================================
