----------------------------- MODULE ChainAccess -----------------------------
(***************************************************************************)
(* Step 7 of cmd/demo/main.go: the program makes a client, pings the node  *)
(* and goes on with the client if the node answers and with a new mock if  *)
(* it does not.  It never has both, and a program never changes over: an   *)
(* RPC that fails later is the client's.  After the choice any call of the *)
(* chosen one may follow; the program itself makes one.                    *)
(***************************************************************************)
EXTENDS KatanaClient

CONSTANTS
  Keys,                    \* of requests to the mock
  MaxBlock, MaxRequests    \* bounds on the mock

ASSUME MockBoundsAssumption == {MaxBlock, MaxRequests} \subseteq Nat /\ MaxBlock > 0

VARIABLES
  api,             \* "none", "katana" or "mock"
  blockNumber, proofs, verifiedProofs, simulateValid, simulateError, commitments,
  verifierAddress, told

Mock == INSTANCE MockClient

mockVars == <<blockNumber, proofs, verifiedProofs, simulateValid, simulateError,
              commitments, verifierAddress, told>>
accessVars == <<vars, api, mockVars>>

AccessInit == Init /\ api = "none" /\ Mock!Init

(* Ping is a GetBlockNumber; whether it succeeds is the node's doing. *)
PingSucceeds ==
  /\ api = "none" /\ api' = "katana"
  /\ UNCHANGED <<vars, mockVars>>

PingFails ==
  /\ api = "none" /\ api' = "mock"
  /\ UNCHANGED <<vars, mockVars>>

UseClient == api = "katana" /\ Operate /\ UNCHANGED <<api, mockVars>>

(* A panic ends the program; the next one pings again.  (A ping that panics ends
   it before the choice.) *)
ClientPanics == api = "katana" /\ api' = "none" /\ NumberPanics /\ UNCHANGED mockVars

UseMock == api = "mock" /\ Mock!Next /\ UNCHANGED <<api, vars>>

AccessNext == PingSucceeds \/ PingFails \/ UseClient \/ ClientPanics \/ UseMock

AccessSpec == AccessInit /\ [][AccessNext]_accessVars

-----------------------------------------------------------------------------
(* What MockClient says of the mock, whenever the program has one. *)
MockTellsWhatItTold == Mock!MockTellsWhatItTold
=============================================================================
