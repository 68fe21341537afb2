------------------------- MODULE ChainAccessProofs -------------------------
(***************************************************************************)
(* Proofs about KatanaClient, for any contracts and a chain of any length, *)
(* and about ChainAccess: what the program is told, whichever of client    *)
(* and mock it has got, for any number of requests.                        *)
(***************************************************************************)
EXTENDS ChainAccess, TLAPS

-----------------------------------------------------------------------------
(* The chain. *)

(* A block that is there stays as it is while the chain grows. *)
ChainOK == chain \in Seq([Addresses -> Verdicts]) /\ chain # << >>

LEMMA ChainFacts ==
  ASSUME ChainOK
  PROVE  /\ Height \in Nat /\ Len(chain) = Height + 1
         /\ \A n \in 0..Height : chain[n + 1] \in [Addresses -> Verdicts]
BY DEF ChainOK, Height

LEMMA ChainGrows ==
  ASSUME ChainOK, NEW v \in [Addresses -> Verdicts], NewBlock(v)
  PROVE  /\ ChainOK' /\ Height' = Height + 1
         /\ \A n \in 0..Height : chain'[n + 1] = chain[n + 1]
         /\ UNCHANGED <<verifier, pc, draft, status, sim>>
BY DEF ChainOK, Height, NewBlock

Drafts == [since : Nat, fits : BOOLEAN, silent : BOOLEAN, number : Nat, valid : BOOLEAN]
DraftOK == draft \in Drafts

LEMMA DraftInit == Init => ChainOK /\ DraftOK
<1> SUFFICES ASSUME Init PROVE ChainOK /\ DraftOK
  OBVIOUS
<1>1. PICK v \in [Addresses -> Verdicts] : chain = <<v>>
  BY DEF Init
<1>2. QED
  BY <1>1 DEF Init, Blank, ChainOK, DraftOK, Drafts

LEMMA DraftStep == ChainOK /\ DraftOK /\ [Next]_vars => DraftOK'
<1> SUFFICES ASSUME ChainOK, DraftOK, [Next]_vars PROVE DraftOK'
  OBVIOUS
<1>1. Height \in Nat
  BY ChainFacts
<1>2. CASE draft' = Blank \/ draft' = draft
  <2>1. Blank \in Drafts
    BY DEF Blank, Drafts
  <2>2. QED
    BY <1>2, <2>1, Zenon DEF DraftOK
<1>3. ASSUME NEW number \in {Height, 0}, draft' = [draft EXCEPT !.number = number]
      PROVE  DraftOK'
  BY <1>1, <1>3 DEF DraftOK, Drafts
<1>4. ASSUME NEW fits \in BOOLEAN, draft' = [draft EXCEPT !.since = Height, !.fits = fits]
      PROVE  DraftOK'
  BY <1>1, <1>4 DEF DraftOK, Drafts
<1>5. ASSUME NEW silent \in BOOLEAN, NEW valid \in BOOLEAN,
             draft' = [draft EXCEPT !.silent = silent, !.valid = valid]
      PROVE  DraftOK'
  BY <1>5 DEF DraftOK, Drafts
<1>6. ASSUME NEW number \in 0..MaxHeight, GetBlockNumber(number)
      PROVE  DraftOK'
  BY <1>3, <1>6 DEF GetBlockNumber
<1>7. ASSUME NEW fits \in BOOLEAN, SimulateVerification(fits)
      PROVE  DraftOK'
  BY <1>2, <1>4, <1>7 DEF SimulateVerification
<1>8. ASSUME NEW silent \in BOOLEAN, CallAnswers(silent)
      PROVE  DraftOK'
  <2>1. (~silent /\ StarknetCall(verifier) = "true") \in BOOLEAN
    OBVIOUS
  <2>2. draft' = [draft EXCEPT !.silent = silent, !.valid = ~silent /\ StarknetCall(verifier) = "true"]
    BY <1>8 DEF CallAnswers
  <2>3. QED
    BY <1>5, <2>1, <2>2
<1>9. QED
  BY <1>2, <1>6, <1>7, <1>8
     DEF Next, Operate, NewBlock, SetVerifierAddress, GetChainStatus, GetChainID, StatusFails,
         GetLatestBlock, SimReturns, CallFails, CallReverts, GetSimNumber, NumberPanics, vars

-----------------------------------------------------------------------------
(* Statuses. *)

(* StatusesAdvance compares two statuses; what links them is the number that the
   call under way has already been given, and that no number is ahead of the chain. *)
StatusInv ==
  /\ ChainOK /\ DraftOK
  /\ status # NoResult /\ status.hash # NoHash => status.hash \in 0..Height
  /\ pc = "latestBlock" =>
       /\ draft.number \in 0..Height
       /\ status # NoResult /\ status.hash # NoHash /\ draft.number # 0 =>
            status.hash <= draft.number

LEMMA StatusInit == Init => StatusInv
BY DraftInit DEF Init, StatusInv

LEMMA StatusStep ==
  StatusInv /\ [Next]_vars => StatusInv' /\ (status' # NoResult /\ status' # status =>
       /\ status'.hash # NoHash => status'.number <= status'.hash
       /\ status # NoResult /\ status.hash # NoHash /\ status'.number # 0 =>
            status.hash <= status'.number)
<1> DEFINE Advances == status' # NoResult /\ status' # status =>
       /\ status'.hash # NoHash => status'.number <= status'.hash
       /\ status # NoResult /\ status.hash # NoHash /\ status'.number # 0 =>
            status.hash <= status'.number
<1> SUFFICES ASSUME StatusInv, [Next]_vars PROVE StatusInv' /\ Advances
  OBVIOUS
<1>0. ChainOK /\ DraftOK /\ DraftOK' /\ Height \in Nat
  BY ChainFacts, DraftStep DEF StatusInv
<1>1. ASSUME NEW v \in [Addresses -> Verdicts], NewBlock(v)
      PROVE  StatusInv' /\ Advances
  BY <1>0, <1>1, ChainGrows DEF StatusInv
<1>2. ASSUME NEW number, GetBlockNumber(number)
      PROVE  StatusInv' /\ Advances
  <2>1. UNCHANGED <<chain, status>> /\ Height' = Height /\ number \in {Height, 0}
    BY <1>2 DEF GetBlockNumber, Height
  <2>2. draft'.number = number
    BY <1>0, <1>2 DEF GetBlockNumber, DraftOK, Drafts
  <2>3. QED
    BY <1>0, <2>1, <2>2 DEF StatusInv, ChainOK
<1>3. CASE NumberPanics
  BY <1>0, <1>3 DEF NumberPanics, StatusInv, ChainOK, Height
<1>4. ASSUME NEW hash, GetLatestBlock(hash)
      PROVE  StatusInv' /\ Advances
  <2>1. /\ pc = "latestBlock" /\ pc' = "idle" /\ UNCHANGED chain /\ Height' = Height
        /\ hash = Height \/ hash = NoHash
        /\ status' = [number |-> draft.number, hash |-> hash]
    BY <1>4 DEF GetLatestBlock, Height
  <2>2. status'.number = draft.number /\ status'.hash = hash
    BY <2>1
  <2>3. QED
    BY <1>0, <2>1, <2>2 DEF StatusInv, ChainOK
<1>5. CASE UNCHANGED <<chain, status>> /\ pc' # "latestBlock"
  BY <1>0, <1>5 DEF StatusInv, ChainOK, Height
<1>6. CASE UNCHANGED vars
  BY <1>0, <1>6 DEF vars, StatusInv, ChainOK, Height
<1>7. QED
  BY <1>1, <1>2, <1>3, <1>4, <1>5, <1>6
     DEF Next, Operate, SetVerifierAddress, GetChainStatus, GetChainID, StatusFails,
         SimulateVerification, SimReturns, CallFails, CallReverts, CallAnswers, GetSimNumber, StatusInv

(* On a chain of any length, whatever calls fail: statuses follow the chain. *)
THEOREM StatusSafety == Spec => StatusesAdvance
<1>1. Spec => []StatusInv
  BY StatusInit, StatusStep, PTL DEF Spec
<1>2. StatusInv /\ [Next]_vars =>
        [status' # NoResult /\ status' # status =>
           /\ status'.hash # NoHash => status'.number <= status'.hash
           /\ status # NoResult /\ status.hash # NoHash /\ status'.number # 0 =>
                status.hash <= status'.number]_vars
  BY StatusStep
<1>3. QED
  BY <1>1, <1>2, PTL DEF Spec, StatusesAdvance

-----------------------------------------------------------------------------
(* Simulations. *)

(* That the contract at a said v in a block from m to n. *)
Said(a, v, m, n) == \E k \in m..n : chain[k + 1][a] = v

(* What an answer rests on: the contract was asked in words it knows and said so
   in a block up to n, or there is a reason why the answer is not the contract's. *)
Justified(a, fits, silent, since, error, valid, n) ==
  \/ /\ Understands(a, fits)
     /\ Said(a, IF error = "reverts" THEN "reverts" ELSE IF valid THEN "true" ELSE "false", since, n)
  \/ error = "reverts" /\ ~Understands(a, fits)
  \/ error = "none" /\ ~valid /\ silent

End(s) == IF s.number = 0 THEN Height ELSE s.number

LEMMA AnswersAreJustified ==
  AnswersAreTheContracts <=>
    (sim # NoResult /\ sim.error # "rpc" =>
       Justified(sim.at, sim.fits, sim.silent, sim.since, sim.error, sim.valid, End(sim)))
BY DEF AnswersAreTheContracts, Justified, Said, SaidInSpan, Span, Answer, End

(* An answer is about a block before the one whose number is asked for afterwards,
   and it was given before the chain grew on: while the client waits for the number
   it must be known that such a block exists. *)
SimInv ==
  /\ ChainOK /\ DraftOK
  /\ verifier \in Addresses \cup {NoAddress}
  /\ pc \in {"call", "simNumber"} => verifier \in Addresses /\ draft.since \in 0..Height
  /\ pc = "simNumber" =>
       Justified(verifier, draft.fits, draft.silent, draft.since, "none", draft.valid, Height)
  /\ sim # NoResult => sim.number \in 0..Height /\ sim.since \in Nat
  /\ sim # NoResult /\ sim.error # "rpc" =>
       Justified(sim.at, sim.fits, sim.silent, sim.since, sim.error, sim.valid, End(sim))

LEMMA SimInit == Init => SimInv
BY DraftInit DEF Init, SimInv

(* What was justified stays so while the chain grows. *)
LEMMA StillJustified ==
  ASSUME ChainOK, NEW v \in [Addresses -> Verdicts], NewBlock(v),
         NEW a, NEW fits, NEW silent, NEW since \in Nat, NEW error, NEW valid,
         NEW n \in 0..Height, NEW m \in n..Height',
         Justified(a, fits, silent, since, error, valid, n)
  PROVE  Justified(a, fits, silent, since, error, valid, m)'
<1> DEFINE x == IF error = "reverts" THEN "reverts" ELSE IF valid THEN "true" ELSE "false"
<1>1. Height \in Nat /\ Height' = Height + 1 /\ \A k \in 0..Height : chain'[k + 1] = chain[k + 1]
  BY ChainFacts, ChainGrows
<1>2. Said(a, x, since, n) => Said(a, x, since, m)'
  <2> HIDE DEF x
  <2> SUFFICES ASSUME Said(a, x, since, n) PROVE \E k \in since..m : chain'[k + 1][a] = x
    BY DEF Said, x
  <2>1. PICK k \in since..n : chain[k + 1][a] = x
    BY DEF Said
  <2>2. k \in since..m /\ k \in 0..Height
    BY <1>1
  <2>3. QED
    BY <1>1, <2>1, <2>2
<1>3. QED
  BY <1>2 DEF Justified, Understands

(* The end of a simulation, with a justified answer. *)
LEMMA SimEnds ==
  ASSUME SimInv, NEW error, NEW valid, NEW number, SimReturns(error, valid, number),
         DraftOK', number \in {Height, 0}, draft.since \in 0..Height,
         error # "rpc" =>
           Justified(verifier, draft.fits, draft.silent, draft.since, error, valid, Height)
  PROVE  SimInv'
<1>1. /\ UNCHANGED <<chain, verifier>> /\ Height' = Height /\ pc' = "idle" /\ ChainOK
      /\ verifier \in Addresses \cup {NoAddress} /\ Height \in Nat
  BY ChainFacts DEF SimReturns, Height, SimInv
<1>2. /\ sim'.at = verifier /\ sim'.since = draft.since /\ sim'.error = error
      /\ sim'.valid = valid /\ sim'.number = number
      /\ sim'.fits = draft.fits /\ sim'.silent = draft.silent
  BY DEF SimReturns
<1>3. End(sim)' = Height
  BY <1>1, <1>2 DEF End
<1>4. sim'.error # "rpc" =>
        Justified(sim.at, sim.fits, sim.silent, sim.since, sim.error, sim.valid, End(sim))'
  BY <1>1, <1>2, <1>3 DEF Justified, Said
<1>5. QED
  BY <1>1, <1>2, <1>4 DEF SimInv, ChainOK

LEMMA SimStep == SimInv /\ [Next]_vars => SimInv'
<1> SUFFICES ASSUME SimInv, [Next]_vars PROVE SimInv'
  OBVIOUS
<1>0. /\ ChainOK /\ DraftOK /\ DraftOK' /\ Height \in Nat
      /\ \A n \in 0..Height : chain[n + 1] \in [Addresses -> Verdicts]
  BY ChainFacts, DraftStep DEF SimInv
<1>1. ASSUME NEW v \in [Addresses -> Verdicts], NewBlock(v)
      PROVE  SimInv'
  <2>1. /\ ChainOK' /\ Height' = Height + 1 /\ UNCHANGED <<verifier, pc, draft, sim>>
    BY <1>0, <1>1, ChainGrows
  <2>2. pc = "simNumber" =>
          Justified(verifier, draft.fits, draft.silent, draft.since, "none", draft.valid, Height)'
    <3> SUFFICES ASSUME pc = "simNumber"
                 PROVE  Justified(verifier, draft.fits, draft.silent, draft.since, "none", draft.valid, Height)'
      BY <2>1
    <3>1. Height \in 0..Height /\ Height' \in Height..Height' /\ draft.since \in Nat
      BY <1>0, <2>1 DEF SimInv
    <3>2. Justified(verifier, draft.fits, draft.silent, draft.since, "none", draft.valid, Height)
      BY DEF SimInv
    <3>3. QED
      BY <1>0, <1>1, <2>1, <3>1, <3>2, StillJustified
  <2>3. sim # NoResult /\ sim.error # "rpc" =>
          Justified(sim.at, sim.fits, sim.silent, sim.since, sim.error, sim.valid, End(sim))'
    <3> SUFFICES ASSUME sim # NoResult, sim.error # "rpc"
                 PROVE  Justified(sim.at, sim.fits, sim.silent, sim.since, sim.error, sim.valid, End(sim))'
      OBVIOUS
    <3>1. End(sim) \in 0..Height /\ End(sim)' \in End(sim)..Height' /\ sim.since \in Nat
      BY <1>0, <2>1 DEF SimInv, End
    <3>2. Justified(sim.at, sim.fits, sim.silent, sim.since, sim.error, sim.valid, End(sim))
      BY DEF SimInv
    <3>3. QED
      BY <1>0, <1>1, <2>1, <3>1, <3>2, StillJustified
  <2>4. QED
    BY <1>0, <2>1, <2>2, <2>3 DEF SimInv
<1>2. ASSUME NEW fits \in BOOLEAN, SimulateVerification(fits)
      PROVE  SimInv'
  <2>1. UNCHANGED <<chain, verifier>> /\ Height' = Height /\ ChainOK'
    BY <1>0, <1>2 DEF SimulateVerification, Height, ChainOK
  <2>2. CASE verifier = NoAddress
    BY <1>0, <1>2, <2>1, <2>2, SentinelsAssumption DEF SimulateVerification, SimInv
  <2>3. CASE verifier # NoAddress
    <3>1. draft'.since = Height /\ pc' = "call" /\ UNCHANGED sim
      BY <1>0, <1>2, <2>3 DEF SimulateVerification, DraftOK, Drafts
    <3>2. QED
      BY <1>0, <2>1, <2>3, <3>1 DEF SimInv, Justified, Said, End
  <2>4. QED
    BY <2>2, <2>3
<1>3. CASE CallFails
  BY <1>3, <1>0, SimEnds DEF CallFails, SimInv
<1>4. CASE CallReverts
  <2>1. Justified(verifier, draft.fits, draft.silent, draft.since, "reverts", FALSE, Height)
        /\ draft.since \in 0..Height
    BY <1>0, <1>4 DEF CallReverts, SimInv, Said, Justified, StarknetCall
  <2>2. QED
    BY <1>0, <1>4, <2>1, SimEnds DEF CallReverts
<1>5. ASSUME NEW silent \in BOOLEAN, CallAnswers(silent)
      PROVE  SimInv'
  <2>1. /\ UNCHANGED <<chain, verifier, sim>> /\ Height' = Height /\ pc = "call" /\ pc' = "simNumber"
        /\ draft'.since = draft.since /\ draft'.fits = draft.fits /\ draft'.silent = silent
        /\ draft'.valid = (~silent /\ StarknetCall(verifier) = "true")
    BY <1>0, <1>5 DEF CallAnswers, Height, DraftOK, Drafts
  <2>2. CASE silent
    BY <1>0, <2>1, <2>2 DEF SimInv, ChainOK, Justified, Said, End
  <2>3. CASE ~silent
    <3>1. StarknetCall(verifier) # "reverts"
      BY <1>5, <2>3 DEF CallAnswers
    <3>2. Understands(verifier, draft.fits) /\ StarknetCall(verifier) = chain[Height + 1][verifier]
      BY <3>1 DEF StarknetCall
    <3>3. StarknetCall(verifier) \in Verdicts \ {"reverts"} /\ draft.since \in 0..Height
      BY <1>0, <2>1, <3>1, <3>2 DEF SimInv
    <3>4. StarknetCall(verifier) = IF draft'.valid THEN "true" ELSE "false"
      BY <2>1, <2>3, <3>3 DEF Verdicts
    <3>5. Said(verifier, IF draft'.valid THEN "true" ELSE "false", draft.since, Height)
      <4>1. Height \in draft.since..Height
        BY <1>0, <3>3
      <4>2. chain[Height + 1][verifier] = IF draft'.valid THEN "true" ELSE "false"
        BY <3>2, <3>4
      <4>3. QED
        BY <4>1, <4>2, Zenon DEF Said
    <3>6. Justified(verifier, draft.fits, draft.silent, draft.since, "none", draft.valid, Height)'
      BY <2>1, <3>2, <3>5 DEF Justified, Understands, Said
    <3>7. QED
      BY <1>0, <2>1, <3>6 DEF SimInv, ChainOK, Justified, Said, End
  <2>4. QED
    BY <2>2, <2>3
<1>6. ASSUME NEW number, GetSimNumber(number)
      PROVE  SimInv'
  BY <1>0, <1>6, SimEnds DEF GetSimNumber, SimInv
<1>7. CASE UNCHANGED <<chain, sim>> /\ pc' \notin {"call", "simNumber"}
           /\ verifier' \in Addresses \cup {NoAddress}
  BY <1>0, <1>7 DEF SimInv, ChainOK, Height, Justified, Said, End
<1>8. CASE NumberPanics
  BY <1>0, <1>8 DEF NumberPanics, SimInv, ChainOK, Height
<1>9. CASE UNCHANGED vars
  BY <1>0, <1>9 DEF vars, SimInv, ChainOK, Height, Said, Justified, End
<1>10. QED
  BY <1>1, <1>2, <1>3, <1>4, <1>5, <1>6, <1>7, <1>8, <1>9
     DEF Next, Operate, SetVerifierAddress, GetChainStatus, GetChainID, GetBlockNumber, StatusFails,
         GetLatestBlock, SimInv

(* On a chain of any length, with contracts that read the client's calls and with
   those that do not, the repository's own included, whatever is lost or makes no
   sense: what a simulation says, the contract said within the reported span, but
   for refusals of calls it cannot read and for answers of nothing. *)
THEOREM SimulationSafety == Spec => []AnswersAreTheContracts
<1>1. SimInv => AnswersAreTheContracts
  BY AnswersAreJustified DEF SimInv
<1>2. QED
  BY <1>1, SimStep, SimInit, PTL DEF Spec


-----------------------------------------------------------------------------
(* The client keeps its promises when the program has a mock as well.        *)

LEMMA ClientSteps == [AccessNext]_accessVars => [Next]_vars
BY DEF AccessNext, PingSucceeds, PingFails, UseClient, ClientPanics, UseMock, Next, accessVars, vars

(* SimulationSafety, for a program that may end up with the mock. *)
THEOREM AccessSafety == AccessSpec => []AnswersAreTheContracts
<1>1. AccessSpec => Spec
  BY ClientSteps, PTL DEF AccessSpec, AccessInit, Spec
<1>2. QED
  BY <1>1, SimulationSafety, PTL

(* StatusSafety, for such a program. *)
THEOREM AccessStatusSafety == AccessSpec => StatusesAdvance
<1>1. AccessSpec => Spec
  BY ClientSteps, PTL DEF AccessSpec, AccessInit, Spec
<1>2. QED
  BY <1>1, StatusSafety, PTL

-----------------------------------------------------------------------------
(* The mock. *)

Tellings == {"nothing", "valid", "invalid"}
Requested == {verifiedProofs[i] : i \in DOMAIN verifiedProofs}

MockInv ==
  /\ proofs \in [Keys -> BOOLEAN] /\ told \in [Keys -> Tellings]
  /\ verifiedProofs \in Seq(Keys)
  /\ simulateValid \in BOOLEAN /\ simulateError \in BOOLEAN
  /\ \A k \in Keys : proofs[k] = (told[k] = "valid")
  /\ Requested = {k \in Keys : told[k] # "nothing"}

(* The mock after NewMockClient and after Reset. *)
LEMMA MockBlank ==
  ASSUME proofs' = [k \in Keys |-> FALSE], verifiedProofs' = << >>,
         told' = [k \in Keys |-> "nothing"], simulateValid' = TRUE, simulateError' = FALSE
  PROVE  MockInv'
<1>1. proofs' \in [Keys -> BOOLEAN] /\ told' \in [Keys -> Tellings]
  BY DEF Tellings
<1>2. verifiedProofs' \in Seq(Keys) /\ Requested' = {}
  BY DEF Requested
<1>3. \A k \in Keys : proofs'[k] = (told'[k] = "valid")
  <2>1. \A k \in Keys : told'[k] = "nothing" /\ proofs'[k] = FALSE
    OBVIOUS
  <2>2. QED
    BY <2>1
<1>4. Requested' = {k \in Keys : told'[k] # "nothing"}
  <2>1. \A k \in Keys : told'[k] = "nothing"
    OBVIOUS
  <2>2. QED
    BY <1>2, <2>1
<1>5. QED
  BY <1>1, <1>2, <1>3, <1>4, Zenon DEF MockInv

LEMMA MockAnswers ==
  ASSUME MockInv, NEW k \in Keys, Mock!SimulateVerification(k)
  PROVE  MockInv'
<1>1. CASE UNCHANGED mockVars
  BY <1>1 DEF mockVars, MockInv, Requested
<1>2. CASE verifiedProofs' = Append(verifiedProofs, k) /\ proofs' = [proofs EXCEPT ![k] = simulateValid]
           /\ told' = [told EXCEPT ![k] = IF simulateValid THEN "valid" ELSE "invalid"]
           /\ UNCHANGED <<simulateValid, simulateError>>
  <2>1. Requested' = Requested \cup {k} /\ verifiedProofs' \in Seq(Keys)
    <3>1. verifiedProofs \in Seq(Keys) /\ verifiedProofs' = Append(verifiedProofs, k)
      BY <1>2, Zenon DEF MockInv
    <3>2. /\ verifiedProofs' \in Seq(Keys) /\ Len(verifiedProofs) \in Nat
          /\ DOMAIN verifiedProofs = 1..Len(verifiedProofs)
          /\ DOMAIN verifiedProofs' = 1..Len(verifiedProofs) + 1
          /\ \A i \in 1..Len(verifiedProofs) : verifiedProofs'[i] = verifiedProofs[i]
          /\ verifiedProofs'[Len(verifiedProofs) + 1] = k
      BY <3>1
    <3>3. \A i \in DOMAIN verifiedProofs' :
            i \in DOMAIN verifiedProofs \/ i = Len(verifiedProofs) + 1
      BY <3>2
    <3>4. QED
      BY <3>2, <3>3 DEF Requested
  <2>2. /\ told' \in [Keys -> Tellings]
        /\ told'[k] = IF simulateValid THEN "valid" ELSE "invalid"
        /\ \A j \in Keys : j # k => told'[j] = told[j]
    BY <1>2 DEF MockInv, Tellings
  <2>3. /\ proofs' \in [Keys -> BOOLEAN]
        /\ proofs'[k] = simulateValid
        /\ \A j \in Keys : j # k => proofs'[j] = proofs[j]
    BY <1>2, Zenon DEF MockInv
  <2>4. \A j \in Keys : proofs'[j] = (told'[j] = "valid")
    BY <2>2, <2>3 DEF MockInv
  <2>5. Requested' = {j \in Keys : told'[j] # "nothing"}
    BY <2>1, <2>2 DEF MockInv
  <2>6. QED
    BY <1>2, <2>1, <2>2, <2>3, <2>4, <2>5 DEF MockInv
<1>3. QED
  BY <1>1, <1>2 DEF Mock!SimulateVerification, Mock!mockVars, mockVars

LEMMA MockStep == MockInv /\ [AccessNext]_accessVars => MockInv'
<1> SUFFICES ASSUME MockInv, [AccessNext]_accessVars PROVE MockInv'
  OBVIOUS
<1>1. CASE UNCHANGED <<proofs, verifiedProofs, told>>
           /\ simulateValid' \in BOOLEAN /\ simulateError' \in BOOLEAN
  BY <1>1 DEF MockInv, Requested
<1>2. ASSUME NEW k \in Keys, Mock!SimulateVerification(k)
      PROVE  MockInv'
  BY <1>2, MockAnswers
<1>3. CASE Mock!Reset
  BY <1>3, MockBlank DEF Mock!Reset
<1>4. CASE UNCHANGED mockVars
  BY <1>1, <1>4 DEF mockVars, MockInv
<1>5. CASE UseMock
  BY <1>1, <1>2, <1>3, <1>5
     DEF UseMock, MockInv, Mock!Next, Mock!SubmitProofCommitment, Mock!SetBlockNumber, Mock!Configure,
         Mock!SetVerifierAddress
<1>6. QED
  BY <1>4, <1>5 DEF AccessNext, PingSucceeds, PingFails, UseClient, ClientPanics, accessVars

(* However often the mock is configured, asked and reset: what it tells of past
   simulations is what their callers were told. *)
THEOREM MockSafety == AccessSpec => []MockTellsWhatItTold
<1>1. AccessInit => MockInv
  <2> SUFFICES ASSUME AccessInit PROVE MockInv
    OBVIOUS
  <2>1. /\ proofs = [k \in Keys |-> FALSE] /\ told = [k \in Keys |-> "nothing"]
        /\ verifiedProofs = << >> /\ simulateValid = TRUE /\ simulateError = FALSE
    BY DEF AccessInit, Mock!Init
  <2>2. proofs \in [Keys -> BOOLEAN] /\ told \in [Keys -> Tellings]
    BY <2>1 DEF Tellings
  <2>3. \A k \in Keys : told[k] = "nothing" /\ proofs[k] = FALSE
    BY <2>1
  <2>4. \A k \in Keys : proofs[k] = (told[k] = "valid")
    BY <2>3
  <2>5. verifiedProofs \in Seq(Keys) /\ Requested = {k \in Keys : told[k] # "nothing"}
    BY <2>1, <2>3 DEF Requested
  <2>6. QED
    BY <2>1, <2>2, <2>4, <2>5, Zenon DEF MockInv
<1>2. MockInv => MockTellsWhatItTold
  <2> SUFFICES ASSUME MockInv PROVE MockTellsWhatItTold
    OBVIOUS
  <2>1. \A k \in Keys : proofs[k] <=> told[k] = "valid"
    BY Zenon DEF MockInv
  <2>2. Requested = {k \in Keys : told[k] # "nothing"}
    BY DEF MockInv
  <2>3. QED
    BY <2>1, <2>2, Zenon
       DEF MockTellsWhatItTold, Mock!MockTellsWhatItTold, Mock!IsProofVerified, Mock!GetVerifiedProofs,
           Requested
<1>3. QED
  BY <1>1, <1>2, MockStep, PTL DEF AccessSpec
=============================================================================
