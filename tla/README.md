# zkp-katana-leveldb in TLA+

A verification project for `src/`: the Go packages that keep Merkle roots and
proofs in LevelDB, build Merkle trees and prove membership in them, and the two
Cairo contracts that accept such proofs.

## The system

| Component | State | Operations | Hard behaviour | What makes it correct |
|---|---|---|---|---|
| LevelDB store (`pkg/storage/leveldb.go`) | the database | Put, Get, Delete, BatchWrite, iterators, open, close | every write is unsynced; a crash of the machine loses the last ones; any call may fail | a batch is all or nothing, reads see the last write |
| State trie (`pkg/storage/state_trie.go`) | current root (key and cached copy), history of roots | UpdateRoot, Clear, GetCurrentRoot, GetRootHistory, GetRootAtTime, HasRoot | an operation is several writes; a crash or an error between them; keys made of the wall clock | the current root is in the history, the three queries agree, restarts change nothing, the past does not change |
| Proof cache (`pkg/storage/proof_cache.go`) | proofs and commitments by id | StoreProof, GetProof, DeleteProof, queries by root and time | ids that collide are overwritten; it shares the store with the trie and outlives its Clear | a proof goes only when deleted, overwritten in the second its id tells or lost to a power loss |
| Merkle tree, hash (`pkg/merkle`) | leaves, next free index | Insert, GetRoot, GetProof, VerifyMerkleProof | only nodes above leaves are computed; first, last and odd leaves; data the hash refuses; numbers beyond the field prime | the sparse root is the full root; proofs are complete, sound and bound to one root |
| Circuit (`pkg/circuit`) | none (a predicate) | Define, MerkleVerifier.VerifyProof | the hash gadget keeps state between sums | accepts what the native verifier accepts |
| Prover, verifier (`pkg/prover`) | constraint system, keys, initialized flag, read-write lock | Setup, Prove, Verify, exports | padding of short paths; a second Setup; keys are lost at restart | a witness of a member gives a proof that verifies under the keys of the same setup |
| Membership verifier (`contracts/src/membership_verifier.cairo`) | current root, ring of 100 roots, nullifiers, count | verify_membership, update_merkle_root, use_nullifier, record_verification | the ring wraps; slots never written read 0 | exactly the last roots are accepted; a nullifier is used once |
| Groth16 verifier (`contracts/src/groth16_verifier.cairo`) | key, IC points in a map, initialized | set_verification_key, verify_proof | a shorter key after a longer one; checked u256 arithmetic | verdicts follow from the last key |
| Katana client, mock, deployer (`pkg/katana`) | RPC connection; blocks and proofs of the mock | chain queries, SimulateVerification, SubmitProofCommitment, deployment | operations of several calls on a growing chain; replies without sense | an answer is one the chain gave during the call, and later answers are not older |
| Demo, benchmark (`cmd`) | none of their own; the store outlives them | the pipeline tree, root, proof, cache, chain | a warning that stops nothing, ends and crashes anywhere, many runs with one root | proofs and history tell of the same roots |

They interact by plain calls from `cmd/` and the tests: the tree's root goes into
`StateTrie.UpdateRoot`, its proofs into `Prover.Prove`, the result into
`ProofCache.StoreProof`, and calldata to the contracts. State trie and proof cache
share one store under different key prefixes. No code of the repository starts a
goroutine; the prover and the mock client have a lock so that their callers may.
The concurrency that matters is that of goroutines with a Setup of the prover, of
crashes with sequences of writes, and of blocks with sequences of RPCs.

## Modules

| Module | Code | State and actions |
|---|---|---|
| `LevelDB` | `leveldb.go` | `journal`: the contents after each write not yet known to be on disk; the first may be all a crash leaves, the last is what reads see. `Write`, `FailedWrite`, `WriteBack`, `Reopen` are operators a component builds its actions from |
| `StateTrie` | `state_trie.go` | extends `LevelDB`. UpdateRoot is `BeginUpdate`, `PutHistory`, `PutCurrent`; Clear is `ClearCurrent`, `ClearHistory`; `pc` says how far an operation has got; every write may fail; `ProcessRestart` and `MachineRestart` are enabled between any two of them and run `NewStateTrie` on what is left |
| `RootLog` | abstract specification | what a durable record of roots promises; `StateTrie` implements it under the mapping `LogStates` |
| `StateTrieProofs` | - | the theorems about `StateTrie` |
| `ProofCache` | `proof_cache.go` | extends `LevelDB`; no variable of its own: `DeleteProof` and `StoreCommitment` and the put of StoreProof as writes to the part of a store's contents that is the cache's, `GetProofByRoot` and `ProofCount` as operators |
| `Demo` | `cmd/demo/main.go` to line 198 | extends `StateTrie` and `ProofCache`: their operations on one store. `stage` is the next step of the program that has the store; a run is `StartRun`, `CallUpdateRoot`, `InUpdateRoot`, `ProveAndVerify`, `CallStoreProof`; other programs (`OpenStore`) may clear the trie, delete proofs and store commitments; `Exit` and `PowerLoss` come anywhere. `excused` remembers the runs that had the warning or were cleared |
| `DemoProofs` | - | the theorems about `Demo` |
| `PoseidonHash` | `poseidon.go` | no state: digests are terms; `Write` drops what MiMC refuses, `Element` reduces a number to the field element it stands for |
| `MerkleTree` | `tree.go` | `leaves`, `nextLeaf`; `Insert`, `InsertFull`; the loops over sparse levels as recursive functions |
| `MembershipCircuit` | `pkg/circuit`, assignment in `prover.go` | extends `MerkleTree`; the constraints as the predicate `Satisfied`, `Prove`'s padding as `Assignment` |
| `MerkleTreeProofs`, `MembershipCircuitProofs` | - | the theorems about trees and the circuit |
| `RWMutex` | `sync.RWMutex` (external) | who holds and who awaits the lock; operators for the halves of Lock and RLock, for Unlock and RUnlock |
| `Prover` | `prover.go`, `verifier.go` | extends `RWMutex`. Keys and proofs are known by the number of their setup. Setup is `CallSetup`, `LockForSetup`, then `SetupFails` or `SetPk` and `SetVk`; Prove, Verify and the exports are `CallRead`, `ReadKey`, then `ReadFails` or their return; `StandaloneVerify` is the verifier without a prover; `Restart` loses the keys |
| `ProverService` | abstract specification | one pair of keys, calls that happen at one moment; `Prover` implements it with `vk` as the pair |
| `ProverProofs` | - | the theorems about `Prover` |
| `KatanaClient` | `client.go` | `chain`: what each contract says to a request in each block; one action for each RPC of GetChainStatus and SimulateVerification, with its failure and with null for an answer; `Understands` says whether a contract can read the call; `NumberPanics` is the reply that ends the program; `NewBlock` at any time |
| `MockClient` | `mock.go` | one action per method that changes state, whole, as each holds the mock's lock; `told` remembers what callers were told |
| `ChainAccess` | `cmd/demo/main.go` from line 201 | extends `KatanaClient`, has `MockClient` as an instance: `PingSucceeds` and `PingFails` choose, then any calls of the chosen one follow; after a panic (`ClientPanics`) the next program chooses anew |
| `ChainAccessProofs` | - | the theorems about the client and the mock |
| `MembershipVerifier` | `membership_verifier.cairo` | one action per function that changes storage; events are kept in `updates` and `uses` |
| `Groth16Verifier`, `MCGroth16Verifier` | `groth16_verifier.cairo` | `set_verification_key`, `verify_proof`; the MC module gives the points of a small curve |
| `MembershipVerifierProofs`, `Groth16VerifierProofs` | - | the theorems about the contracts |

An operator whose comment starts with "Mutation" is a plausible mistake: put in the
place of the definition below it, it must break a property (PROJECT.json,
"mutants"). No specification uses it.

## Runs

| Run | Shows | Bounds |
|---|---|---|
| `state_trie` | Whatever fails or crashes: a stored current root is in the stored history, so is the cached one; after a successful operation the three queries agree; a restart between operations changes no answer unless the last one failed; answers about the past are stable; the store implements `RootLog` | 2 roots, 6 clock readings: three updates, with clears and crashes between them at no cost in readings |
| `orphan_entry` (violation) | GetRootAtTime may answer a root that was never current | the same |
| `membership_circuit` | sparse root = full root, completeness, proofs are bound to the root they were taken under; no combination of numbers that are nodes of the tree, reduced or not, proves anything but its leaves at their places; circuit and native verifier agree; padding and cutting never prove | depth 2, three secrets, one that gets the leaf the padding has and one the hash refuses: all places, every odd and even fill level, the full tree and one insert more; directions 0, 1 and 2, prover depths 1 to 3. The theorems are for every depth |
| `members_prove` (violation) | a member whose secret is not a whole canonical 32-byte block cannot prove | one such secret |
| `membership_verifier` | accepted roots are the last `HistorySize`, 0 among them once every slot has been written; events tell the root, nullifiers are used once | ring of 3 and 5 updates: the ring wraps and passes the place where it wrapped |
| `unwritten_slots` (violation) | until then 0 is accepted, which never was a root | ring of 3: the first state |
| `groth16_verifier` | verdicts follow from the last key, whatever longer key came before | keys of 0 to 3 points, up to 3 inputs |
| `curve_test` (violation) | points on the curve make the curve test panic | a word of 64 with a field of 13 elements stands for 2^256 and BN254: an element takes most of the word, a product of two does not fit |
| `prover` | while a call works with a key, both keys of the prover are of that setup; calls come out as those of `ProverService`: proofs are valid under the keys of their own setup and no other, after failed setups and restarts as well; every call returns | three goroutines and two successful setups: two readers that take turns against a Setup, a Setup against a Setup that fails, a proof that is one setup old; the theorems on safety have no bounds |
| `katana_client` | what a simulation says, the contract asked said in a block of the reported span, and a failed RPC is told apart from a no, but an answer of nothing is not; statuses do not go back; the mock's list, its verdicts and its answers agree through errors, changed verdicts and resets | one contract, which reads the calls whose numbers are felts and refuses the others, two blocks after the genesis: one between each two RPCs; two keys and three requests of the mock: one key asked twice with another in between |
| `demo` | whatever fails, ends or loses power: the root of a proof is in the history, each proof has an entry of its own, the current root leads to a proof, proofs go only as expected, and the shared store implements `RootLog`; runs that went on after the warning, and runs whose entries were cleared, are the exceptions | two runs, two roots (versions of the program), four readings of the nanosecond clock, two of the one in seconds: two runs with the same root, within one second or not, with a Clear between them; the theorems have no bounds |
| `verifier_calls` (violation) | every simulation against the repository's contract is refused, whatever that contract would say | one contract, the one in `contracts/` (`MembershipVerifiers`); in `katana_client` the contract is one written for the client's selector and widths, in the theorems there are any of both |

The bounds are those at which the events in question first occur together (a crash
inside the second and third update, a wrap of the ring, a full tree); nothing in the
code depends on larger numbers than these. `membership_verifier` switches the
deadlock check off: the counters' bounds stop the model, the contract has no such
end. All other runs check for deadlock; in `Prover`
the caller that waits for another one shows up in `EveryCallReturns`.

Only `Prover` waits for anything, so only it has a liveness property. `FairSpec`
assumes that a goroutine that can go on does (weak fairness of the steps inside
Setup and of those inside a reading call: Go's scheduler is preemptive, and
compiling, setting up and proving end), and that a goroutine waiting in Lock gets
its turn among the writers (strong fairness of `LockForSetup`: `sync.RWMutex` queues
writers on a `sync.Mutex`, which hands itself to the longest waiter after a
millisecond). Calls need not be made, and readers get no fairness against writers:
that they come in after each writer is how the lock is modelled. The other code
waits for nothing and retries nothing; nothing is claimed of its progress.

## Assumptions

- goleveldb: a write that returns an error left no record; a batch is one journal
  record; without sync a crash of the process loses nothing and a crash of the
  machine a suffix of the records; opening replays the journal and flushes it.
- The state trie has one caller, as everywhere in the repository; operations on it
  do not overlap.
- `StrictClock`: two readings of `time.Now()` differ and increase (nanoseconds).
  The positive results on the state trie need it: after the wall clock is set
  back GetRootHistory no longer has the last update first. Keys compare as numbers
  because UnixNano has 19 digits until 2286.
- Entries written by the code can be read back (JSON of hex, time and numbers).
- groth16.Setup never draws the same keys twice; a proof verifies under the
  verification key of its own setup and no other, for inputs that satisfy the
  circuit. Restart is that of the whole process: callers are gone as well.
- The chain has no reorganisation; Katana in development mode has none.
- A node refuses a call to a selector the contract has no entry point of, with another
  number of felts than the entry point reads, or with a number that is no felt
  (`Understands`). A contract of `MembershipVerifiers` is the one in `contracts/`; about
  the others nothing is assumed but that they are written for this client.
- MiMC has no collisions: a digest is the term that built it. 0 is the term without
  parts, so no digest is 0, and none is a secret. The blocks of HashElements are never
  refused: they are canonical bytes of the elements its numbers reduce to.
- Callers of VerifyMerkleProof may hand it numbers that are not reduced; for each element
  x one number `Unreduced(x)` stands for all x + kp, as nothing tells them apart but
  the comparison with the root, which is with a digest. What is inserted into a tree
  is a digest, as with InsertBytes and InsertSecret.
- Contract transactions are atomic and one that fails an assertion leaves no trace.
- `update_merkle_root`, `use_nullifier`, `record_verification` and
  `set_verification_key` are functions of the contracts but not of their
  interfaces: no transaction can reach them. `Spec` has them as the operations they
  are written to be; `DeployedNext` is what is left to callers of the class as it is
  deployed.
- Demo: goleveldb locks the database, so one process has it at a time. With the
  secrets the demo uses (21 bytes, see `members_prove`) every run ends in Prove; the
  steps after it are modelled as they are written. The clock in seconds is that
  of the id (main.go:178); CreatedAt, an earlier reading, is left out. Its readings are
  not tied to those in nanoseconds.
- Requests to the mock are told apart by root and leaf hash, as the mock does.

## Proofs

`StateTrieProofs` is checked by TLAPS, for every set of roots and every clock bound.

- `TypeCorrect`: `TypeOK`, made inductive by `ArgIsRoot` (an update under way has a
  root).
- `CrashSafety` and `CacheSafety`: if `StrictClock`, then `CurrentInHistory` and
  `CachedInHistory`. Neither is inductive. `SafeInv` adds that all history keys in any
  contents a crash may leave are not after the last clock reading (so a new entry
  overwrites none: this is where the clock matters), that between the two puts of
  an update the new root is already in the history, and that between the two
  steps of Clear there is no current root. The lemmas `WriteKeeps`, `WriteBackKeeps`
  and `ReopenKeeps` say for each store operation which contents can be there
  afterwards, so that the argument never looks at the journal's indices.
- `Refinement`: if `StrictClock`, then `StateTrie` implements `RootLog`; every step is a
  step of the log or leaves it alone, by the same invariant.

- `RestartSafety` (any clock): `RestartKeepsRoot`, by the invariant `CacheIsStored`:
  after an operation that returned nil the cache is empty or what the store has.
- `PastSafety` (`StrictClock`): `PastIsStable`; `EntriesTell` says that an answer about t
  rests on the entries not after t, and `SafeInv` that a put overwrites none of them.
- `QueriesSafety` (`StrictClock`): `QueriesAgree`. What the three queries answer depends on
  the whole history, so the invariant does too: `NewestInv` says that after a put of
  UpdateRoot and after an operation that returned nil the root in question `Leads`, that
  is, its entry is the last by key and by timestamp, and that what a crash may leave
  is finite and not ahead of the clock. `LeaderAtTime` and `LeaderIsFirst` turn that into
  the answers of GetRootAtTime and GetRootHistory.

`DemoProofs`, for any number of runs, roots and clock readings, on the same lemmas about the journal, which hold for contents of any kind:

- `DemoTypeCorrect`: with `StageOK`, which ties the stage of a program to how far its
  operation on the trie has got.
- `ProofsFollowRoots` (`StrictClock`): `ProvenRootsAreRecorded`. `DemoSafe` adds that no
  key is ahead of the clock, no proof is of a run still to come (so a Clear excuses
  all that have one), and that the root of a run is in the history from the first
  put of UpdateRoot until the proof is stored.
- `DemoRefinement` (`StrictClock`): the shared store implements `RootLog`. A write of the
  proof cache repeats the last state of the log, which is an `Adopt` of the current
  root or, without one, a `Retire`.
- `CurrentSafety` (any clock): `CurrentRootHasProof`; that the scan of GetProofByRoot finds
  a first proof is the well-foundedness of the numbers (`LeastOf`).
- `CountSafety` (`StrictClock`): `NoMoreProofsThanEntries`. The counts are not inductive;
  `OwnInv(k)` is: a map k gives each run the key of the entry it made, no two runs
  the same, each run has one proof at most and each proof the entry of its run. The
  injection from proofs to entries that it yields bounds the cardinality.
- `StaySafety` (any clock): `ProofsStay`, by cases on the step: a put of the trie and each
  record of Clear leave the proofs (`SameProofs`), and a put of the cache only replaces
  those that have the id it is under (`StoredProof`, `CacheKeeps`).

`MerkleTreeProofs`, for trees of every depth and any leaves. The definitions recur over
the levels, and the library's theorems on induction take an operator as parameter;
the lemma `Induction` is about a set of numbers instead and follows from the
well-foundedness of the naturals. With it each recursive function is shown to exist
and so to satisfy its equation (`WidthEquation` to `DigestsEquation`), and from then on the
proofs go up or down the levels.

- `TreeTypeCorrect`: leaves are stored without gaps up to the counter.
- `RootSafety`: `SparseRootIsFullRoot`. `SparseLevels` and `SparseNodes`: a node the sparse
  computation has is that of the full tree, and where it has none getNodeOrZero
  answers what the full tree has there.
- `CompletenessSafety`: `InsertedLeavesVerify`, as the digests on the way up from a leaf are
  the nodes above it (`ProofClimbs`).
- `SoundnessSafety`: `OnlyTreeLeavesVerify`. `PathIsInTree` goes down from the root: as hashes
  do not collide, a path that leads to the root went through the nodes of the tree,
  or through numbers that reduce to them.
- `StaleSafety`: `StaleProofsFail`, as two trees with one root have the same leaves
  (`RootTellsLeaves`).

`MembershipCircuitProofs`, for every depth of tree and prover:

- `CircuitSafety`: `CircuitMatchesNative`. `CircuitClimbs`: on directions that are bits the
  gadget goes through the digests of VerifyMerkleProof, whatever state it had before.
  The circuit takes a root plus the prime for the root; VerifyMerkleProof, which compares
  the numbers, does not, and the statement allows for it.
- `DepthSafety`: a member proves with a prover of the tree's depth and with no other. A path
  that was cut ends in a node below the root, and nodes of different levels differ
  (`LevelsDiffer`); a path filled with zeros goes on hashing above the root, and what
  that comes to is no node of the tree however long it goes on (`AboveDiffers`).
  `MemberSafety` is the part of it that the run checks (`MembersProveAtTreeDepth`).

`MembershipVerifierProofs`, for every size of the ring and any number of calls:
`ContractTypeCorrect`, `NullifierSafety`, `EventSafety`, and `WindowSafety`
(`AcceptedRootsAreTheWindow`: of every root but 0, and of 0 when the ring is full). The last rests on `RingOK`, which says in which slot
the root of each age is, and that slots of no age are 0; the lemmas `Wrap`, `Ages` and
`AgesGrow` are its arithmetic modulo the size.

`Groth16VerifierProofs`, for keys of any length: `KeyTypeCorrect` and `VerdictSafety`
(`VerdictsUseTheLastKey`). `KeyIsStored` says that the points the last key brought are
those stored below its length; `CombinationIsLocal` that the linear combination reads
no others.

`ChainAccessProofs`, for a chain of any length and any contracts, those the client's calls
are written for and those they are not: `StatusSafety` (`StatusesAdvance`), by the
number the call under way has been given; and `SimulationSafety`
(`AnswersAreTheContracts`): blocks stay as they are while the chain grows
(`StillJustified`), and between its two RPCs the client holds an answer that was given
since the call began, or one of nothing. `AccessStatusSafety` and `AccessSafety` carry
both over to a program that may have the mock instead; `MockSafety`, about the mock's list,
is `MockTellsWhatItTold`.

`ProverProofs`, for any number of goroutines and setups:

- `ProverTypeCorrect` and `KeySafety`: `TypeOK` and `CallsSeeOneSetup`. The latter is not
  inductive: `LockInv` adds that whoever is past Lock is the writer and whoever has
  read a key is a reader, that no caller both reads and waits, that there are no
  readers between the two assignments of Setup, and that outside of them the two
  keys are of one setup. The lemma `ReturnsKeeps` serves all reading calls.
- `ProverRefinement`: `Prover` implements `ProverService`. A call takes effect where it
  returns, with the key that `CallsSeeOneSetup` says is still the prover's; a Setup
  where it assigns `vk`.

Only model-checked: the liveness of the prover (`EveryCallReturns`), as liveness under
fairness and ENABLED are beyond TLAPS here. Every other property of a passing run is
also a theorem, for all values of the constants that keep the assumptions named with
it. That the five statements under Findings fail is shown by behaviours TLC finds.

## Findings

Five statements of comments or tests that the code does not keep are the violation
runs above; PROJECT.json quotes them with their lines. More show at a glance and
have no run:

- `verification_count` never moves, as no function of the interface records a
  verification.
- A null or empty result of `starknet_call` is `Valid: false` without an error
  (client.go:184), like a no of the contract; a null block number is 0 without an error,
  and one that is a string but no hex number makes GetBlockNumber panic (client.go:62).
- A failed block number after a simulation is reported as 0, the number of the genesis.
- HashElements reduces its arguments (poseidon.go:51): a proof also verifies for its
  leaf plus the field prime.
- GetChainStatus combines the number of one block with the hash of another when the
  chain grows between its calls.
- The history of the state trie has the order of the wall clock and not of the updates.
- The mock's Reset keeps the verifier address, although its comment says it clears all
  mock state (mock.go:176); GetVerifiedProofs lists requests that were told "invalid" as
  well; and the mock answers a simulation without a verifier address, where the client
  returns an error.

## Not modelled

- The deployer: no state, no caller, and results that are the output of external tools
  or, without them, made up from the lengths of strings.
- Benchmark, scripts, containers and CI: they measure and build.
- Statistics, compaction and paths of the store, and PutWithOptions with Sync, which no
  one calls; queries that only read a value back (GetProof, HasProof, ListProofs,
  GetProofsByTimeRange, GetCommitment, the mock's blocks and status).
- Iterations that end with an error: the queries are those of complete ones.
- The arithmetic of MiMC, Groth16 and the curve; JSON and hex; the serialised
  forms of keys and proofs (`pkg/prover/types.go`, `pkg/katana/types.go`).

## Plan

What would come next: `KatanaClient` with `MembershipVerifier` as the contract it asks, so
that a simulation is judged by the window of roots in the block it ran in; and read
errors in the queries of trie and proof cache.
