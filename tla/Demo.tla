-------------------------------- MODULE Demo --------------------------------
(***************************************************************************)
(* cmd/demo/main.go: state trie and proof cache on one store that outlives *)
(* the program.  A run opens the store, updates the root, proves with keys *)
(* of its own, stores the proof and ends; it ends early when a step fails, *)
(* is killed, or its machine dies, at any point.  Between runs other       *)
(* programs may open the store and use the rest of the two packages (the   *)
(* database is locked: one process has it at a time).                      *)
(*                                                                         *)
(* The tree is the same whenever the demo is; Roots are those of versions  *)
(* of the program.  With the secrets it has now every run ends in Prove    *)
(* (MembershipCircuit, MembersProve); the steps after it are as written.   *)
(***************************************************************************)
EXTENDS StateTrie, ProofCache

CONSTANTS
  MaxRuns,       \* bound on the number of runs
  MaxSecond,     \* bound on the clock in seconds
  Commitments    \* ids of commitments

ASSUME DemoBoundsAssumption == MaxRuns \in Nat /\ MaxSecond \in Nat
ASSUME NoProofAssumption == NoProof \notin [id : Nat, root : Roots, proof : Nat]

VARIABLES
  stage,         \* the next step of the program that has the store, "closed" if none has
  run,           \* how many runs there have been; the keys and the proof of a run
                 \* are known by its number
  second,        \* the last reading of the clock in whole seconds
  excused        \* history variable: the runs whose root the trie need not know,
                 \* because UpdateRoot failed or the trie was cleared since

demoVars == <<vars, stage, run, second, excused>>

Runs == 1..MaxRuns
Seconds == 0..MaxSecond
Proof == [id : Seconds, root : Roots, proof : Runs]
DemoContents == [ hist : SUBSET Entry, cur : Roots \cup {NoRoot},
                  proofs : SUBSET Proof, commitments : SUBSET Commitments ]

DemoInit ==
  /\ journal = <<[hist |-> {}, cur |-> NoRoot, proofs |-> {}, commitments |-> {}]>>
  /\ InitTrie
  /\ stage = "closed"
  /\ run = 0
  /\ second = 0
  /\ excused = {}

-----------------------------------------------------------------------------
(* A run of the demo. *)

(* main opens the store and makes the cache and the trie of it. *)
StartRun ==
  /\ stage = "closed" /\ run < MaxRuns
  /\ ProcessRestart
  /\ stage' = "updateRoot" /\ run' = run + 1
  /\ UNCHANGED <<second, excused>>

(* It builds the tree and calls UpdateRoot with its root ... *)
CallUpdateRoot(r, t) ==
  /\ stage = "updateRoot"
  /\ BeginUpdate(r, t)
  /\ stage' = "inUpdateRoot"
  /\ UNCHANGED <<run, second, excused>>

(* ... whose error is a warning and stops nothing. *)
InUpdateRoot(t) ==
  /\ stage = "inUpdateRoot"
  /\ PutHistory(t) \/ PutCurrent
  /\ stage' = IF pc' = "idle" THEN "prove" ELSE stage
  /\ excused' = IF pc' = "idle" /\ outcome' = "failed" THEN excused \cup {run} ELSE excused
  /\ UNCHANGED <<run, second>>

(* NewProver draws the keys of the run, Prove and Verify succeed; if one of them
   does not, the program ends. *)
ProveAndVerify ==
  /\ stage = "prove" /\ stage' = "storeProof"
  /\ UNCHANGED <<vars, run, second, excused>>

(* Mutations: the id does not tell the time; the time is rounded up. *)
SameProofID(s) == 0
NextSecondID(s) == s + 1

(* The id is made of the clock in whole seconds, read for this alone: CreatedAt is an
   earlier reading, which nothing here looks at. *)
ProofID(s) == s

(* The proof is stored; an error is printed and stops nothing. *)
CallStoreProof(s) ==
  /\ stage = "storeProof"
  /\ StrictClock => s >= second
  /\ second' = s
  /\ LET p == [id |-> ProofID(s), root |-> arg, proof |-> run]
     IN  \/ Write(WithProof(Store, p)) /\ stage' = "stored"
         \/ FailedWrite /\ stage' = "notStored"
  /\ UNCHANGED <<trieVars, run, excused>>

-----------------------------------------------------------------------------
(* Other programs. *)

OpenStore ==
  /\ stage = "closed"
  /\ ProcessRestart
  /\ stage' = "other"
  /\ UNCHANGED <<run, second, excused>>

ClearTrie ==
  /\ stage = "other"
  /\ \/ ClearCurrent /\ UNCHANGED excused
     \/ ClearHistory /\ excused' = 1..run
  /\ UNCHANGED <<stage, run, second>>

UseProofCache ==
  /\ stage = "other" /\ pc = "idle"
  /\ \/ \E id \in Seconds : DeleteProof(id)
     \/ \E id \in Commitments : StoreCommitment(id)
  /\ UNCHANGED <<trieVars, stage, run, second, excused>>

-----------------------------------------------------------------------------
(* Any program ends or is killed, anywhere.  Nothing it wrote is lost. *)
Exit ==
  /\ stage # "closed" /\ stage' = "closed"
  /\ UNCHANGED <<vars, run, second, excused>>

(* The machine dies. *)
PowerLoss ==
  /\ MachineRestart /\ stage' = "closed"
  /\ UNCHANGED <<run, second, excused>>

PutOnDisk ==
  /\ StoreWriteBack
  /\ UNCHANGED <<stage, run, second, excused>>

DemoNext ==
  \/ StartRun
  \/ \E r \in Roots, t \in Times : CallUpdateRoot(r, t)
  \/ \E t \in Times : InUpdateRoot(t)
  \/ ProveAndVerify
  \/ \E s \in Seconds : CallStoreProof(s)
  \/ OpenStore
  \/ ClearTrie
  \/ UseProofCache
  \/ Exit
  \/ PowerLoss
  \/ PutOnDisk

DemoSpec == DemoInit /\ [][DemoNext]_demoVars

-----------------------------------------------------------------------------
(* Every variable has its type. *)
DemoTypeOK ==
  /\ journal \in Seq(DemoContents) /\ journal # <<>>
  /\ cached \in Roots \cup {NoRoot}
  /\ pc \in {"idle", "putHistory", "putCurrent", "clearHistory"}
  /\ arg \in Roots \cup {NoRoot}
  /\ stamp \in Times
  /\ now \in Times
  /\ outcome \in {"ok", "failed"}
  /\ stage \in {"closed", "updateRoot", "inUpdateRoot", "prove", "storeProof",
                "stored", "notStored", "other"}
  /\ run \in 0..MaxRuns
  /\ second \in Seconds
  /\ excused \subseteq Runs

(* Whatever a crash leaves of the store, the root of every proof in it is in the
   history in it: the trie is updated before the proof is stored, and the journal
   loses the later write first.  The exceptions are the runs that went on after
   UpdateRoot had failed, and those whose entries a Clear deleted. *)
ProvenRootsAreRecorded ==
  \A i \in DOMAIN journal : \A p \in journal[i].proofs :
    p.proof \notin excused => HasRoot(journal[i], p.root)

(* Of the two totals the demo prints, that of the proofs is at most that of the
   history entries, but for the same exceptions: each proof has an entry of its
   own, although all runs of one version have the same root.  Holds in whatever a
   crash leaves. *)
NoMoreProofsThanEntries ==
  \A i \in DOMAIN journal :
    ProofCount([proofs |-> {p \in journal[i].proofs : p.proof \notin excused}])
      <= Cardinality(journal[i].hist)

(* After a run has updated the trie and stored its proof, the trie's current root
   leads to a proof: the two components tell of the same root. *)
CurrentRootHasProof ==
  stage = "stored" /\ run \notin excused => GetProofByRoot(Store, GetCurrentRoot) # NoProof

(* A proof stays in the cache until somebody calls DeleteProof with its id, a power
   loss takes it, or a later run stores its own in the second the id tells.  No
   Clear of the trie takes proofs along, no commitment, no failed write and no
   program that ends halfway. *)
ProofsStay ==
  [][\A p \in Store.proofs \ Store'.proofs :
       \/ stage = "other" /\ DeleteProof(p.id)
       \/ PowerLoss
       \/ stage = "storeProof" /\ stage' = "stored" /\ second' = p.id]_demoVars
=============================================================================
