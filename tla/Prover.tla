------------------------------- MODULE Prover -------------------------------
(***************************************************************************)
(* pkg/prover: the proving and verification keys of a Prover, which Setup  *)
(* replaces, and the calls that use them.  Goroutines call the prover at   *)
(* the same time; an RWMutex is all that keeps a proof from being made, or *)
(* checked, in the middle of a Setup.                                      *)
(*                                                                         *)
(* groth16.Setup draws new randomness, so the keys are known by the number *)
(* of their setup; a proof is known by the setup of the proving key it was *)
(* made with, for whichever inputs.  The constraint system is left out:    *)
(* every compilation for a depth gives the same one.                       *)
(***************************************************************************)
EXTENDS Naturals, RWMutex

CONSTANTS
  Callers,       \* goroutines that share the prover
  MaxSetups      \* bound on the number of successful setups

ASSUME CallersAssumption == NoCaller \notin Callers
ASSUME MaxSetupsAssumption == MaxSetups \in Nat \ {0}

VARIABLES
  pk, vk,        \* Prover.pk and Prover.vk, by the number of their setup
  setups,        \* how many setups have drawn keys
  pc,            \* what each caller is doing
  seen,          \* the key a call has read and works with, 0 for none yet
  proofs,        \* proofs outside: in callers' hands, stored, on chain
  exported,      \* verification keys outside, and in standalone Verifiers
  answer         \* the last answer of a verification

keys == <<pk, vk, setups>>
outside == <<proofs, exported, answer>>
vars == <<mu, keys, pc, seen, outside>>

Reads == {"prove", "verify", "export"}
NoneSeen == [c \in Callers |-> 0]
Idle == [c \in Callers |-> "idle"]
Becomes(c, what) == pc' = [pc EXCEPT ![c] = what]

-----------------------------------------------------------------------------
(* NewProver hands out a prover whose first Setup succeeded, so that the checks
   of initialized in every call never fail. *)
Init ==
  /\ mu = Free
  /\ pk = 1 /\ vk = 1 /\ setups = 1
  /\ pc = Idle /\ seen = NoneSeen
  /\ proofs = {} /\ exported = {}
  /\ answer = [by |-> "nobody", proof |-> 0, valid |-> FALSE]

(* Setup: Lock ... *)
CallSetup(c) ==
  /\ pc[c] = "idle" /\ Becomes(c, "lock")
  /\ UNCHANGED <<mu, keys, seen, outside>>

LockForSetup(c) ==
  /\ pc[c] = "lock" /\ AskLock(c) /\ Becomes(c, "setup")
  /\ UNCHANGED <<keys, seen, outside>>

(* Mutations: the keys are dropped when Setup fails; the lock is kept. *)
SetupFailsWithoutKeys(c) ==
  /\ pc[c] = "setup" /\ Locked(c) /\ Unlock /\ Becomes(c, "idle")
  /\ pk' = 0 /\ vk' = 0
  /\ UNCHANGED <<setups, seen, outside>>
SetupFailsLocked(c) ==
  /\ pc[c] = "setup" /\ Locked(c) /\ Becomes(c, "idle")
  /\ UNCHANGED <<mu, keys, seen, outside>>

(* ... the compilation or groth16.Setup returns an error ... *)
SetupFails(c) ==
  /\ pc[c] = "setup" /\ Locked(c) /\ Unlock /\ Becomes(c, "idle")
  /\ UNCHANGED <<keys, seen, outside>>

(* Mutation: the lock is released between the two assignments. *)
SetPkAndUnlock(c) ==
  /\ pc[c] = "setup" /\ Locked(c) /\ setups < MaxSetups
  /\ setups' = setups + 1 /\ pk' = setups + 1 /\ Unlock /\ Becomes(c, "setVk")
  /\ UNCHANGED <<vk, seen, outside>>

(* ... or the two keys are assigned one after the other. *)
SetPk(c) ==
  /\ pc[c] = "setup" /\ Locked(c) /\ setups < MaxSetups
  /\ setups' = setups + 1 /\ pk' = setups + 1 /\ Becomes(c, "setVk")
  /\ UNCHANGED <<mu, vk, seen, outside>>

SetVk(c) ==
  /\ pc[c] = "setVk" /\ vk' = setups /\ Unlock /\ Becomes(c, "idle")
  /\ UNCHANGED <<pk, setups, seen, outside>>

(* Prove, Verify and VerifyWithProof, ExportVerificationKey and
   GetVerificationKey: RLock ... *)
CallRead(c, what) ==
  /\ pc[c] = "idle" /\ AskRLock(c) /\ Becomes(c, what)
  /\ UNCHANGED <<keys, seen, outside>>

(* ... work with the key ... *)
ReadKey(c) ==
  /\ pc[c] \in Reads /\ RLocked(c) /\ seen[c] = 0
  /\ seen' = [seen EXCEPT ![c] = IF pc[c] = "prove" THEN pk ELSE vk]
  /\ UNCHANGED <<mu, keys, pc, outside>>

Returns(c) ==
  /\ seen[c] # 0 /\ seen' = [seen EXCEPT ![c] = 0]
  /\ RUnlock(c) /\ Becomes(c, "idle")
  /\ UNCHANGED keys

(* ... and RUnlock.  A call that fails returns nothing. *)
ReadFails(c) == pc[c] \in Reads /\ Returns(c) /\ UNCHANGED outside

ProveReturns(c) ==
  /\ pc[c] = "prove" /\ Returns(c)
  /\ proofs' = proofs \cup {seen[c]} /\ UNCHANGED <<exported, answer>>

(* Mutation: the error of groth16.Verify is not looked at. *)
VerifySaysYes(c, p) ==
  /\ pc[c] = "verify" /\ Returns(c)
  /\ answer' = [by |-> "prover", proof |-> p, valid |-> TRUE] /\ UNCHANGED <<proofs, exported>>

VerifyReturns(c, p) ==
  /\ pc[c] = "verify" /\ Returns(c)
  /\ answer' = [by |-> "prover", proof |-> p, valid |-> p = seen[c]] /\ UNCHANGED <<proofs, exported>>

ExportReturns(c) ==
  /\ pc[c] = "export" /\ Returns(c)
  /\ exported' = exported \cup {seen[c]} /\ UNCHANGED <<proofs, answer>>

(* Verify of a standalone Verifier, made from an exported key. *)
StandaloneVerify(k, p) ==
  /\ answer' = [by |-> "verifier", proof |-> p, valid |-> p = k]
  /\ UNCHANGED <<mu, keys, pc, seen, proofs, exported>>

(* The process ends and a new one calls NewProver: keys are stored nowhere. *)
Restart ==
  /\ setups < MaxSetups
  /\ setups' = setups + 1 /\ pk' = setups + 1 /\ vk' = setups + 1
  /\ mu' = Free /\ pc' = Idle /\ seen' = NoneSeen
  /\ UNCHANGED outside

SetupStep(c) == SetupFails(c) \/ SetPk(c) \/ SetVk(c)
ReadStep(c) ==
  \/ ReadKey(c) \/ ReadFails(c) \/ ProveReturns(c) \/ ExportReturns(c)
  \/ \E p \in proofs : VerifyReturns(c, p)

Next ==
  \/ \E c \in Callers :
       \/ CallSetup(c) \/ LockForSetup(c) \/ SetupStep(c)
       \/ (\E what \in Reads : CallRead(c, what)) \/ ReadStep(c)
  \/ \E k \in exported, p \in proofs : StandaloneVerify(k, p)
  \/ Restart

Spec == Init /\ [][Next]_vars

(* A goroutine that can go on does.  The mutex among writers hands the lock to
   the one that waited longest, after a millisecond at most. *)
Fairness ==
  \A c \in Callers :
    WF_vars(SetupStep(c)) /\ WF_vars(ReadStep(c)) /\ SF_vars(LockForSetup(c))
FairSpec == Spec /\ Fairness

-----------------------------------------------------------------------------
(* Every variable has its type; once set up, a prover never is without keys. *)
TypeOK ==
  /\ mu \in [writer : Callers \cup {NoCaller}, readers : SUBSET Callers, waiting : SUBSET Callers]
  /\ pk \in 1..MaxSetups /\ vk \in 1..MaxSetups /\ setups \in 1..MaxSetups
  /\ pc \in [Callers -> {"idle", "lock", "setup", "setVk"} \cup Reads]
  /\ seen \in [Callers -> 0..MaxSetups]
  /\ proofs \subseteq 1..MaxSetups /\ exported \subseteq 1..MaxSetups
  /\ answer \in [by : {"nobody", "prover", "verifier"}, proof : 0..MaxSetups, valid : BOOLEAN]

(* From when a call reads its key until it returns, both keys of the prover are of
   one setup, the one the call works with, whatever Setups are asked for
   meanwhile. *)
CallsSeeOneSetup == \A c \in Callers : seen[c] # 0 => seen[c] = pk /\ seen[c] = vk

(* Calls of many goroutines come out as if each had happened at one moment: the
   prover implements ProverService, whose only key is here the pair of which vk
   is assigned last. *)
Service == INSTANCE ProverService WITH key <- vk
ImplementsProverService == Service!Spec

(* Every call returns: readers do not starve a Setup, Setups do not starve
   readers or each other, and no way out of a call keeps the lock. *)
EveryCallReturns == \A c \in Callers : pc[c] # "idle" ~> pc[c] = "idle"
=============================================================================
