---------------------------- MODULE ProverProofs ----------------------------
(***************************************************************************)
(* Proofs about Prover, for any number of goroutines and setups: the keys  *)
(* are never seen in the middle of a Setup, and the prover implements      *)
(* ProverService.                                                          *)
(***************************************************************************)
EXTENDS Prover, TLAPS

(* What the lock is worth: a caller past Lock is the writer, one past RLock a
   reader, and while a writer changes the keys nobody reads them. *)
WriterInv ==
  \A c \in Callers : pc[c] \in {"setup", "setVk"} <=> mu.writer = c
ReaderInv ==
  /\ mu.readers \cap mu.waiting = {}
  /\ \A c \in Callers :
      /\ c \in mu.readers \cup mu.waiting => pc[c] \in Reads
      /\ seen[c] # 0 => c \in mu.readers
      /\ pc[c] = "setVk" => mu.readers = {}

(* The keys are of one setup but between the two assignments of Setup. *)
KeysInv ==
  /\ vk <= setups
  /\ (\A c \in Callers : pc[c] # "setVk") => pk = vk
  /\ (\E c \in Callers : pc[c] = "setVk") => vk < setups /\ pk = setups

LockInv == TypeOK /\ WriterInv /\ ReaderInv /\ KeysInv /\ CallsSeeOneSetup

-----------------------------------------------------------------------------
USE CallersAssumption, MaxSetupsAssumption

LEMMA InitLock == Init => LockInv
  BY DEF Init, Free, Idle, NoneSeen, LockInv, TypeOK, WriterInv, ReaderInv, KeysInv, CallsSeeOneSetup, Reads

Locks == [writer : Callers \cup {NoCaller}, readers : SUBSET Callers, waiting : SUBSET Callers]

(* RUnlock takes the reader out and leaves the rest of the lock alone. *)
LEMMA RUnlockGives ==
  ASSUME mu \in Locks, NEW c \in Callers, RUnlock(c)
  PROVE  /\ mu' \in Locks /\ mu'.writer = mu.writer
         /\ mu'.readers = mu.readers \ {c} /\ mu'.waiting = mu.waiting
  BY DEF Locks, RUnlock

(* However a reading call returns, the lock and the other calls go on as before. *)
LEMMA ReturnsKeeps ==
  ASSUME LockInv, NEW c \in Callers, pc[c] \in Reads, Returns(c),
         proofs' \subseteq 1..MaxSetups, exported' \subseteq 1..MaxSetups,
         answer' \in [by : {"nobody", "prover", "verifier"}, proof : 0..MaxSetups, valid : BOOLEAN]
  PROVE  LockInv'
  <1> USE DEF LockInv, TypeOK, Becomes, keys
  <1>1. /\ mu' \in Locks /\ mu'.writer = mu.writer
        /\ mu'.readers = mu.readers \ {c} /\ mu'.waiting = mu.waiting
    BY RUnlockGives DEF Returns, Locks
  <1>2. TypeOK'
    BY <1>1 DEF Returns, Locks, Reads
  <1>3. (WriterInv /\ ReaderInv)'
    BY <1>1 DEF Returns, WriterInv, ReaderInv, CallsSeeOneSetup, Reads
  <1>4. (KeysInv /\ CallsSeeOneSetup)'
    BY DEF Returns, KeysInv, CallsSeeOneSetup, Reads
  <1>5. QED
    BY <1>2, <1>3, <1>4

LEMMA StepLock == LockInv /\ [Next]_vars => LockInv'
  <1> SUFFICES ASSUME LockInv, [Next]_vars PROVE LockInv'
    OBVIOUS
  <1> USE DEF LockInv, TypeOK, WriterInv, ReaderInv, KeysInv, CallsSeeOneSetup, Reads, Becomes, keys, outside
  <1>1. ASSUME NEW c \in Callers, CallSetup(c) PROVE LockInv'
    BY <1>1 DEF CallSetup
  <1>2. ASSUME NEW c \in Callers, LockForSetup(c) PROVE LockInv'
    BY <1>2 DEF LockForSetup, AskLock
  <1>3. ASSUME NEW c \in Callers, SetupFails(c) PROVE LockInv'
    BY <1>3 DEF SetupFails, Locked, Unlock
  <1>4. ASSUME NEW c \in Callers, SetPk(c) PROVE LockInv'
    BY <1>4 DEF SetPk, Locked
  <1>5. ASSUME NEW c \in Callers, SetVk(c) PROVE LockInv'
    BY <1>5 DEF SetVk, Unlock
  <1>6. ASSUME NEW c \in Callers, NEW what \in Reads, CallRead(c, what) PROVE LockInv'
    BY <1>6 DEF CallRead, AskRLock
  <1>7. ASSUME NEW c \in Callers, ReadKey(c) PROVE LockInv'
    BY <1>7 DEF ReadKey, RLocked
  <1>8. ASSUME NEW c \in Callers, ReadFails(c) PROVE LockInv'
    BY <1>8, ReturnsKeeps DEF ReadFails
  <1>9. ASSUME NEW c \in Callers, ProveReturns(c) PROVE LockInv'
    <2>1. proofs' \subseteq 1..MaxSetups
      BY <1>9 DEF ProveReturns, Returns
    <2>2. QED
      BY <1>9, <2>1, ReturnsKeeps DEF ProveReturns
  <1>10. ASSUME NEW c \in Callers, ExportReturns(c) PROVE LockInv'
    <2>1. exported' \subseteq 1..MaxSetups
      BY <1>10 DEF ExportReturns, Returns
    <2>2. QED
      BY <1>10, <2>1, ReturnsKeeps DEF ExportReturns
  <1>11. ASSUME NEW c \in Callers, NEW p \in proofs, VerifyReturns(c, p) PROVE LockInv'
    <2>1. (p = seen[c]) \in BOOLEAN /\ p \in 0..MaxSetups
      OBVIOUS
    <2>2. answer' \in [by : {"nobody", "prover", "verifier"}, proof : 0..MaxSetups, valid : BOOLEAN]
      BY <1>11, <2>1, Zenon DEF VerifyReturns
    <2>3. QED
      BY <1>11, <2>2, ReturnsKeeps DEF VerifyReturns
  <1>12. ASSUME NEW k \in exported, NEW p \in proofs, StandaloneVerify(k, p) PROVE LockInv'
    BY <1>12 DEF StandaloneVerify
  <1>13. CASE Restart
    BY <1>13 DEF Restart, Free, Idle, NoneSeen
  <1>14. CASE UNCHANGED vars
    BY <1>14 DEF vars
  <1>15. QED
    BY <1>1, <1>2, <1>3, <1>4, <1>5, <1>6, <1>7, <1>8, <1>9, <1>10, <1>11, <1>12, <1>13, <1>14 DEF Next, SetupStep, ReadStep

-----------------------------------------------------------------------------
LEMMA LockSafety == Spec => []LockInv
  <1>1. Init => LockInv
    BY InitLock
  <1>2. LockInv /\ [Next]_vars => LockInv'
    BY StepLock
  <1>3. QED
    BY <1>1, <1>2, PTL DEF Spec

(* Every variable of a prover keeps its type; in particular it always has keys
   (prover.go, Setup), whatever setups fail. *)
THEOREM ProverTypeCorrect == Spec => []TypeOK
  <1>1. LockInv => TypeOK
    BY DEF LockInv
  <1>2. QED
    BY <1>1, LockSafety, PTL

(* Prove, Verify and the exports each work with the keys of one setup, however
   many goroutines call the prover and Setup. *)
THEOREM KeySafety == Spec => []CallsSeeOneSetup
  <1>1. LockInv => CallsSeeOneSetup
    BY DEF LockInv
  <1>2. QED
    BY <1>1, LockSafety, PTL

-----------------------------------------------------------------------------
LEMMA InitService == Init => Service!Init
  BY DEF Init, Service!Init

LEMMA StepService == LockInv /\ [Next]_vars => [Service!Next]_(Service!vars)
  <1> SUFFICES ASSUME LockInv, [Next]_vars PROVE [Service!Next]_(Service!vars)
    OBVIOUS
  <1> USE DEF keys, outside
  <1>1. ASSUME NEW c \in Callers, CallSetup(c) \/ LockForSetup(c) \/ SetupFails(c) \/ SetPk(c)
        PROVE UNCHANGED Service!vars
    BY <1>1 DEF CallSetup, LockForSetup, SetupFails, SetPk, Service!vars
  <1>2. ASSUME NEW c \in Callers, SetVk(c) PROVE Service!Rekey
    BY <1>2 DEF SetVk, Service!Rekey, LockInv, TypeOK, KeysInv
  <1>3. ASSUME NEW c \in Callers, NEW what \in Reads, CallRead(c, what) PROVE UNCHANGED Service!vars
    BY <1>3 DEF CallRead, Service!vars
  <1>4. ASSUME NEW c \in Callers, ReadKey(c) \/ ReadFails(c) PROVE UNCHANGED Service!vars
    BY <1>4 DEF ReadKey, ReadFails, Returns, Service!vars
  <1>5. ASSUME NEW c \in Callers, Returns(c) PROVE seen[c] = vk /\ vk' = vk
    BY <1>5 DEF Returns, LockInv, CallsSeeOneSetup
  <1>6. ASSUME NEW c \in Callers, ProveReturns(c) PROVE Service!Prove
    BY <1>5, <1>6 DEF ProveReturns, Service!Prove
  <1>7. ASSUME NEW c \in Callers, ExportReturns(c) PROVE Service!Export
    BY <1>5, <1>7 DEF ExportReturns, Service!Export
  <1>8. ASSUME NEW c \in Callers, NEW p \in proofs, VerifyReturns(c, p)
        PROVE Service!Says("prover", p, vk)
    BY <1>5, <1>8 DEF VerifyReturns, Service!Says
  <1>9. ASSUME NEW k \in exported, NEW p \in proofs, StandaloneVerify(k, p)
        PROVE Service!Says("verifier", p, k)
    BY <1>9 DEF StandaloneVerify, Service!Says
  <1>10. CASE Restart
    <2>1. Service!Rekey
      BY <1>10 DEF Restart, Service!Rekey, LockInv, TypeOK, KeysInv
    <2>2. QED
      BY <2>1 DEF Service!Next
  <1>11. CASE UNCHANGED vars
    BY <1>11 DEF vars, Service!vars
  <1>12. QED
    BY <1>1, <1>2, <1>3, <1>4, <1>6, <1>7, <1>8, <1>9, <1>10, <1>11
       DEF Next, SetupStep, ReadStep, Service!Next

(* Calls of many goroutines come out as if each had happened at one moment, with
   Setups and restarts between them: the prover implements ProverService. *)
THEOREM ProverRefinement == Spec => ImplementsProverService
  <1>1. Init => Service!Init
    BY InitService
  <1>2. LockInv /\ [Next]_vars => [Service!Next]_(Service!vars)
    BY StepService
  <1>3. QED
    BY <1>1, <1>2, LockSafety, PTL DEF Spec, ImplementsProverService, Service!Spec
=============================================================================
