----------------------------- MODULE DemoProofs -----------------------------
(***************************************************************************)
(* Proofs about Demo, for every set of roots and all bounds on runs and    *)
(* clocks.  The lemmas about the store's journal are those of              *)
(* StateTrieProofs, which hold for contents of any kind.                   *)
(***************************************************************************)
EXTENDS Demo, StateTrieProofs

-----------------------------------------------------------------------------
(* What each write does to the contents. *)

LEMMA DemoWithHistory ==
  ASSUME NEW s \in DemoContents, NEW r \in Roots, NEW k \in Times, NEW t \in Times
  PROVE  /\ WithHistory(s, k, r, t) \in DemoContents
         /\ WithHistory(s, k, r, t).cur = s.cur
         /\ WithHistory(s, k, r, t).proofs = s.proofs
         /\ WithHistory(s, k, r, t).hist =
              {e \in s.hist : e.key # k} \cup {[key |-> k, root |-> r, ts |-> t]}
BY DEF DemoContents, Entry, WithHistory

LEMMA DemoWithCurrent ==
  ASSUME NEW s \in DemoContents, NEW r \in Roots \cup {NoRoot}
  PROVE  /\ WithCurrent(s, r) \in DemoContents
         /\ WithCurrent(s, r).cur = r
         /\ WithCurrent(s, r).hist = s.hist
         /\ WithCurrent(s, r).proofs = s.proofs
BY DEF DemoContents, WithCurrent

LEMMA DemoWithoutHistory ==
  ASSUME NEW s \in DemoContents
  PROVE  /\ WithoutHistory(s) \in DemoContents
         /\ WithoutHistory(s).cur = s.cur
         /\ WithoutHistory(s).hist = {}
         /\ WithoutHistory(s).proofs = s.proofs
BY DEF DemoContents, WithoutHistory

LEMMA DemoWithProof ==
  ASSUME NEW s \in DemoContents, NEW p \in Proof
  PROVE  /\ WithProof(s, p) \in DemoContents
         /\ WithProof(s, p).cur = s.cur
         /\ WithProof(s, p).hist = s.hist
         /\ WithProof(s, p).proofs \subseteq s.proofs \cup {p}
BY DEF DemoContents, WithProof

LEMMA DemoWithoutProof ==
  ASSUME NEW s \in DemoContents, NEW id
  PROVE  /\ WithoutProof(s, id) \in DemoContents
         /\ WithoutProof(s, id).cur = s.cur
         /\ WithoutProof(s, id).hist = s.hist
         /\ WithoutProof(s, id).proofs \subseteq s.proofs
BY DEF DemoContents, WithoutProof

LEMMA DemoWithCommitment ==
  ASSUME NEW s \in DemoContents, NEW id \in Commitments
  PROVE  /\ WithCommitment(s, id) \in DemoContents
         /\ WithCommitment(s, id).cur = s.cur
         /\ WithCommitment(s, id).hist = s.hist
         /\ WithCommitment(s, id).proofs = s.proofs
BY DEF DemoContents, WithCommitment

-----------------------------------------------------------------------------
(* Type correctness. *)

(* The stages at which a run has a root, and the link between the stage of a
   program and how far its operation on the trie has got. *)
StageOK ==
  /\ stage \in {"prove", "storeProof", "stored", "notStored"} => arg \in Roots /\ run \in Runs
  /\ stage = "inUpdateRoot" => run \in Runs /\ pc \in {"putHistory", "putCurrent"}
  /\ stage \in {"updateRoot", "prove", "storeProof", "stored", "notStored"} => pc = "idle"
  /\ stage = "updateRoot" => run \in Runs
  /\ stage = "other" => pc \in {"idle", "clearHistory"}

DemoType == DemoTypeOK /\ ArgIsRoot /\ StageOK

LEMMA DemoTypeInit == DemoInit => DemoType
BY TimeAssumption, DemoBoundsAssumption
   DEF DemoInit, InitTrie, DemoType, DemoTypeOK, ArgIsRoot, StageOK, DemoContents, Times,
       Runs, Seconds

LEMMA DemoTypeStep == DemoType /\ [DemoNext]_demoVars => DemoType'
<1> SUFFICES ASSUME DemoType, [DemoNext]_demoVars PROVE DemoType'
  OBVIOUS
<1> USE DEF DemoType, DemoTypeOK, ArgIsRoot, StageOK
<1>0. Store \in DemoContents /\ run \in Nat /\ MaxRuns \in Nat
  BY StoreIsKept, DemoBoundsAssumption
<1>1. ASSUME ProcessRestart, UNCHANGED <<second, excused>>,
             \/ stage' = "updateRoot" /\ run < MaxRuns /\ run' = run + 1
             \/ stage' = "other" /\ run' = run
      PROVE  DemoType'
  <2>1. PICK n : Reopen(n) /\ NewStateTrie /\ outcome' \in {"ok", "failed"}
    BY <1>1 DEF ProcessRestart
  <2>2. journal' \in Seq(DemoContents) /\ journal' # << >> /\ journal'[1] \in DemoContents
    BY <2>1, ReopenKeeps, StoreIsKept
  <2>3. cached' \in Roots \cup {NoRoot} /\ pc' = "idle"
    BY <2>1, <2>2 DEF NewStateTrie, DemoContents
  <2>4. QED
    BY <1>0, <1>1, <2>1, <2>2, <2>3 DEF NewStateTrie, Runs
<1>2. ASSUME NEW r \in Roots, NEW t \in Times, CallUpdateRoot(r, t)
      PROVE  DemoType'
  BY <1>2 DEF CallUpdateRoot, BeginUpdate, ReadClock
<1>3. ASSUME NEW t \in Times, InUpdateRoot(t)
      PROVE  DemoType'
  <2>1. CASE PutHistory(t)
    <3>1. WithHistory(Store, t, arg, stamp) \in DemoContents
      BY <1>0, <2>1, DemoWithHistory DEF PutHistory
    <3>2. journal' \in Seq(DemoContents) /\ journal' # << >>
      BY <2>1, <3>1, WriteKeeps DEF PutHistory, FailedWrite
    <3>3. QED
      BY <1>3, <2>1, <3>2 DEF InUpdateRoot, PutHistory, ReadClock, Done
  <2>2. CASE PutCurrent
    <3>1. WithCurrent(Store, arg) \in DemoContents
      BY <1>0, <2>2, DemoWithCurrent DEF PutCurrent
    <3>2. journal' \in Seq(DemoContents) /\ journal' # << >>
      BY <2>2, <3>1, WriteKeeps DEF PutCurrent, FailedWrite
    <3>3. QED
      BY <1>3, <2>2, <3>2 DEF InUpdateRoot, PutCurrent, Done
  <2>3. QED
    BY <1>3, <2>1, <2>2 DEF InUpdateRoot
<1>4. CASE ProveAndVerify
  BY <1>4 DEF ProveAndVerify, vars, trieVars
<1>5. ASSUME NEW s \in Seconds, CallStoreProof(s), ProofID(s) \in Seconds
      PROVE  DemoType'
  <2> DEFINE p == [id |-> ProofID(s), root |-> arg, proof |-> run]
  <2>1. p \in Proof
    BY <1>5 DEF CallStoreProof, Proof
  <2>2. WithProof(Store, p) \in DemoContents
    BY <1>0, <2>1, DemoWithProof
  <2>3. journal' \in Seq(DemoContents) /\ journal' # << >>
    BY <1>5, <2>2, WriteKeeps DEF CallStoreProof, FailedWrite
  <2>4. QED
    BY <1>5, <2>3 DEF CallStoreProof, trieVars
<1>6. CASE ClearTrie
  <2>1. WithCurrent(Store, NoRoot) \in DemoContents /\ WithoutHistory(Store) \in DemoContents
    BY <1>0, DemoWithCurrent, DemoWithoutHistory
  <2>2. journal' \in Seq(DemoContents) /\ journal' # << >>
    BY <1>6, <2>1, WriteKeeps DEF ClearTrie, ClearCurrent, ClearHistory, FailedWrite
  <2>3. 1..run \subseteq Runs
    BY <1>0 DEF Runs
  <2>4. QED
    BY <1>6, <2>2, <2>3 DEF ClearTrie, ClearCurrent, ClearHistory, Done
<1>7. CASE UseProofCache
  <2>1. \A id \in Seconds : WithoutProof(Store, id) \in DemoContents
    BY <1>0, DemoWithoutProof
  <2>2. \A id \in Commitments : WithCommitment(Store, id) \in DemoContents
    BY <1>0, DemoWithCommitment
  <2>3. journal' \in Seq(DemoContents) /\ journal' # << >>
    BY <1>7, <2>1, <2>2, WriteKeeps DEF UseProofCache, DeleteProof, StoreCommitment, FailedWrite
  <2>4. QED
    BY <1>7, <2>3 DEF UseProofCache, trieVars
<1>8. CASE Exit
  BY <1>8 DEF Exit, vars, trieVars
<1>9. CASE PowerLoss
  <2>1. PICK n : Reopen(n)
    BY <1>9 DEF PowerLoss, MachineRestart
  <2>2. journal' \in Seq(DemoContents) /\ journal' # << >> /\ journal'[1] \in DemoContents
    BY <2>1, ReopenKeeps, StoreIsKept
  <2>3. cached' \in Roots \cup {NoRoot}
    BY <1>9, <2>2 DEF PowerLoss, MachineRestart, NewStateTrie, DemoContents
  <2>4. QED
    BY <1>9, <2>2, <2>3 DEF PowerLoss, MachineRestart, NewStateTrie
<1>10. CASE PutOnDisk
  <2>1. journal' \in Seq(DemoContents) /\ journal' # << >>
    BY <1>10, WriteBackKeeps DEF PutOnDisk, StoreWriteBack
  <2>2. QED
    BY <1>10, <2>1 DEF PutOnDisk, StoreWriteBack, trieVars
<1>11. CASE UNCHANGED demoVars
  BY <1>11 DEF demoVars, vars, trieVars
<1>12. \A s \in Seconds : ProofID(s) \in Seconds
  BY DEF ProofID
<1>13. QED
  BY <1>1, <1>2, <1>3, <1>4, <1>5, <1>6, <1>7, <1>8, <1>9, <1>10, <1>11, <1>12
     DEF DemoNext, StartRun, OpenStore

(* Every variable of the demo and of the store it works on has its type, whatever
   fails and whatever crashes, with any clock. *)
THEOREM DemoTypeCorrect == DemoSpec => []DemoTypeOK
<1>1. DemoSpec => []DemoType
  BY DemoTypeInit, DemoTypeStep, PTL DEF DemoSpec
<1>2. DemoType => DemoTypeOK
  BY DEF DemoType
<1>3. QED
  BY <1>1, <1>2, PTL

-----------------------------------------------------------------------------
(* A proof in the store has its root in the history in it.                   *)

(* ProvenRootsAreRecorded is not inductive.  A new entry must not overwrite the
   one of a proof (KeysArePast); a proof that is about to be stored must find its
   root recorded, which PutHistory saw to several steps before; and for a Clear to
   excuse all runs it must know all whose proofs are stored (no proof is of a run
   still to come). *)
ProofsRecorded(s, exc) == \A p \in s.proofs : p.proof \notin exc => HasRoot(s, p.root)
ProofsArePast(s, n) == \A p \in s.proofs : p.proof \in 1..n

DemoSafe ==
  /\ \A s \in Kept : /\ ProofsRecorded(s, excused)
                      /\ ProofsArePast(s, run)
                      /\ KeysArePast(s, now)
  /\ stage = "inUpdateRoot" /\ pc = "putCurrent" => HasRoot(Store, arg)
  /\ stage \in {"prove", "storeProof"} /\ run \notin excused => HasRoot(Store, arg)

LEMMA DemoSafeInit == DemoInit => DemoSafe
BY DEF DemoInit, InitTrie, DemoSafe, Kept, ProofsRecorded, ProofsArePast, KeysArePast

LEMMA NewEntry ==
  ASSUME NEW s \in DemoContents, NEW u, NEW r, NEW t \in Nat, NEW ts, NEW n \in Nat, n < t,
         KeysArePast(s, n), \A e \in s.hist : e.key \in Nat,
         u.hist = {e \in s.hist : e.key # t} \cup {[key |-> t, root |-> r, ts |-> ts]}
  PROVE  /\ KeysArePast(u, t)
         /\ HasRoot(u, r)
         /\ \A q : HasRoot(s, q) => HasRoot(u, q)
<1>1. \A e \in s.hist : e.key # t /\ e.key <= t
  BY DEF KeysArePast
<1> DEFINE f == [key |-> t, root |-> r, ts |-> ts]
<1>2. f.key = t /\ f.root = r
  OBVIOUS
<1> HIDE DEF f
<1>3. u.hist = s.hist \cup {f}
  BY <1>1 DEF f
<1>4. QED
  BY <1>1, <1>2, <1>3 DEF KeysArePast, HasRoot

(* A write that keeps the history and adds no proof, and that no stage depends on. *)
LEMMA SameHistory ==
  ASSUME DemoSafe, NEW s, s.hist = Store.hist, s.proofs \subseteq Store.proofs, Store \in Kept
  PROVE  /\ ProofsRecorded(s, excused) /\ ProofsArePast(s, run) /\ KeysArePast(s, now)
         /\ \A q : HasRoot(s, q) <=> HasRoot(Store, q)
BY DEF DemoSafe, ProofsRecorded, ProofsArePast, KeysArePast, HasRoot

LEMMA DemoSafeStep ==
  ASSUME StrictClock, DemoType, DemoType', DemoSafe, [DemoNext]_demoVars
  PROVE  DemoSafe'
<1>0. /\ journal \in Seq(DemoContents) /\ journal # << >>
      /\ Store \in DemoContents /\ Store \in Kept
      /\ now \in Nat /\ run \in Nat /\ run' \in Nat
      /\ \A s \in Kept : s \in DemoContents /\ \A e \in s.hist : e.key \in Nat
  <2>1. journal \in Seq(DemoContents) /\ journal # << >> /\ now \in Times /\ run \in Nat
        /\ run' \in Nat
    BY DEF DemoType, DemoTypeOK
  <2>2. Store \in DemoContents /\ Store \in Kept
    BY <2>1, StoreIsKept
  <2>3. \A s \in Kept : s \in DemoContents
    BY <2>1 DEF Kept
  <2>4. QED
    BY <2>1, <2>2, <2>3, TimeAssumption DEF Times, DemoContents, Entry
<1>1. ASSUME NEW n, Reopen(n), pc' = "idle", now' = now, excused' = excused,
             stage' \in {"updateRoot", "other", "closed"}, run' \in {run, run + 1}
      PROVE  DemoSafe'
  <2>1. Kept' \subseteq Kept
    BY <1>0, <1>1, ReopenKeeps
  <2>2. \A s \in Kept' : ProofsRecorded(s, excused') /\ ProofsArePast(s, run') /\ KeysArePast(s, now')
    BY <1>0, <1>1, <2>1 DEF DemoSafe, ProofsArePast
  <2>3. QED
    BY <1>1, <2>2 DEF DemoSafe
<1>2. ASSUME NEW r \in Roots, NEW t \in Times, CallUpdateRoot(r, t)
      PROVE  DemoSafe'
  <2>1. journal' = journal /\ now < t /\ t \in Nat /\ now' = t /\ pc' = "putHistory"
        /\ UNCHANGED <<run, excused>> /\ stage' = "inUpdateRoot"
    BY <1>2, TimeAssumption DEF CallUpdateRoot, BeginUpdate, ReadClock, Times
  <2>2. \A s \in Kept : KeysArePast(s, t)
    BY <1>0, <2>1 DEF DemoSafe, KeysArePast
  <2>3. QED
    BY <2>1, <2>2 DEF DemoSafe, Kept
<1>3. ASSUME NEW t \in Times, InUpdateRoot(t), PutHistory(t)
      PROVE  DemoSafe'
  <2> DEFINE s == WithHistory(Store, t, arg, stamp)
  <2>1. /\ arg \in Roots /\ stamp \in Times /\ arg' = arg /\ run' = run
        /\ now < t /\ t \in Nat /\ now' = t
        /\ stage = "inUpdateRoot" /\ stage' \in {"inUpdateRoot", "prove"}
        /\ excused \subseteq excused'
    BY <1>3, TimeAssumption
       DEF DemoType, DemoTypeOK, ArgIsRoot, InUpdateRoot, PutHistory, ReadClock, Times
  <2>2. \A c \in Kept : KeysArePast(c, t) /\ ProofsRecorded(c, excused')
    BY <1>0, <2>1 DEF DemoSafe, KeysArePast, ProofsRecorded
  <2>3. CASE Write(s) /\ pc' = "putCurrent"
    <3>1. /\ s \in DemoContents /\ s.proofs = Store.proofs
          /\ s.hist = {e \in Store.hist : e.key # t} \cup {[key |-> t, root |-> arg, ts |-> stamp]}
      BY <1>0, <2>1, DemoWithHistory
    <3> HIDE DEF s
    <3>2. KeysArePast(Store, now)
      BY <1>0 DEF DemoSafe
    <3>3. KeysArePast(s, t) /\ HasRoot(s, arg) /\ \A q : HasRoot(Store, q) => HasRoot(s, q)
      BY <1>0, <2>1, <3>1, <3>2, NewEntry
    <3>4. ProofsRecorded(s, excused') /\ ProofsArePast(s, run)
      BY <1>0, <2>2, <3>1, <3>3 DEF DemoSafe, ProofsRecorded, ProofsArePast
    <3>5. Store' = s /\ Kept' \subseteq Kept \cup {s}
      BY <1>0, <2>3, <3>1, WriteKeeps
    <3>6. stage' = "inUpdateRoot"
      BY <1>3, <2>3 DEF InUpdateRoot
    <3>7. QED
      BY <2>1, <2>2, <3>3, <3>4, <3>5, <3>6 DEF DemoSafe
  <2>4. CASE FailedWrite /\ pc' = "idle" /\ outcome' = "failed"
    <3>1. run' \in excused' /\ stage' = "prove"
      BY <1>3, <2>1, <2>4 DEF InUpdateRoot
    <3>2. Kept' = Kept
      BY <2>4 DEF FailedWrite, Kept
    <3>3. QED
      BY <2>1, <2>2, <3>1, <3>2 DEF DemoSafe
  <2>5. QED
    BY <1>3, <2>3, <2>4 DEF PutHistory, Done
<1>4. ASSUME NEW t \in Times, InUpdateRoot(t), PutCurrent
      PROVE  DemoSafe'
  <2> DEFINE s == WithCurrent(Store, arg)
  <2>1. /\ arg \in Roots /\ arg' = arg /\ run' = run /\ now' = now /\ HasRoot(Store, arg)
        /\ stage' = "prove" /\ excused \subseteq excused'
    BY <1>4 DEF DemoType, ArgIsRoot, InUpdateRoot, PutCurrent, Done, DemoSafe
  <2>2. \A c \in Kept : ProofsRecorded(c, excused')
    BY <2>1 DEF DemoSafe, ProofsRecorded
  <2>3. CASE Write(s)
    <3>1. s \in DemoContents /\ s.hist = Store.hist /\ s.proofs = Store.proofs
      BY <1>0, <2>1, DemoWithCurrent
    <3> HIDE DEF s
    <3>2. Store' = s /\ Kept' \subseteq Kept \cup {s}
      BY <1>0, <2>3, <3>1, WriteKeeps
    <3>3. ProofsRecorded(s, excused') /\ ProofsArePast(s, run) /\ KeysArePast(s, now) /\ HasRoot(s, arg)
      BY <1>0, <2>1, <2>2, <3>1, SameHistory DEF ProofsRecorded
    <3>4. QED
      BY <2>1, <2>2, <3>2, <3>3 DEF DemoSafe
  <2>4. CASE FailedWrite
    BY <2>1, <2>2, <2>4 DEF FailedWrite, DemoSafe, Store, Kept
  <2>5. QED
    BY <1>4, <2>3, <2>4 DEF PutCurrent
<1>5. CASE ProveAndVerify
  BY <1>5 DEF ProveAndVerify, vars, trieVars, DemoSafe, Store, Kept
<1>6. ASSUME NEW c \in Seconds, CallStoreProof(c)
      PROVE  DemoSafe'
  <2> DEFINE p == [id |-> ProofID(c), root |-> arg, proof |-> run]
             s == WithProof(Store, p)
  <2>1. /\ stage = "storeProof" /\ stage' \in {"stored", "notStored"}
        /\ UNCHANGED <<trieVars, run, excused>> /\ run \in 1..run /\ arg \in Roots /\ run \in Runs
    BY <1>0, <1>6 DEF CallStoreProof, DemoType, StageOK, Runs
  <2>2. p \in Proof /\ p.proof = run /\ p.root = arg
    BY <1>6, <2>1 DEF Proof, ProofID
  <2>3. CASE Write(s)
    <3> HIDE DEF p
    <3>1. s \in DemoContents /\ s.hist = Store.hist /\ s.proofs \subseteq Store.proofs \cup {p}
      BY <1>0, <2>2, DemoWithProof
    <3> HIDE DEF s
    <3>2. Store' = s /\ Kept' \subseteq Kept \cup {s}
      BY <1>0, <2>3, <3>1, WriteKeeps
    <3>3. run \notin excused => HasRoot(s, arg)
      BY <2>1, <3>1 DEF DemoSafe, HasRoot
    <3>4. ProofsRecorded(s, excused) /\ ProofsArePast(s, run) /\ KeysArePast(s, now)
      BY <1>0, <2>1, <2>2, <3>1, <3>3
         DEF DemoSafe, ProofsRecorded, ProofsArePast, KeysArePast, HasRoot
    <3>5. QED
      BY <2>1, <3>2, <3>4 DEF DemoSafe, trieVars
  <2>4. CASE FailedWrite
    BY <2>1, <2>4 DEF FailedWrite, DemoSafe, Store, Kept, trieVars
  <2>5. QED
    BY <1>6, <2>3, <2>4 DEF CallStoreProof
<1>7. ASSUME ClearTrie, ClearCurrent
      PROVE  DemoSafe'
  <2> DEFINE s == WithCurrent(Store, NoRoot)
  <2>1. UNCHANGED <<stage, run, now, excused>> /\ stage = "other"
    BY <1>7 DEF ClearTrie, ClearCurrent, ClearHistory
  <2>2. CASE Write(s)
    <3>1. s \in DemoContents /\ s.hist = Store.hist /\ s.proofs = Store.proofs
      BY <1>0, DemoWithCurrent
    <3> HIDE DEF s
    <3>2. Store' = s /\ Kept' \subseteq Kept \cup {s}
      BY <1>0, <2>2, <3>1, WriteKeeps
    <3>3. ProofsRecorded(s, excused) /\ ProofsArePast(s, run) /\ KeysArePast(s, now)
      BY <1>0, <3>1, SameHistory
    <3>4. QED
      BY <2>1, <3>2, <3>3 DEF DemoSafe
  <2>3. CASE FailedWrite
    BY <2>1, <2>3 DEF FailedWrite, DemoSafe, Store, Kept
  <2>4. QED
    BY <1>7, <2>2, <2>3 DEF ClearCurrent
<1>8. ASSUME ClearTrie, ClearHistory
      PROVE  DemoSafe'
  <2> DEFINE s == WithoutHistory(Store)
  <2>1. UNCHANGED <<stage, run, now>> /\ stage = "other" /\ excused' = 1..run
    BY <1>8 DEF ClearTrie, ClearCurrent, ClearHistory
  <2>2. \A c \in Kept : ProofsRecorded(c, excused')
    BY <2>1 DEF DemoSafe, ProofsRecorded, ProofsArePast
  <2>3. CASE Write(s)
    <3>1. s \in DemoContents /\ s.hist = {} /\ s.proofs = Store.proofs
      BY <1>0, DemoWithoutHistory
    <3> HIDE DEF s
    <3>2. Store' = s /\ Kept' \subseteq Kept \cup {s}
      BY <1>0, <2>3, <3>1, WriteKeeps
    <3>3. ProofsRecorded(s, excused') /\ ProofsArePast(s, run) /\ KeysArePast(s, now)
      BY <1>0, <2>1, <3>1 DEF DemoSafe, ProofsRecorded, ProofsArePast, KeysArePast
    <3>4. QED
      BY <2>1, <2>2, <3>2, <3>3 DEF DemoSafe
  <2>4. CASE FailedWrite
    BY <2>1, <2>2, <2>4 DEF FailedWrite, DemoSafe, Store, Kept
  <2>5. QED
    BY <1>8, <2>3, <2>4 DEF ClearHistory
<1>9. CASE UseProofCache
  <2>1. UNCHANGED <<trieVars, stage, run, excused>> /\ stage = "other"
    BY <1>9 DEF UseProofCache
  <2>2. ASSUME NEW s \in DemoContents, Write(s), s.hist = Store.hist, s.proofs \subseteq Store.proofs
        PROVE  DemoSafe'
    <3>1. Store' = s /\ Kept' \subseteq Kept \cup {s}
      BY <1>0, <2>2, WriteKeeps
    <3>2. ProofsRecorded(s, excused) /\ ProofsArePast(s, run) /\ KeysArePast(s, now)
      BY <1>0, <2>2, SameHistory
    <3>3. QED
      BY <2>1, <3>1, <3>2 DEF DemoSafe, trieVars
  <2>3. CASE FailedWrite
    BY <2>1, <2>3 DEF FailedWrite, DemoSafe, Store, Kept, trieVars
  <2>4. QED
    BY <1>0, <1>9, <2>2, <2>3, DemoWithoutProof, DemoWithCommitment
       DEF UseProofCache, DeleteProof, StoreCommitment
<1>10. CASE Exit
  BY <1>10 DEF Exit, vars, trieVars, DemoSafe, Store, Kept
<1>11. CASE PutOnDisk
  <2>1. Store' = Store /\ Kept' \subseteq Kept
    BY <1>0, <1>11, WriteBackKeeps DEF PutOnDisk, StoreWriteBack
  <2>2. QED
    BY <1>11, <2>1 DEF PutOnDisk, StoreWriteBack, trieVars, DemoSafe
<1>12. CASE UNCHANGED demoVars
  BY <1>12 DEF demoVars, vars, trieVars, DemoSafe, Store, Kept
<1>13. QED
  BY <1>1, <1>2, <1>3, <1>4, <1>5, <1>6, <1>7, <1>8, <1>9, <1>10, <1>11, <1>12
     DEF DemoNext, StartRun, OpenStore, PowerLoss, ProcessRestart, MachineRestart, NewStateTrie,
         InUpdateRoot, ClearTrie

LEMMA DemoSafeAlways == StrictClock => (DemoSpec => [](DemoType /\ DemoSafe))
<1> SUFFICES ASSUME StrictClock PROVE DemoSpec => [](DemoType /\ DemoSafe)
  OBVIOUS
<1>1. DemoInit => DemoType /\ DemoSafe
  BY DemoTypeInit, DemoSafeInit
<1>2. DemoType /\ DemoSafe /\ [DemoNext]_demoVars => (DemoType /\ DemoSafe)'
  BY DemoTypeStep, DemoSafeStep
<1>3. QED
  BY <1>1, <1>2, PTL DEF DemoSpec

(* As long as the clock does not repeat a reading, no crash in any sequence of
   runs, clears and deletions leaves a proof whose root the history does not know,
   but for the runs that had the warning or whose entries were cleared. *)
THEOREM ProofsFollowRoots == StrictClock => (DemoSpec => []ProvenRootsAreRecorded)
<1>1. DemoSafe => ProvenRootsAreRecorded
  BY DEF DemoSafe, Kept, ProofsRecorded, ProvenRootsAreRecorded
<1>2. QED
  BY <1>1, DemoSafeAlways, PTL

-----------------------------------------------------------------------------
(* The store of the demo, with the proof cache in it, is a RootLog.          *)

LEMMA DemoSeenType == \A s \in DemoContents : Seen(s) \in LogState
BY DEF DemoContents, Entry, Seen, RootsOf, LogState

(* What the steps of the log need to have happened before. *)
DemoLogInv ==
  /\ \A s \in Kept : RootRecorded(s)
  /\ pc = "putCurrent" => HasRoot(Store, arg)
  /\ pc = "clearHistory" => Store.cur = NoRoot

LEMMA DemoLogInit == DemoInit => DemoLogInv /\ Log!Init
<1> SUFFICES ASSUME DemoInit PROVE DemoLogInv /\ Log!Init
  OBVIOUS
<1> DEFINE s == [hist |-> {}, cur |-> NoRoot, proofs |-> {}, commitments |-> {}]
<1>1. s.hist = {} /\ s.cur = NoRoot /\ journal = <<s>> /\ pc = "idle"
  BY DEF DemoInit, InitTrie
<1> HIDE DEF s
<1>2. DemoLogInv
  BY <1>1 DEF DemoLogInv, Kept, RootRecorded
<1>3. Seen(s) = [recorded |-> {}, current |-> NoRoot]
  BY <1>1 DEF Seen, RootsOf
<1>4. LogStates = <<Seen(s)>>
  BY <1>1 DEF LogStates
<1>5. QED
  BY <1>2, <1>3, <1>4 DEF Log!Init

(* A write of a contents whose root is recorded. *)
LEMMA LoggedWrite ==
  ASSUME DemoType, DemoLogInv, NEW s \in DemoContents, Write(s), RootRecorded(s)
  PROVE  /\ Store' = s /\ \A c \in Kept' : RootRecorded(c)
         /\ Log!Becomes(Seen(s)) \/ UNCHANGED LogStates
         /\ Log!Latest = Seen(Store)
<1>1. journal \in Seq(DemoContents) /\ journal # << >>
  BY DEF DemoType, DemoTypeOK
<1>2. Store' = s /\ Kept' \subseteq Kept \cup {s}
  BY <1>1, WriteKeeps
<1>3. Log!Latest = Seen(Store) /\ (Log!Becomes(Seen(s)) \/ UNCHANGED LogStates)
  BY <1>1, DemoSeenType, LogWrite, LogStatesType
<1>4. QED
  BY <1>2, <1>3 DEF DemoLogInv

(* A write that does not concern the trie repeats the last state of the log. *)
LEMMA OtherWrite ==
  ASSUME DemoType, DemoLogInv, pc = "idle", pc' = "idle", NEW s \in DemoContents, Write(s),
         s.hist = Store.hist, s.cur = Store.cur
  PROVE  DemoLogInv' /\ (Log!Next \/ UNCHANGED LogStates)
<1>1. Store \in DemoContents /\ Store \in Kept
  BY StoreIsKept DEF DemoType, DemoTypeOK
<1>2. RootRecorded(s) /\ RootRecorded(Store)
  BY <1>1 DEF DemoLogInv, RootRecorded, HasRoot
<1>3. /\ \A c \in Kept' : RootRecorded(c)
      /\ Log!Becomes(Seen(s)) \/ UNCHANGED LogStates
      /\ Log!Latest = Seen(Store)
  BY <1>2, LoggedWrite
<1>4. Seen(s) = [Log!Latest EXCEPT !.current = Store.cur]
  BY <1>3, SeenChanges
<1>5. CASE Store.cur = NoRoot
  BY <1>3, <1>4, <1>5 DEF Log!Next, Log!Retire, DemoLogInv
<1>6. CASE Store.cur # NoRoot
  <2>1. Store.cur \in Roots /\ Store.cur \in Log!Latest.recorded
    BY <1>1, <1>2, <1>3, <1>6 DEF DemoContents, RootRecorded, HasRoot, Seen, RootsOf
  <2>2. QED
    BY <1>3, <1>4, <2>1 DEF Log!Next, Log!Adopt, DemoLogInv
<1>7. QED
  BY <1>5, <1>6

LEMMA DemoLogStep ==
  ASSUME StrictClock, DemoType, DemoType', DemoSafe, DemoLogInv, [DemoNext]_demoVars
  PROVE  DemoLogInv' /\ (Log!Next \/ UNCHANGED LogStates)
<1>0. /\ journal \in Seq(DemoContents) /\ journal # << >>
      /\ Store \in DemoContents /\ Store \in Kept /\ now \in Nat /\ stamp \in Times
      /\ \A e \in Store.hist : e.key \in Nat
      /\ RootRecorded(Store) /\ KeysArePast(Store, now)
  <2>1. journal \in Seq(DemoContents) /\ journal # << >> /\ now \in Times /\ stamp \in Times
    BY DEF DemoType, DemoTypeOK
  <2>2. Store \in DemoContents /\ Store \in Kept
    BY <2>1, StoreIsKept
  <2>3. QED
    BY <2>1, <2>2, TimeAssumption DEF Times, DemoContents, Entry, DemoLogInv, DemoSafe
<1>1. ASSUME NEW n, Reopen(n), pc' = "idle"
      PROVE  DemoLogInv' /\ Log!Next
  <2>1. Kept' \subseteq Kept /\ Log!Recover
    BY <1>0, <1>1, ReopenKeeps, DemoSeenType, LogReopen
  <2>2. QED
    BY <1>1, <2>1 DEF DemoLogInv, Log!Next
<1>2. ASSUME UNCHANGED journal, pc' # "putCurrent", pc' # "clearHistory"
      PROVE  DemoLogInv' /\ UNCHANGED LogStates
  BY <1>2 DEF DemoLogInv, Kept, LogStates
<1>3. ASSUME UNCHANGED <<journal, pc, arg>>
      PROVE  DemoLogInv' /\ UNCHANGED LogStates
  BY <1>3 DEF DemoLogInv, Kept, LogStates, Store
<1>4. ASSUME NEW t \in Times, PutHistory(t)
      PROVE  DemoLogInv' /\ (Log!Next \/ UNCHANGED LogStates)
  <2> DEFINE s == WithHistory(Store, t, arg, stamp)
             f == [key |-> t, root |-> arg, ts |-> stamp]
  <2>1. CASE Write(s) /\ pc' = "putCurrent"
    <3>1. arg \in Roots /\ arg' = arg /\ now < t /\ t \in Nat
      BY <1>4, TimeAssumption DEF PutHistory, ReadClock, DemoType, ArgIsRoot, Times
    <3>2. /\ s \in DemoContents /\ s.cur = Store.cur
          /\ s.hist = {e \in Store.hist : e.key # t} \cup {f}
      BY <1>0, <3>1, DemoWithHistory
    <3>3. f.root = arg
      OBVIOUS
    <3> HIDE DEF s
    <3>4. HasRoot(s, arg) /\ \A q : HasRoot(Store, q) => HasRoot(s, q)
      BY <1>0, <3>1, <3>2, NewEntry
    <3>5. \A e \in Store.hist : e.key # t
      BY <1>0, <3>1 DEF KeysArePast
    <3> HIDE DEF f
    <3>6. s.hist = Store.hist \cup {f}
      BY <3>2, <3>5
    <3>7. RootRecorded(s)
      BY <1>0, <3>2, <3>4 DEF RootRecorded
    <3>8. /\ Store' = s /\ \A c \in Kept' : RootRecorded(c)
          /\ Log!Becomes(Seen(s)) \/ UNCHANGED LogStates
          /\ Log!Latest = Seen(Store)
      BY <2>1, <3>2, <3>7, LoggedWrite
    <3>9. RootsOf(s.hist) = Log!Latest.recorded \cup {arg}
      <4>1. RootsOf(Store.hist \cup {f}) = RootsOf(Store.hist) \cup {f.root}
        BY RootsOfUnion
      <4>2. Log!Latest.recorded = RootsOf(Store.hist)
        BY <3>8, SeenChanges
      <4>3. QED
        BY <3>3, <3>6, <4>1, <4>2
    <3>10. Seen(s) = [Log!Latest EXCEPT !.recorded = @ \cup {arg}]
      BY <3>2, <3>8, <3>9, SeenChanges
    <3>11. DemoLogInv'
      BY <2>1, <3>1, <3>4, <3>8 DEF DemoLogInv
    <3>12. QED
      BY <3>1, <3>8, <3>10, <3>11 DEF Log!Next, Log!Record
  <2>2. CASE FailedWrite /\ pc' = "idle"
    BY <1>2, <2>2 DEF FailedWrite
  <2>3. QED
    BY <1>4, <2>1, <2>2 DEF PutHistory, Done
<1>5. CASE PutCurrent
  <2> DEFINE s == WithCurrent(Store, arg)
  <2>1. arg \in Roots /\ HasRoot(Store, arg) /\ pc' = "idle"
    BY <1>5 DEF PutCurrent, Done, DemoType, ArgIsRoot, DemoLogInv
  <2>2. CASE Write(s)
    <3>1. s \in DemoContents /\ s.cur = arg /\ s.hist = Store.hist
      BY <1>0, <2>1, DemoWithCurrent
    <3> HIDE DEF s
    <3>2. RootRecorded(s)
      BY <2>1, <3>1 DEF RootRecorded, HasRoot
    <3>3. /\ \A c \in Kept' : RootRecorded(c)
          /\ Log!Becomes(Seen(s)) \/ UNCHANGED LogStates
          /\ Log!Latest = Seen(Store)
      BY <2>2, <3>1, <3>2, LoggedWrite
    <3>4. arg \in Log!Latest.recorded
      BY <2>1, <3>3 DEF HasRoot, Seen, RootsOf
    <3>5. Seen(s) = [Log!Latest EXCEPT !.current = arg]
      BY <3>1, <3>3, SeenChanges
    <3>6. DemoLogInv'
      BY <2>1, <3>3 DEF DemoLogInv
    <3>7. QED
      BY <2>1, <3>3, <3>4, <3>5, <3>6 DEF Log!Next, Log!Adopt
  <2>3. CASE FailedWrite
    BY <1>2, <2>1, <2>3 DEF FailedWrite
  <2>4. QED
    BY <1>5, <2>2, <2>3 DEF PutCurrent
<1>6. CASE ClearCurrent
  <2> DEFINE s == WithCurrent(Store, NoRoot)
  <2>1. CASE Write(s) /\ pc' = "clearHistory"
    <3>1. s \in DemoContents /\ s.cur = NoRoot /\ s.hist = Store.hist
      BY <1>0, DemoWithCurrent
    <3> HIDE DEF s
    <3>2. RootRecorded(s)
      BY <3>1 DEF RootRecorded
    <3>3. /\ Store' = s /\ \A c \in Kept' : RootRecorded(c)
          /\ Log!Becomes(Seen(s)) \/ UNCHANGED LogStates
          /\ Log!Latest = Seen(Store)
      BY <2>1, <3>1, <3>2, LoggedWrite
    <3>4. Seen(s) = [Log!Latest EXCEPT !.current = NoRoot]
      BY <3>1, <3>3, SeenChanges
    <3>5. DemoLogInv'
      BY <2>1, <3>1, <3>3 DEF DemoLogInv
    <3>6. QED
      BY <3>3, <3>4, <3>5 DEF Log!Next, Log!Retire
  <2>2. CASE FailedWrite /\ pc' = "idle"
    BY <1>2, <2>2 DEF FailedWrite
  <2>3. QED
    BY <1>6, <2>1, <2>2 DEF ClearCurrent, Done
<1>7. CASE ClearHistory
  <2> DEFINE s == WithoutHistory(Store)
  <2>1. Store.cur = NoRoot /\ pc' = "idle"
    BY <1>7 DEF ClearHistory, Done, DemoLogInv
  <2>2. CASE Write(s)
    <3>1. s \in DemoContents /\ s.cur = Store.cur /\ s.hist = {}
      BY <1>0, DemoWithoutHistory
    <3> HIDE DEF s
    <3>2. RootRecorded(s)
      BY <2>1, <3>1 DEF RootRecorded
    <3>3. /\ \A c \in Kept' : RootRecorded(c)
          /\ Log!Becomes(Seen(s)) \/ UNCHANGED LogStates
          /\ Log!Latest = Seen(Store)
      BY <2>2, <3>1, <3>2, LoggedWrite
    <3>4. Log!Latest.current = NoRoot
      BY <2>1, <3>3 DEF Seen
    <3>5. Seen(s) = [Log!Latest EXCEPT !.recorded = {}]
      BY <3>1, <3>3, SeenChanges DEF RootsOf
    <3>6. DemoLogInv'
      BY <2>1, <3>3 DEF DemoLogInv
    <3>7. QED
      BY <3>3, <3>4, <3>5, <3>6 DEF Log!Next, Log!Purge
  <2>3. CASE FailedWrite
    BY <1>2, <2>1, <2>3 DEF FailedWrite
  <2>4. QED
    BY <1>7, <2>2, <2>3 DEF ClearHistory
<1>8. ASSUME NEW c \in Seconds, CallStoreProof(c)
      PROVE  DemoLogInv' /\ (Log!Next \/ UNCHANGED LogStates)
  <2> DEFINE p == [id |-> ProofID(c), root |-> arg, proof |-> run]
  <2>1. p \in Proof /\ pc = "idle" /\ pc' = pc /\ UNCHANGED arg
    BY <1>8 DEF CallStoreProof, ProofID, Proof, DemoType, StageOK, trieVars
  <2> HIDE DEF p
  <2>2. CASE Write(WithProof(Store, p))
    BY <1>0, <2>1, <2>2, DemoWithProof, OtherWrite
  <2>3. CASE FailedWrite
    BY <1>3, <2>1, <2>3 DEF FailedWrite
  <2>4. QED
    BY <1>8, <2>2, <2>3 DEF CallStoreProof, p
<1>9. CASE UseProofCache
  <2>1. pc = "idle" /\ pc' = pc /\ UNCHANGED arg
    BY <1>9 DEF UseProofCache, trieVars
  <2>2. ASSUME NEW id, DeleteProof(id)
        PROVE  DemoLogInv' /\ (Log!Next \/ UNCHANGED LogStates)
    BY <1>0, <1>3, <2>1, <2>2, DemoWithoutProof, OtherWrite DEF DeleteProof, FailedWrite
  <2>3. ASSUME NEW id \in Commitments, StoreCommitment(id)
        PROVE  DemoLogInv' /\ (Log!Next \/ UNCHANGED LogStates)
    BY <1>0, <1>3, <2>1, <2>3, DemoWithCommitment, OtherWrite DEF StoreCommitment, FailedWrite
  <2>4. QED
    BY <1>9, <2>2, <2>3 DEF UseProofCache
<1>10. CASE PutOnDisk
  <2>1. Store' = Store /\ Kept' \subseteq Kept
    BY <1>0, <1>10, WriteBackKeeps DEF PutOnDisk, StoreWriteBack
  <2>2. Log!Persist
    BY <1>0, <1>10, DemoSeenType, LogWriteBack DEF PutOnDisk, StoreWriteBack
  <2>3. QED
    BY <1>10, <2>1, <2>2 DEF PutOnDisk, StoreWriteBack, trieVars, DemoLogInv, Log!Next
<1>11. ASSUME NEW r \in Roots, NEW t \in Times, CallUpdateRoot(r, t)
       PROVE  DemoLogInv' /\ (Log!Next \/ UNCHANGED LogStates)
  BY <1>2, <1>11 DEF CallUpdateRoot, BeginUpdate
<1>12. CASE ProveAndVerify \/ Exit \/ UNCHANGED demoVars
  BY <1>3, <1>12 DEF ProveAndVerify, Exit, demoVars, vars, trieVars
<1>13. QED
  BY <1>1, <1>4, <1>5, <1>6, <1>7, <1>8, <1>9, <1>10, <1>11, <1>12
     DEF DemoNext, StartRun, OpenStore, PowerLoss, ProcessRestart, MachineRestart, NewStateTrie,
         InUpdateRoot, ClearTrie

(* As long as the clock does not repeat a reading, sharing the store with the proof
   cache, and programs that end anywhere, leave it the record of roots that the
   trie alone keeps. *)
THEOREM DemoRefinement == StrictClock => (DemoSpec => ImplementsRootLog)
<1> SUFFICES ASSUME StrictClock PROVE DemoSpec => ImplementsRootLog
  OBVIOUS
<1>1. DemoInit => DemoLogInv /\ Log!Init
  BY DemoLogInit
<1>2. DemoType /\ DemoType' /\ DemoSafe /\ DemoLogInv /\ [DemoNext]_demoVars =>
        DemoLogInv' /\ [Log!Next]_LogStates
  BY DemoLogStep
<1>3. DemoSpec => [](DemoType /\ DemoSafe)
  BY DemoSafeAlways
<1>4. QED
  BY <1>1, <1>2, <1>3, PTL DEF DemoSpec, ImplementsRootLog, Log!Spec

-----------------------------------------------------------------------------
(* The current root of a run that has stored its proof.                      *)

LEMMA LeastOf ==
  ASSUME NEW T, T \subseteq Nat, T # {}
  PROVE  \E x \in T : \A y \in T : x <= y
<1> DEFINE Less == {ss \in Nat \X Nat : ss[1] < ss[2]}
<1>1. IsWellFoundedOn(Less, Nat)
  BY NatLessThanWellFounded DEF OpToRel
<1>2. \A x, y \in Nat : y < x => <<y, x>> \in Less
  OBVIOUS
<1> HIDE DEF Less
<1>3. PICK x \in T : \A y \in T : ~ (<<y, x>> \in Less)
  BY <1>1, WFMin
<1>4. ASSUME NEW y \in T
      PROVE  x <= y
  <2>1. ~ (y < x)
    BY <1>2, <1>3
  <2>2. QED
    BY <2>1
<1>5. QED
  BY <1>4

(* The scan of GetProofByRoot finds a proof if there is one. *)
LEMMA ScanFinds ==
  ASSUME NEW s \in DemoContents, NEW root, \E p \in s.proofs : p.root = root
  PROVE  GetProofByRoot(s, root) \in s.proofs
<1> DEFINE T == {p.id : p \in {q \in s.proofs : q.root = root}}
<1>1. T \subseteq Nat /\ T # {}
  BY DEF DemoContents, Proof, Seconds
<1>2. PICK i \in T : \A j \in T : i <= j
  BY <1>1, LeastOf
<1>3. \E p \in s.proofs : IsFirstOfRoot(s, root, p)
  BY <1>2 DEF IsFirstOfRoot
<1>4. QED
  BY <1>3 DEF GetProofByRoot, IsFirstOfRoot

(* From the end of UpdateRoot on the cache has the root of the run, unless the run
   is excused. *)
CurrentInv ==
  /\ stage \in {"prove", "storeProof", "stored"} /\ run \notin excused => cached = arg
  /\ stage = "stored" => \E p \in Store.proofs : p.root = arg

LEMMA CurrentInit == DemoInit => CurrentInv
BY DEF DemoInit, CurrentInv

LEMMA CurrentStep ==
  ASSUME DemoType, CurrentInv, [DemoNext]_demoVars
  PROVE  CurrentInv'
<1> USE DEF CurrentInv
<1>0. journal \in Seq(DemoContents) /\ journal # << >> /\ Store \in DemoContents
  BY StoreIsKept DEF DemoType, DemoTypeOK
<1>1. CASE stage' \notin {"prove", "storeProof", "stored"}
  BY <1>1
<1>2. ASSUME NEW t \in Times, InUpdateRoot(t)
      PROVE  CurrentInv'
  <2>1. CASE PutHistory(t)
    BY <1>2, <2>1 DEF InUpdateRoot, PutHistory, Done, DemoType, StageOK
  <2>2. CASE PutCurrent
    BY <1>2, <2>2 DEF InUpdateRoot, PutCurrent, Done
  <2>3. QED
    BY <1>2, <2>1, <2>2 DEF InUpdateRoot
<1>3. CASE ProveAndVerify
  BY <1>3 DEF ProveAndVerify, vars, trieVars
<1>4. ASSUME NEW c \in Seconds, CallStoreProof(c)
      PROVE  CurrentInv'
  <2> DEFINE p == [id |-> ProofID(c), root |-> arg, proof |-> run]
             s == WithProof(Store, p)
  <2>1. /\ stage = "storeProof" /\ arg \in Roots /\ run \in Runs
        /\ UNCHANGED <<cached, arg, run, excused>>
    BY <1>4 DEF CallStoreProof, trieVars, DemoType, StageOK
  <2>2. CASE Write(s) /\ stage' = "stored"
    <3>1. p \in Proof /\ p.root = arg
      BY <1>4, <2>1 DEF Proof, ProofID
    <3> HIDE DEF p
    <3>2. p \in s.proofs
      BY <1>0 DEF WithProof, DemoContents
    <3>3. s \in DemoContents
      BY <1>0, <3>1, DemoWithProof
    <3> HIDE DEF s
    <3>4. Store' = s
      BY <1>0, <2>2, <3>3, WriteKeeps
    <3>5. QED
      BY <2>1, <3>1, <3>2, <3>4
  <2>3. CASE stage' = "notStored"
    BY <1>1, <2>3
  <2>4. QED
    BY <1>4, <2>2, <2>3 DEF CallStoreProof
<1>5. CASE PutOnDisk
  <2>1. Store' = Store
    BY <1>0, <1>5, WriteBackKeeps DEF PutOnDisk, StoreWriteBack
  <2>2. QED
    BY <1>5, <2>1 DEF PutOnDisk, StoreWriteBack, trieVars
<1>6. CASE UNCHANGED demoVars
  BY <1>6 DEF demoVars, vars, trieVars, Store
<1>7. QED
  BY <1>1, <1>2, <1>3, <1>4, <1>5, <1>6
     DEF DemoNext, StartRun, CallUpdateRoot, OpenStore, ClearTrie, UseProofCache, Exit, PowerLoss

(* With any clock: the current root of the trie leads to a proof in the cache, after
   a run that had no warning and stored its proof. *)
THEOREM CurrentSafety == DemoSpec => []CurrentRootHasProof
<1>1. DemoType /\ CurrentInv => CurrentRootHasProof
  <2> SUFFICES ASSUME DemoType, CurrentInv, stage = "stored", run \notin excused
               PROVE  GetProofByRoot(Store, GetCurrentRoot) # NoProof
    BY DEF CurrentRootHasProof
  <2>1. GetCurrentRoot = arg
    BY RootsAssumption DEF GetCurrentRoot, CurrentInv, DemoType, StageOK
  <2>2. Store \in DemoContents
    BY StoreIsKept DEF DemoType, DemoTypeOK
  <2>3. GetProofByRoot(Store, arg) \in Proof
    BY <2>2, ScanFinds DEF CurrentInv, DemoContents
  <2>4. QED
    BY <2>1, <2>3, NoProofAssumption DEF Proof, Seconds, Runs
<1>2. DemoInit => DemoType /\ CurrentInv
  BY DemoTypeInit, CurrentInit
<1>3. DemoType /\ CurrentInv /\ [DemoNext]_demoVars => (DemoType /\ CurrentInv)'
  BY DemoTypeStep, CurrentStep
<1>4. QED
  BY <1>1, <1>2, <1>3, PTL DEF DemoSpec

-----------------------------------------------------------------------------
(* No more proofs than entries.                                              *)

(* k[i] is the key of the entry that run i made, a negative number as long as it
   has made none.  That the proofs are not more than the entries is not inductive;
   that each has the entry of its own run, and each run one proof, is. *)
HasKey(s, n) == \E e \in s.hist : e.key = n
NoneOf(s, n) == \A p \in s.proofs : p.proof # n

Owned(s, k, exc) ==
  /\ IsFiniteSet(s.hist)
  /\ \A p, q \in s.proofs : p.proof = q.proof => p = q
  /\ \A p \in s.proofs : p.proof \notin exc => HasKey(s, k[p.proof])

OwnInv(k) ==
  /\ \A i, j \in Nat : k[i] = k[j] => i = j
  /\ \A i \in Nat : k[i] <= now
  /\ \A s \in Kept : Owned(s, k, excused)
  /\ stage \in {"updateRoot", "inUpdateRoot", "prove", "storeProof"} =>
       \A s \in Kept : NoneOf(s, run)
  /\ stage = "inUpdateRoot" /\ pc = "putCurrent" => HasKey(Store, k[run])
  /\ stage \in {"prove", "storeProof"} /\ run \notin excused => HasKey(Store, k[run])

KeyMaps == [Nat -> Int]
CountInv == \E k \in KeyMaps : OwnInv(k)

LEMMA CountInit == DemoInit => CountInv
<1> SUFFICES ASSUME DemoInit PROVE CountInv
  OBVIOUS
<1> DEFINE k == [i \in Nat |-> -i]
<1>1. k \in KeyMaps /\ \A i \in Nat : k[i] = -i
  BY DEF KeyMaps
<1> HIDE DEF k
<1>2. /\ \A i, j \in Nat : k[i] = k[j] => i = j
      /\ \A i \in Nat : k[i] <= 0
  BY <1>1
<1>3. \A s \in Kept : s.hist = {} /\ s.proofs = {}
  BY DEF DemoInit, Kept
<1>4. \A s \in Kept : Owned(s, k, excused)
  BY <1>3, FS_EmptySet DEF Owned
<1>5. OwnInv(k)
  BY <1>2, <1>4 DEF OwnInv, DemoInit, InitTrie
<1>6. QED
  BY <1>1, <1>5 DEF CountInv

LEMMA SameEntries ==
  ASSUME NEW k, OwnInv(k), NEW s, s.hist = Store.hist, s.proofs \subseteq Store.proofs,
         Store \in Kept
  PROVE  /\ Owned(s, k, excused)
         /\ \A n : NoneOf(Store, n) => NoneOf(s, n)
         /\ \A n : HasKey(s, n) <=> HasKey(Store, n)
BY DEF OwnInv, Owned, NoneOf, HasKey

LEMMA CountStep ==
  ASSUME StrictClock, DemoType, DemoSafe, [DemoNext]_demoVars,
         NEW k \in KeyMaps, OwnInv(k)
  PROVE  CountInv'
<1>0. /\ journal \in Seq(DemoContents) /\ journal # << >>
      /\ Store \in DemoContents /\ Store \in Kept
      /\ now \in Nat /\ run \in Nat
  <2>1. journal \in Seq(DemoContents) /\ journal # << >> /\ now \in Times /\ run \in Nat
    BY DEF DemoType, DemoTypeOK
  <2>2. QED
    BY <2>1, StoreIsKept, TimeAssumption DEF Times
<1>1. SUFFICES ASSUME ~(\E t \in Times : InUpdateRoot(t) /\ PutHistory(t))
               PROVE  OwnInv(k)'
  <2>1. ASSUME NEW t \in Times, InUpdateRoot(t), PutHistory(t)
        PROVE  CountInv'
    <3> DEFINE s == WithHistory(Store, t, arg, stamp)
               f == [key |-> t, root |-> arg, ts |-> stamp]
    <3>1. /\ arg \in Roots /\ stamp \in Times /\ run' = run
          /\ now < t /\ t \in Nat /\ now' = t
          /\ stage = "inUpdateRoot" /\ stage' \in {"inUpdateRoot", "prove"}
          /\ excused \subseteq excused'
      BY <2>1, TimeAssumption
         DEF DemoType, DemoTypeOK, ArgIsRoot, InUpdateRoot, PutHistory, ReadClock, Times
    <3>2. PICK l \in KeyMaps : l[run] = t /\ \A i \in Nat : i # run => l[i] = k[i]
      <4>1. /\ [k EXCEPT ![run] = t] \in KeyMaps
            /\ [k EXCEPT ![run] = t][run] = t
            /\ \A i \in Nat : i # run => [k EXCEPT ![run] = t][i] = k[i]
        BY <1>0, <3>1 DEF KeyMaps
      <4>2. QED
        BY <4>1
    <3>3. /\ \A i, j \in Nat : l[i] = l[j] => i = j
          /\ \A i \in Nat : l[i] <= t
      <4>1. \A i \in Nat : k[i] < t /\ k[i] \in Int
        BY <1>0, <3>1 DEF OwnInv, KeyMaps
      <4>2. QED
        BY <3>1, <3>2, <4>1 DEF OwnInv
    <3>4. \A c \in Kept : Owned(c, l, excused') /\ NoneOf(c, run)
      <4>1. SUFFICES ASSUME NEW c \in Kept
                     PROVE  Owned(c, l, excused') /\ NoneOf(c, run)
        OBVIOUS
      <4>2. Owned(c, k, excused) /\ NoneOf(c, run)
        BY <3>1 DEF OwnInv
      <4>3. \A p \in c.proofs : p.proof \in Nat /\ p.proof # run
        BY <1>0, <4>2 DEF DemoSafe, ProofsArePast, NoneOf
      <4>4. QED
        BY <3>1, <3>2, <4>2, <4>3 DEF Owned
    <3>5. CASE Write(s) /\ pc' = "putCurrent"
      <4>1. /\ s \in DemoContents /\ s.proofs = Store.proofs
            /\ s.hist = {e \in Store.hist : e.key # t} \cup {f}
        BY <1>0, <3>1, DemoWithHistory
      <4>2. f.key = t
        OBVIOUS
      <4> HIDE DEF s, f
      <4>3. \A e \in Store.hist : e.key # t
        <5>1. \A e \in Store.hist : e.key \in Nat /\ e.key <= now
          BY <1>0, TimeAssumption DEF DemoSafe, KeysArePast, DemoContents, Entry, Times
        <5>2. QED
          BY <1>0, <3>1, <5>1
      <4>4. s.hist = Store.hist \cup {f}
        BY <4>1, <4>3
      <4>5. IsFiniteSet(s.hist)
        <5>1. Owned(Store, k, excused)
          BY <1>0 DEF OwnInv
        <5>2. IsFiniteSet(Store.hist)
          BY <5>1 DEF Owned
        <5>3. QED
          BY <4>4, <5>2, FS_AddElement
      <4>6. HasKey(s, t) /\ \A n : HasKey(Store, n) => HasKey(s, n)
        BY <4>2, <4>4 DEF HasKey
      <4>7. Owned(s, l, excused') /\ NoneOf(s, run)
        BY <1>0, <3>4, <4>1, <4>5, <4>6 DEF Owned, NoneOf
      <4>8. Store' = s /\ Kept' \subseteq Kept \cup {s}
        BY <1>0, <3>5, <4>1, WriteKeeps
      <4>9. OwnInv(l)'
        BY <3>1, <3>2, <3>3, <3>4, <4>6, <4>7, <4>8 DEF OwnInv
      <4>10. QED
        BY <3>2, <4>9 DEF CountInv
    <3>6. CASE FailedWrite /\ pc' = "idle" /\ outcome' = "failed"
      <4>1. run' \in excused' /\ Kept' = Kept
        BY <2>1, <3>1, <3>6 DEF InUpdateRoot, FailedWrite, Kept
      <4>2. OwnInv(l)'
        BY <3>1, <3>3, <3>4, <3>6, <4>1 DEF OwnInv
      <4>3. QED
        BY <3>2, <4>2 DEF CountInv
    <3>7. QED
      BY <2>1, <3>5, <3>6 DEF PutHistory, Done
  <2>2. QED
    BY <2>1 DEF CountInv
<1>2. ASSUME NEW n, Reopen(n), now' = now, excused' = excused,
             \/ stage' = "updateRoot" /\ run' = run + 1
             \/ stage' \in {"other", "closed"}
      PROVE  OwnInv(k)'
  <2>1. Kept' \subseteq Kept
    BY <1>0, <1>2, ReopenKeeps
  <2>2. \A s \in Kept : NoneOf(s, run + 1)
    BY <1>0 DEF DemoSafe, ProofsArePast, NoneOf
  <2>3. QED
    BY <1>2, <2>1, <2>2 DEF OwnInv
<1>3. ASSUME NEW r \in Roots, NEW t \in Times, CallUpdateRoot(r, t)
      PROVE  OwnInv(k)'
  <2>1. journal' = journal /\ now < t /\ t \in Nat /\ now' = t /\ pc' = "putHistory"
        /\ UNCHANGED <<run, excused>> /\ stage = "updateRoot" /\ stage' = "inUpdateRoot"
    BY <1>3, TimeAssumption DEF CallUpdateRoot, BeginUpdate, ReadClock, Times
  <2>2. \A i \in Nat : k[i] <= t
    <3>1. \A i \in Nat : k[i] <= now /\ k[i] \in Int
      BY DEF OwnInv, KeyMaps
    <3>2. QED
      BY <1>0, <2>1, <3>1
  <2>3. QED
    BY <2>1, <2>2 DEF OwnInv, Kept
<1>4. CASE \E t \in Times : InUpdateRoot(t)
  <2>1. PutCurrent
    BY <1>1, <1>4 DEF InUpdateRoot
  <2> DEFINE s == WithCurrent(Store, arg)
  <2>2. /\ stage = "inUpdateRoot" /\ pc = "putCurrent" /\ arg \in Roots
        /\ run' = run /\ now' = now /\ stage' = "prove" /\ excused \subseteq excused'
    BY <1>4, <2>1 DEF DemoType, ArgIsRoot, InUpdateRoot, PutCurrent, Done
  <2>3. \A c \in Kept : Owned(c, k, excused') /\ NoneOf(c, run)
    BY <2>2 DEF OwnInv, Owned
  <2>4. CASE Write(s)
    <3>1. s \in DemoContents /\ s.hist = Store.hist /\ s.proofs = Store.proofs
      BY <1>0, <2>2, DemoWithCurrent
    <3> HIDE DEF s
    <3>2. Store' = s /\ Kept' \subseteq Kept \cup {s}
      BY <1>0, <2>4, <3>1, WriteKeeps
    <3>3. Owned(s, k, excused') /\ NoneOf(s, run) /\ HasKey(s, k[run])
      BY <1>0, <2>2, <2>3, <3>1 DEF Owned, NoneOf, HasKey, OwnInv
    <3>4. QED
      BY <2>2, <2>3, <3>2, <3>3 DEF OwnInv
  <2>5. CASE FailedWrite
    BY <2>2, <2>3, <2>5 DEF FailedWrite, OwnInv, Store, Kept
  <2>6. QED
    BY <2>1, <2>4, <2>5 DEF PutCurrent
<1>5. CASE ProveAndVerify
  BY <1>5 DEF ProveAndVerify, vars, trieVars, OwnInv, Store, Kept
<1>6. ASSUME NEW c \in Seconds, CallStoreProof(c)
      PROVE  OwnInv(k)'
  <2> DEFINE p == [id |-> ProofID(c), root |-> arg, proof |-> run]
             s == WithProof(Store, p)
  <2>1. /\ stage = "storeProof" /\ stage' \in {"stored", "notStored"}
        /\ UNCHANGED <<now, run, excused>> /\ arg \in Roots /\ run \in Runs
        /\ NoneOf(Store, run)
    BY <1>0, <1>6 DEF CallStoreProof, DemoType, StageOK, trieVars, OwnInv
  <2>2. p \in Proof /\ p.proof = run
    BY <1>6, <2>1 DEF Proof, ProofID
  <2>3. CASE Write(s)
    <3> HIDE DEF p
    <3>1. s \in DemoContents /\ s.hist = Store.hist /\ s.proofs \subseteq Store.proofs \cup {p}
      BY <1>0, <2>2, DemoWithProof
    <3> HIDE DEF s
    <3>2. Store' = s /\ Kept' \subseteq Kept \cup {s}
      BY <1>0, <2>3, <3>1, WriteKeeps
    <3>3. Owned(Store, k, excused) /\ (run \notin excused => HasKey(Store, k[run]))
      BY <1>0, <2>1 DEF OwnInv
    <3>4. Owned(s, k, excused)
      <4>1. IsFiniteSet(s.hist) /\ \A n : HasKey(Store, n) => HasKey(s, n)
        BY <3>1, <3>3 DEF Owned, HasKey
      <4>2. \A q \in Store.proofs : q.proof # p.proof
        BY <2>1, <2>2 DEF NoneOf
      <4>3. \A q, r \in s.proofs : q.proof = r.proof => q = r
        BY <3>1, <3>3, <4>2 DEF Owned
      <4>4. \A q \in s.proofs : q.proof \notin excused => HasKey(s, k[q.proof])
        BY <2>2, <3>1, <3>3, <4>1 DEF Owned
      <4>5. QED
        BY <4>1, <4>3, <4>4 DEF Owned
    <3>5. QED
      BY <2>1, <3>2, <3>4 DEF OwnInv
  <2>4. CASE FailedWrite
    BY <2>1, <2>4 DEF FailedWrite, OwnInv, Store, Kept
  <2>5. QED
    BY <1>6, <2>3, <2>4 DEF CallStoreProof
<1>7. ASSUME ClearTrie, ClearCurrent
      PROVE  OwnInv(k)'
  <2>1. UNCHANGED <<stage, run, now, excused>> /\ stage = "other"
    BY <1>7 DEF ClearTrie, ClearCurrent, ClearHistory
  <2> DEFINE s == WithCurrent(Store, NoRoot)
  <2>2. CASE Write(s)
    <3>1. s \in DemoContents /\ s.hist = Store.hist /\ s.proofs = Store.proofs
      BY <1>0, DemoWithCurrent
    <3> HIDE DEF s
    <3>2. Store' = s /\ Kept' \subseteq Kept \cup {s} /\ Owned(s, k, excused)
      BY <1>0, <2>2, <3>1, WriteKeeps, SameEntries
    <3>3. QED
      BY <2>1, <3>2 DEF OwnInv
  <2>3. CASE FailedWrite
    BY <2>1, <2>3 DEF FailedWrite, OwnInv, Store, Kept
  <2>4. QED
    BY <1>7, <2>2, <2>3 DEF ClearCurrent
<1>8. ASSUME ClearTrie, ClearHistory
      PROVE  OwnInv(k)'
  <2>1. UNCHANGED <<stage, run, now>> /\ stage = "other" /\ excused' = 1..run
    BY <1>8 DEF ClearTrie, ClearCurrent, ClearHistory
  <2> DEFINE s == WithoutHistory(Store)
  <2>2. \A c \in Kept : Owned(c, k, excused')
    BY <2>1 DEF OwnInv, Owned, DemoSafe, ProofsArePast
  <2>3. CASE Write(s)
    <3>1. s \in DemoContents /\ s.hist = {} /\ s.proofs = Store.proofs
      BY <1>0, DemoWithoutHistory
    <3> HIDE DEF s
    <3>2. Store' = s /\ Kept' \subseteq Kept \cup {s}
      BY <1>0, <2>3, <3>1, WriteKeeps
    <3>3. Owned(s, k, excused')
      BY <1>0, <2>1, <3>1, FS_EmptySet DEF Owned, OwnInv, DemoSafe, ProofsArePast
    <3>4. QED
      BY <2>1, <2>2, <3>2, <3>3 DEF OwnInv
  <2>4. CASE FailedWrite
    BY <2>1, <2>2, <2>4 DEF FailedWrite, OwnInv, Store, Kept
  <2>5. QED
    BY <1>8, <2>3, <2>4 DEF ClearHistory
<1>9. CASE UseProofCache
  <2>1. UNCHANGED <<now, stage, run, excused>> /\ stage = "other"
    BY <1>9 DEF UseProofCache, trieVars
  <2>2. ASSUME NEW s \in DemoContents, Write(s), s.hist = Store.hist, s.proofs \subseteq Store.proofs
        PROVE  OwnInv(k)'
    <3>1. Store' = s /\ Kept' \subseteq Kept \cup {s} /\ Owned(s, k, excused)
      BY <1>0, <2>2, WriteKeeps, SameEntries
    <3>2. QED
      BY <2>1, <3>1 DEF OwnInv
  <2>3. CASE FailedWrite
    BY <2>1, <2>3 DEF FailedWrite, OwnInv, Store, Kept
  <2>4. QED
    BY <1>0, <1>9, <2>2, <2>3, DemoWithoutProof, DemoWithCommitment
       DEF UseProofCache, DeleteProof, StoreCommitment
<1>10. CASE Exit
  BY <1>10 DEF Exit, vars, trieVars, OwnInv, Store, Kept
<1>11. CASE PutOnDisk
  <2>1. Store' = Store /\ Kept' \subseteq Kept
    BY <1>0, <1>11, WriteBackKeeps DEF PutOnDisk, StoreWriteBack
  <2>2. QED
    BY <1>11, <2>1 DEF PutOnDisk, StoreWriteBack, trieVars, OwnInv
<1>12. CASE UNCHANGED demoVars
  BY <1>12 DEF demoVars, vars, trieVars, OwnInv, Store, Kept
<1>13. QED
  BY <1>2, <1>3, <1>4, <1>5, <1>6, <1>7, <1>8, <1>9, <1>10, <1>11, <1>12
     DEF DemoNext, StartRun, OpenStore, PowerLoss, ProcessRestart, MachineRestart, NewStateTrie,
         ClearTrie

(* As long as the clock does not repeat a reading: however often the same version of
   the program is run, each of its proofs is matched by an entry of the history
   that no other proof has, in whatever a crash leaves. *)
THEOREM CountSafety == StrictClock => (DemoSpec => []NoMoreProofsThanEntries)
<1> SUFFICES ASSUME StrictClock PROVE DemoSpec => []NoMoreProofsThanEntries
  OBVIOUS
<1>1. DemoType /\ DemoSafe /\ CountInv => NoMoreProofsThanEntries
  <2> SUFFICES ASSUME DemoType, DemoSafe, CountInv, NEW i \in DOMAIN journal
               PROVE  ProofCount([proofs |-> {p \in journal[i].proofs : p.proof \notin excused}])
                        <= Cardinality(journal[i].hist)
    BY DEF NoMoreProofsThanEntries
  <2> DEFINE s == journal[i]
             U == {p \in s.proofs : p.proof \notin excused}
  <2>1. PICK k \in KeyMaps : OwnInv(k)
    BY DEF CountInv
  <2>2. Owned(s, k, excused) /\ (\A j, l \in Nat : k[j] = k[l] => j = l)
        /\ \A p \in s.proofs : p.proof \in Nat
    BY <2>1 DEF OwnInv, Kept, DemoSafe, ProofsArePast
  <2> DEFINE f == [p \in U |-> CHOOSE e \in s.hist : e.key = k[p.proof]]
  <2>3. \A p \in U : f[p] \in s.hist /\ f[p].key = k[p.proof]
    BY <2>2 DEF Owned, HasKey
  <2>4. f \in [U -> s.hist]
    BY <2>3
  <2> HIDE DEF f
  <2>5. \A p, q \in U : f[p] = f[q] => p = q
    BY <2>2, <2>3 DEF Owned
  <2>6. f \in Injection(U, s.hist)
    BY <2>4, <2>5 DEF Injection, IsInjective
  <2>7. Cardinality(U) <= Cardinality(s.hist)
    BY <2>2, <2>6, FS_Injection DEF Owned
  <2>8. QED
    BY <2>7 DEF ProofCount
<1>2. DemoInit => CountInv
  BY CountInit
<1>3. DemoType /\ DemoSafe /\ CountInv /\ [DemoNext]_demoVars => CountInv'
  BY CountStep DEF CountInv
<1>4. DemoSpec => [](DemoType /\ DemoSafe)
  BY DemoSafeAlways
<1>5. QED
  BY <1>1, <1>2, <1>3, <1>4, PTL DEF DemoSpec
-----------------------------------------------------------------------------
(* No proof goes away unasked.                                               *)

(* What the store has after a write: what was written, or, if the write failed, what it
   had. *)
LEMMA StoreAfter ==
  ASSUME DemoType, NEW s \in DemoContents, Write(s) \/ FailedWrite
  PROVE  Store' = s \/ Store' = Store
<1>1. journal \in Seq(DemoContents) /\ journal # << >>
  BY DEF DemoType, DemoTypeOK
<1>2. CASE Write(s)
  BY <1>1, <1>2, WriteKeeps
<1>3. CASE FailedWrite
  BY <1>3 DEF FailedWrite, Store
<1>4. QED
  BY <1>2, <1>3

(* The steps after which the store has the proofs it had. *)
LEMMA SameProofs ==
  ASSUME DemoType, [DemoNext]_demoVars,
         ~ \E c \in Seconds : CallStoreProof(c), ~UseProofCache, ~PowerLoss
  PROVE  Store'.proofs = Store.proofs
<1>0. /\ journal \in Seq(DemoContents) /\ journal # << >>
      /\ Store \in DemoContents /\ arg \in Roots \cup {NoRoot} /\ stamp \in Times
  BY StoreIsKept DEF DemoType, DemoTypeOK
<1>1. CASE UNCHANGED journal
  BY <1>1 DEF Store
<1>2. CASE ProcessRestart
  BY <1>0, <1>2, ReopenKeeps DEF ProcessRestart, Reopen, Store
<1>3. ASSUME NEW t \in Times, InUpdateRoot(t)
      PROVE  Store'.proofs = Store.proofs
  <2>1. CASE PutHistory(t)
    <3> DEFINE s == WithHistory(Store, t, arg, stamp)
    <3>1. arg \in Roots
      BY <2>1 DEF PutHistory, DemoType, ArgIsRoot
    <3>2. s \in DemoContents /\ s.proofs = Store.proofs
      BY <1>0, <3>1, DemoWithHistory
    <3>3. Write(s) \/ FailedWrite
      BY <2>1 DEF PutHistory
    <3> HIDE DEF s
    <3>4. QED
      BY <3>2, <3>3, StoreAfter
  <2>2. CASE PutCurrent
    <3> DEFINE s == WithCurrent(Store, arg)
    <3>1. s \in DemoContents /\ s.proofs = Store.proofs
      BY <1>0, DemoWithCurrent
    <3>2. Write(s) \/ FailedWrite
      BY <2>2 DEF PutCurrent
    <3> HIDE DEF s
    <3>3. QED
      BY <3>1, <3>2, StoreAfter
  <2>3. QED
    BY <1>3, <2>1, <2>2 DEF InUpdateRoot
<1>4. CASE ClearTrie
  <2>1. PICK s \in {WithCurrent(Store, NoRoot), WithoutHistory(Store)} : Write(s) \/ FailedWrite
    BY <1>4 DEF ClearTrie, ClearCurrent, ClearHistory
  <2>2. s \in DemoContents /\ s.proofs = Store.proofs
    BY <1>0, <2>1, DemoWithCurrent, DemoWithoutHistory
  <2>3. QED
    BY <2>1, <2>2, StoreAfter
<1>5. CASE PutOnDisk
  BY <1>0, <1>5, WriteBackKeeps DEF PutOnDisk, StoreWriteBack
<1>6. QED
  BY <1>1, <1>2, <1>3, <1>4, <1>5
     DEF DemoNext, StartRun, CallUpdateRoot, BeginUpdate, ProveAndVerify, OpenStore, Exit,
         demoVars, vars

(* A proof that is stored takes the place of those that have its id, the second. *)
LEMMA StoredProof ==
  ASSUME DemoType, NEW c \in Seconds, CallStoreProof(c), NEW p \in Store.proofs \ Store'.proofs
  PROVE  stage = "storeProof" /\ stage' = "stored" /\ second' = p.id
<1> DEFINE q == [id |-> ProofID(c), root |-> arg, proof |-> run]
           s == WithProof(Store, q)
<1>0. Store \in DemoContents
  BY StoreIsKept DEF DemoType, DemoTypeOK
<1>1. stage = "storeProof" /\ second' = c /\ arg \in Roots /\ run \in Runs
  BY DEF CallStoreProof, DemoType, StageOK
<1>2. CASE Write(s) /\ stage' = "stored"
  <2>1. q \in Proof /\ q.id = c
    BY <1>1 DEF Proof, ProofID
  <2> HIDE DEF q
  <2>2. s \in DemoContents
    BY <1>0, <2>1, DemoWithProof
  <2>3. s.proofs = {o \in Store.proofs : o.id # c} \cup {q}
    BY <1>0, <2>1 DEF WithProof, DemoContents
  <2> HIDE DEF s
  <2>4. Store' = s
    BY <1>2, <2>2, StoreAfter
  <2>5. QED
    BY <1>1, <1>2, <2>3, <2>4
<1>3. CASE FailedWrite
  BY <1>3 DEF FailedWrite, Store
<1>4. QED
  BY <1>2, <1>3 DEF CallStoreProof

(* Of what other programs do with the cache only DeleteProof takes proofs out of it, those
   that have the id it is called with. *)
LEMMA CacheKeeps ==
  ASSUME DemoType, UseProofCache, NEW p \in Store.proofs \ Store'.proofs
  PROVE  stage = "other" /\ DeleteProof(p.id)
<1>0. Store \in DemoContents
  BY StoreIsKept DEF DemoType, DemoTypeOK
<1>1. stage = "other"
  BY DEF UseProofCache
<1>2. ASSUME NEW id \in Seconds, DeleteProof(id)
      PROVE  DeleteProof(p.id)
  <2> DEFINE s == WithoutProof(Store, id)
  <2>1. s \in DemoContents /\ s.proofs = {o \in Store.proofs : o.id # id}
    BY <1>0, DemoWithoutProof DEF WithoutProof, DemoContents
  <2>2. Write(s) \/ FailedWrite
    BY <1>2 DEF DeleteProof
  <2> HIDE DEF s
  <2>3. Store' = s
    BY <2>1, <2>2, StoreAfter
  <2>4. p.id = id
    BY <2>1, <2>3
  <2>5. QED
    BY <1>2, <2>4
<1>3. ASSUME NEW id \in Commitments, StoreCommitment(id)
      PROVE  FALSE
  <2> DEFINE s == WithCommitment(Store, id)
  <2>1. s \in DemoContents /\ s.proofs = Store.proofs
    BY <1>0, DemoWithCommitment
  <2>2. Write(s) \/ FailedWrite
    BY <1>3 DEF StoreCommitment
  <2> HIDE DEF s
  <2>3. QED
    BY <2>1, <2>2, StoreAfter
<1>4. QED
  BY <1>1, <1>2, <1>3 DEF UseProofCache

(* With any clock: only DeleteProof with its id, a power loss and a later run that stores
   its proof in the same second take a proof out of the cache. *)
THEOREM StaySafety == DemoSpec => ProofsStay
<1>1. DemoType /\ [DemoNext]_demoVars =>
        \A p \in Store.proofs \ Store'.proofs :
          \/ stage = "other" /\ DeleteProof(p.id)
          \/ PowerLoss
          \/ stage = "storeProof" /\ stage' = "stored" /\ second' = p.id
  <2> SUFFICES ASSUME DemoType, [DemoNext]_demoVars, ~PowerLoss,
                      NEW p \in Store.proofs \ Store'.proofs
               PROVE  \/ stage = "other" /\ DeleteProof(p.id)
                      \/ stage = "storeProof" /\ stage' = "stored" /\ second' = p.id
    OBVIOUS
  <2>1. UseProofCache \/ \E c \in Seconds : CallStoreProof(c)
    BY SameProofs
  <2>2. QED
    BY <2>1, CacheKeeps, StoredProof
<1>2. DemoInit => DemoType
  BY DemoTypeInit
<1>3. DemoType /\ [DemoNext]_demoVars => DemoType'
  BY DemoTypeStep
<1>4. QED
  BY <1>1, <1>2, <1>3, PTL DEF DemoSpec, ProofsStay
=============================================================================
