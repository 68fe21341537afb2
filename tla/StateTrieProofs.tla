-------------------------- MODULE StateTrieProofs --------------------------
(***************************************************************************)
(* Proofs about StateTrie, for every set of roots and every bound on the   *)
(* clock.                                                                  *)
(***************************************************************************)
EXTENDS StateTrie, SequenceTheorems, FiniteSetTheorems, TLAPS

-----------------------------------------------------------------------------
(* What the operations of the store do to the contents a crash may leave.  S
   is any set of contents. *)

(* The contents that a read or a crash can come upon. *)
Kept == {journal[i] : i \in DOMAIN journal}

LEMMA StoreIsKept ==
  ASSUME NEW S, journal \in Seq(S), journal # << >>
  PROVE  Store \in S /\ Store \in Kept
BY DEF Store, Kept

LEMMA WriteKeeps ==
  ASSUME NEW S, journal \in Seq(S), journal # << >>, NEW s \in S, Write(s)
  PROVE  /\ journal' \in Seq(S) /\ journal' # << >>
         /\ Store' = s
         /\ Kept' \subseteq Kept \cup {s}
<1>1. CASE s = Store
  BY <1>1 DEF Write, Store, Kept
<1>2. CASE s # Store
  <2>1. journal' = Append(journal, s)
    BY <1>2 DEF Write
  <2>2. journal' \in Seq(S) /\ Len(journal') = Len(journal) + 1
    BY <2>1
  <2>3. \A i \in DOMAIN journal' : journal'[i] = s \/ journal'[i] \in Kept
    BY <2>1, <2>2 DEF Kept
  <2>4. QED
    BY <2>1, <2>2, <2>3 DEF Store, Kept
<1>3. QED
  BY <1>1, <1>2

LEMMA WriteBackKeeps ==
  ASSUME NEW S, journal \in Seq(S), WriteBack
  PROVE  /\ journal' \in Seq(S) /\ journal' # << >>
         /\ Store' = Store
         /\ Kept' \subseteq Kept
<1>1. /\ journal' = Tail(journal) /\ Len(journal) > 1
      /\ Len(journal') = Len(journal) - 1 /\ journal' \in Seq(S)
  BY DEF WriteBack
<1>2. \A i \in DOMAIN journal' : journal'[i] = journal[i + 1] /\ i + 1 \in DOMAIN journal
  BY <1>1
<1>3. QED
  BY <1>1, <1>2 DEF Store, Kept

LEMMA ReopenKeeps ==
  ASSUME NEW S, journal \in Seq(S), NEW n, Reopen(n)
  PROVE  /\ journal' \in Seq(S) /\ journal' # << >>
         /\ Store' = journal'[1] /\ Store' \in Kept
         /\ Kept' \subseteq Kept
BY DEF Reopen, Store, Kept

-----------------------------------------------------------------------------
(* Type correctness. *)

(* An update under way has a root to store. *)
ArgIsRoot == pc \in {"putHistory", "putCurrent"} => arg \in Roots

LEMMA WithHistoryType ==
  ASSUME NEW s \in Contents, NEW r \in Roots, NEW k \in Times, NEW t \in Times
  PROVE  /\ WithHistory(s, k, r, t) \in Contents
         /\ WithHistory(s, k, r, t).cur = s.cur
         /\ WithHistory(s, k, r, t).hist =
              {e \in s.hist : e.key # k} \cup {[key |-> k, root |-> r, ts |-> t]}
BY DEF Contents, Entry, WithHistory

LEMMA WithCurrentType ==
  ASSUME NEW s \in Contents, NEW r \in Roots \cup {NoRoot}
  PROVE  /\ WithCurrent(s, r) \in Contents
         /\ WithCurrent(s, r).cur = r
         /\ WithCurrent(s, r).hist = s.hist
BY DEF Contents, WithCurrent

LEMMA WithoutHistoryType ==
  ASSUME NEW s \in Contents
  PROVE  /\ WithoutHistory(s) \in Contents
         /\ WithoutHistory(s).cur = s.cur
         /\ WithoutHistory(s).hist = {}
BY DEF Contents, WithoutHistory

LEMMA TypeInit == Init => TypeOK /\ ArgIsRoot
BY TimeAssumption DEF Init, InitTrie, TypeOK, ArgIsRoot, Empty, Contents, Entry, Times

LEMMA TypeStep == TypeOK /\ ArgIsRoot /\ [Next]_vars => TypeOK' /\ ArgIsRoot'
<1> SUFFICES ASSUME TypeOK, ArgIsRoot, [Next]_vars PROVE TypeOK' /\ ArgIsRoot'
  OBVIOUS
<1> USE DEF TypeOK, ArgIsRoot
<1>0. Store \in Contents
  BY StoreIsKept
<1>1. ASSUME NEW r \in Roots, NEW t \in Times, BeginUpdate(r, t)
      PROVE  TypeOK' /\ ArgIsRoot'
  BY <1>1 DEF BeginUpdate, ReadClock
<1>2. ASSUME NEW t \in Times, PutHistory(t)
      PROVE  TypeOK' /\ ArgIsRoot'
  <2>1. WithHistory(Store, t, arg, stamp) \in Contents
    BY <1>0, <1>2, WithHistoryType DEF PutHistory
  <2>2. journal' \in Seq(Contents) /\ journal' # << >>
    BY <1>2, <2>1, WriteKeeps DEF PutHistory, FailedWrite
  <2>3. QED
    BY <1>2, <2>2 DEF PutHistory, ReadClock, Done
<1>3. CASE PutCurrent
  <2>1. WithCurrent(Store, arg) \in Contents
    BY <1>0, <1>3, WithCurrentType DEF PutCurrent
  <2>2. journal' \in Seq(Contents) /\ journal' # << >>
    BY <1>3, <2>1, WriteKeeps DEF PutCurrent, FailedWrite
  <2>3. QED
    BY <1>3, <2>2 DEF PutCurrent, Done
<1>4. CASE ClearCurrent
  <2>1. WithCurrent(Store, NoRoot) \in Contents
    BY <1>0, WithCurrentType
  <2>2. journal' \in Seq(Contents) /\ journal' # << >>
    BY <1>4, <2>1, WriteKeeps DEF ClearCurrent, FailedWrite
  <2>3. QED
    BY <1>4, <2>2 DEF ClearCurrent, Done
<1>5. CASE ClearHistory
  <2>1. WithoutHistory(Store) \in Contents
    BY <1>0, WithoutHistoryType
  <2>2. journal' \in Seq(Contents) /\ journal' # << >>
    BY <1>5, <2>1, WriteKeeps DEF ClearHistory, FailedWrite
  <2>3. QED
    BY <1>5, <2>2 DEF ClearHistory, Done
<1>6. ASSUME NEW n, Reopen(n), NewStateTrie, outcome' \in {"ok", "failed"}
      PROVE  TypeOK' /\ ArgIsRoot'
  <2>1. journal' \in Seq(Contents) /\ journal' # << >> /\ journal'[1] = Store'
    BY <1>6, ReopenKeeps
  <2>2. journal'[1] \in Contents
    BY <2>1
  <2>3. QED
    BY <1>6, <2>1, <2>2 DEF NewStateTrie, Contents
<1>7. CASE StoreWriteBack
  <2>1. journal' \in Seq(Contents) /\ journal' # << >>
    BY <1>7, WriteBackKeeps DEF StoreWriteBack
  <2>2. QED
    BY <1>7, <2>1 DEF StoreWriteBack, trieVars
<1>8. CASE UNCHANGED vars
  BY <1>8 DEF vars, trieVars
<1>9. QED
  BY <1>1, <1>2, <1>3, <1>4, <1>5, <1>6, <1>7, <1>8 DEF Next, ProcessRestart, MachineRestart

(* Every variable of the trie and of its store has its type, whatever fails and
   whatever crashes, with any clock. *)
THEOREM TypeCorrect == Spec => []TypeOK
<1>1. Spec => [](TypeOK /\ ArgIsRoot)
  BY TypeInit, TypeStep, PTL DEF Spec
<1>2. QED
  BY <1>1, PTL

-----------------------------------------------------------------------------
(* Safety of the stored and of the cached root, with a clock that advances.   *)

(* A contents that may be found after a crash: its current root is in its
   history, and its keys are readings the clock will not give again. *)
RootRecorded(s) == s.cur # NoRoot => HasRoot(s, s.cur)
KeysArePast(s, t) == \A e \in s.hist : e.key <= t

(* CurrentInHistory and CachedInHistory are not inductive: that a put does not
   overwrite the entry of the current root needs KeysArePast, that the second
   put of UpdateRoot finds its root recorded needs the first to have been done,
   and that Clear may empty the history needs its first step to have been done. *)
SafeInv ==
  /\ \A s \in Kept : RootRecorded(s) /\ KeysArePast(s, now)
  /\ CachedInHistory
  /\ pc = "putCurrent" => HasRoot(Store, arg)
  /\ pc = "clearHistory" => Store.cur = NoRoot

LEMMA SafeInit == Init => SafeInv
BY DEF Init, InitTrie, SafeInv, Kept, RootRecorded, KeysArePast, CachedInHistory, Empty

LEMMA SafeStep ==
  ASSUME StrictClock, TypeOK, ArgIsRoot, TypeOK', SafeInv, [Next]_vars
  PROVE  SafeInv'
<1> USE DEF RootRecorded, KeysArePast, CachedInHistory, HasRoot
<1>0. /\ journal \in Seq(Contents) /\ journal # << >>
      /\ Store \in Contents /\ Store \in Kept
      /\ now \in Nat /\ now' \in Nat /\ stamp \in Times
      /\ \A s \in Kept : \A e \in s.hist : e.key \in Nat
  <2>1. journal \in Seq(Contents) /\ journal # << >> /\ stamp \in Times
    BY DEF TypeOK
  <2>2. now \in Nat /\ now' \in Nat
    BY TimeAssumption DEF TypeOK, Times
  <2>3. \A s \in Kept : s \in Contents
    BY <2>1 DEF Kept
  <2>4. \A s \in Kept : \A e \in s.hist : e.key \in Nat
    BY <2>3, TimeAssumption DEF Contents, Entry, Times
  <2>5. QED
    BY <2>1, <2>2, <2>4, StoreIsKept
<1>1. ASSUME NEW r \in Roots, NEW t \in Times, BeginUpdate(r, t)
      PROVE  SafeInv'
  <2>1. now < now' /\ Kept' = Kept /\ Store' = Store
    BY <1>1, TimeAssumption DEF BeginUpdate, ReadClock, Kept, Store, Times
  <2>2. \A s \in Kept' : RootRecorded(s) /\ KeysArePast(s, now')
    BY <1>0, <2>1 DEF SafeInv
  <2>3. QED
    BY <1>1, <2>1, <2>2 DEF SafeInv, BeginUpdate
<1>2. ASSUME NEW t \in Times, PutHistory(t)
      PROVE  SafeInv'
  <2> DEFINE s == WithHistory(Store, t, arg, stamp)
  <2>1. now < t /\ now' = t /\ cached' = cached /\ arg' = arg /\ arg \in Roots /\ t \in Nat
    BY <1>2, TimeAssumption DEF PutHistory, ReadClock, Times, ArgIsRoot
  <2>2. CASE Write(s) /\ pc' = "putCurrent"
    <3>1. /\ s \in Contents /\ s.cur = Store.cur
          /\ s.hist = {e \in Store.hist : e.key # t}
                        \cup {[key |-> t, root |-> arg, ts |-> stamp]}
      BY <1>0, <2>1, WithHistoryType
    <3>2. \A e \in Store.hist : e.key # t
      BY <1>0, <2>1 DEF SafeInv
    <3> HIDE DEF s
    <3>3. s.hist = Store.hist \cup {[key |-> t, root |-> arg, ts |-> stamp]}
      BY <3>1, <3>2
    <3>4. KeysArePast(s, t)
      BY <1>0, <2>1, <3>3 DEF SafeInv
    <3>5. HasRoot(s, arg)
      <4>1. [key |-> t, root |-> arg, ts |-> stamp] \in s.hist
        BY <3>3
      <4>2. QED
        BY <4>1
    <3>6. \A r : HasRoot(Store, r) => HasRoot(s, r)
      BY <3>3
    <3>7. RootRecorded(s)
      BY <1>0, <3>1, <3>6 DEF SafeInv
    <3>8. Store' = s /\ Kept' \subseteq Kept \cup {s}
      BY <1>0, <2>2, <3>1, WriteKeeps
    <3>9. \A c \in Kept' : RootRecorded(c) /\ KeysArePast(c, now')
      BY <1>0, <2>1, <3>4, <3>7, <3>8 DEF SafeInv
    <3>10. QED
      BY <2>1, <2>2, <3>5, <3>6, <3>8, <3>9 DEF SafeInv
  <2>3. CASE FailedWrite /\ pc' = "idle"
    <3>1. Store' = Store /\ Kept' = Kept
      BY <2>3 DEF FailedWrite, Store, Kept
    <3>2. \A c \in Kept' : RootRecorded(c) /\ KeysArePast(c, now')
      BY <1>0, <2>1, <3>1 DEF SafeInv
    <3>3. QED
      BY <2>1, <2>3, <3>1, <3>2 DEF SafeInv
  <2>4. QED
    BY <1>2, <2>2, <2>3 DEF PutHistory, Done
<1>3. CASE PutCurrent
  <2> DEFINE s == WithCurrent(Store, arg)
  <2>1. cached' = arg /\ pc' = "idle" /\ now' = now /\ arg \in Roots /\ HasRoot(Store, arg)
    BY <1>3 DEF PutCurrent, Done, ArgIsRoot, SafeInv
  <2>2. CASE Write(s)
    <3>1. s \in Contents /\ s.cur = arg /\ s.hist = Store.hist
      BY <1>0, <2>1, WithCurrentType
    <3>2. HasRoot(s, arg) /\ RootRecorded(s) /\ KeysArePast(s, now)
      BY <1>0, <2>1, <3>1 DEF SafeInv
    <3> HIDE DEF s
    <3>3. Store' = s /\ Kept' \subseteq Kept \cup {s}
      BY <1>0, <2>2, <3>1, WriteKeeps
    <3>4. QED
      BY <2>1, <3>2, <3>3 DEF SafeInv
  <2>3. CASE FailedWrite
    BY <2>1, <2>3 DEF FailedWrite, SafeInv, Store, Kept
  <2>4. QED
    BY <1>3, <2>2, <2>3 DEF PutCurrent
<1>4. CASE ClearCurrent
  <2> DEFINE s == WithCurrent(Store, NoRoot)
  <2>1. cached' = cached /\ now' = now
    BY <1>4 DEF ClearCurrent
  <2>2. CASE Write(s) /\ pc' = "clearHistory"
    <3>1. s \in Contents /\ s.cur = NoRoot /\ s.hist = Store.hist
      BY <1>0, WithCurrentType
    <3>2. RootRecorded(s) /\ KeysArePast(s, now)
      BY <1>0, <3>1 DEF SafeInv
    <3> HIDE DEF s
    <3>3. Store' = s /\ Kept' \subseteq Kept \cup {s}
      BY <1>0, <2>2, <3>1, WriteKeeps
    <3>4. QED
      BY <2>1, <2>2, <3>1, <3>2, <3>3 DEF SafeInv
  <2>3. CASE FailedWrite /\ pc' = "idle"
    BY <2>1, <2>3 DEF FailedWrite, SafeInv, Store, Kept
  <2>4. QED
    BY <1>4, <2>2, <2>3 DEF ClearCurrent, Done
<1>5. CASE ClearHistory
  <2> DEFINE s == WithoutHistory(Store)
  <2>1. pc' = "idle" /\ now' = now /\ Store.cur = NoRoot
    BY <1>5 DEF ClearHistory, Done, SafeInv
  <2>2. CASE Write(s) /\ cached' = NoRoot
    <3>1. s \in Contents /\ s.cur = NoRoot /\ s.hist = {}
      BY <1>0, <2>1, WithoutHistoryType
    <3>2. RootRecorded(s) /\ KeysArePast(s, now)
      BY <3>1
    <3> HIDE DEF s
    <3>3. Store' = s /\ Kept' \subseteq Kept \cup {s}
      BY <1>0, <2>2, <3>1, WriteKeeps
    <3>4. QED
      BY <2>1, <2>2, <3>2, <3>3 DEF SafeInv
  <2>3. CASE FailedWrite /\ cached' = cached
    BY <2>1, <2>3 DEF FailedWrite, SafeInv, Store, Kept
  <2>4. QED
    BY <1>5, <2>2, <2>3 DEF ClearHistory
<1>6. ASSUME NEW n, Reopen(n), NewStateTrie
      PROVE  SafeInv'
  <2>1. Store' = journal'[1] /\ Store' \in Kept /\ Kept' \subseteq Kept
    BY <1>0, <1>6, ReopenKeeps
  <2>2. pc' = "idle" /\ now' = now /\ cached' \in {Store'.cur, NoRoot}
    BY <1>6, <2>1 DEF NewStateTrie
  <2>3. QED
    BY <2>1, <2>2 DEF SafeInv
<1>7. CASE StoreWriteBack
  <2>1. Store' = Store /\ Kept' \subseteq Kept
    BY <1>0, <1>7, WriteBackKeeps DEF StoreWriteBack
  <2>2. QED
    BY <1>7, <2>1 DEF StoreWriteBack, trieVars, SafeInv
<1>8. CASE UNCHANGED vars
  BY <1>8 DEF vars, trieVars, SafeInv, Store, Kept
<1>9. QED
  BY <1>1, <1>2, <1>3, <1>4, <1>5, <1>6, <1>7, <1>8 DEF Next, ProcessRestart, MachineRestart

LEMMA SafeAlways == StrictClock => (Spec => [](TypeOK /\ ArgIsRoot /\ SafeInv))
<1> SUFFICES ASSUME StrictClock PROVE Spec => [](TypeOK /\ ArgIsRoot /\ SafeInv)
  OBVIOUS
<1>1. Init => TypeOK /\ ArgIsRoot /\ SafeInv
  BY TypeInit, SafeInit
<1>2. TypeOK /\ ArgIsRoot /\ SafeInv /\ [Next]_vars => (TypeOK /\ ArgIsRoot /\ SafeInv)'
  BY TypeStep, SafeStep
<1>3. QED
  BY <1>1, <1>2, PTL DEF Spec

(* As long as the clock does not repeat a reading, no crash at any point of any
   sequence of updates and clears leaves a current root without its history entry. *)
THEOREM CrashSafety == StrictClock => (Spec => []CurrentInHistory)
<1>1. SafeInv => CurrentInHistory
  BY DEF SafeInv, RootRecorded, Kept, CurrentInHistory
<1>2. QED
  BY <1>1, SafeAlways, PTL

(* As long as the clock does not repeat a reading, the root answered from memory
   is always one the history knows. *)
THEOREM CacheSafety == StrictClock => (Spec => []CachedInHistory)
<1>1. SafeInv => CachedInHistory
  BY DEF SafeInv
<1>2. QED
  BY <1>1, SafeAlways, PTL

-----------------------------------------------------------------------------
(* The trie implements RootLog.                                              *)

LogState == [recorded : SUBSET Roots, current : Roots \cup {NoRoot}]

LEMMA SeenType == \A s \in Contents : Seen(s) \in LogState
BY DEF Contents, Entry, Seen, RootsOf, LogState

LEMMA SeenChanges ==
  ASSUME NEW s, NEW u
  PROVE  /\ u.hist = s.hist => Seen(u) = [Seen(s) EXCEPT !.current = u.cur]
         /\ u.cur = s.cur => Seen(u) = [Seen(s) EXCEPT !.recorded = RootsOf(u.hist)]
         /\ Seen(s).recorded = RootsOf(s.hist)
BY DEF Seen

LEMMA RootsOfUnion ==
  ASSUME NEW H, NEW f
  PROVE  RootsOf(H \cup {f}) = RootsOf(H) \cup {f.root}
BY DEF RootsOf

(* The lemmas on the journal hold for contents of any kind S that a log state can
   be seen of. *)
LEMMA LogStatesType ==
  ASSUME NEW S, \A s \in S : Seen(s) \in LogState, journal \in Seq(S), journal # << >>
  PROVE  /\ LogStates \in Seq(LogState)
         /\ Len(LogStates) = Len(journal) /\ Len(journal) \in Nat \ {0}
         /\ \A i \in 1..Len(journal) : LogStates[i] = Seen(journal[i])
         /\ Log!Latest = Seen(Store)
<1>1. DOMAIN journal = 1..Len(journal) /\ Len(journal) \in Nat \ {0}
  OBVIOUS
<1>2. \A i \in 1..Len(journal) : LogStates[i] = Seen(journal[i]) /\ LogStates[i] \in LogState
  BY <1>1 DEF LogStates
<1>3. LogStates \in Seq(LogState) /\ Len(LogStates) = Len(journal)
  BY <1>1, <1>2 DEF LogStates
<1>4. QED
  BY <1>1, <1>2, <1>3 DEF Log!Latest, Store

(* A write of s is a step of the log to what is seen of s, or changes nothing. *)
LEMMA LogWrite ==
  ASSUME NEW S, \A s \in S : Seen(s) \in LogState, journal \in Seq(S), journal # << >>,
         NEW s \in S, Write(s)
  PROVE  Log!Becomes(Seen(s)) \/ UNCHANGED LogStates
<1>1. CASE s = Store
  BY <1>1 DEF Write, LogStates
<1>2. CASE s # Store
  <2>1. journal' = Append(journal, s) /\ journal' \in Seq(S) /\ journal' # << >>
        /\ Len(journal') = Len(journal) + 1
    BY <1>2 DEF Write
  <2>2. /\ LogStates \in Seq(LogState) /\ Len(LogStates) = Len(journal)
        /\ \A i \in 1..Len(journal) : LogStates[i] = Seen(journal[i])
        /\ Len(journal) \in Nat
    BY LogStatesType
  <2>3. /\ LogStates' \in Seq(LogState) /\ Len(LogStates') = Len(journal) + 1
        /\ \A i \in 1..Len(journal)+1 : LogStates'[i] = Seen(journal'[i])
    BY <2>1, <2>2 DEF LogStates
  <2>4. /\ Append(LogStates, Seen(s)) \in Seq(LogState)
        /\ Len(Append(LogStates, Seen(s))) = Len(journal) + 1
        /\ \A i \in 1..Len(journal)+1 :
             Append(LogStates, Seen(s))[i] =
               IF i = Len(journal) + 1 THEN Seen(s) ELSE LogStates[i]
    BY <2>2
  <2>5. \A i \in 1..Len(journal)+1 : LogStates'[i] = Append(LogStates, Seen(s))[i]
    BY <2>1, <2>2, <2>3, <2>4
  <2>6. LogStates' = Append(LogStates, Seen(s))
    BY <2>3, <2>4, <2>5, SeqEqual
  <2>7. QED
    BY <2>6 DEF Log!Becomes
<1>3. QED
  BY <1>1, <1>2

LEMMA LogWriteBack ==
  ASSUME NEW S, \A s \in S : Seen(s) \in LogState, journal \in Seq(S), journal # << >>,
         WriteBack
  PROVE  Log!Persist
<1>1. /\ journal' = Tail(journal) /\ Len(journal) > 1 /\ journal' \in Seq(S)
      /\ Len(journal') = Len(journal) - 1 /\ journal' # << >>
      /\ \A i \in 1..Len(journal)-1 : journal'[i] = journal[i+1]
  BY DEF WriteBack
<1>2. /\ LogStates \in Seq(LogState) /\ Len(LogStates) = Len(journal)
      /\ \A i \in 1..Len(journal) : LogStates[i] = Seen(journal[i])
      /\ Len(journal) \in Nat
  BY LogStatesType
<1>3. /\ LogStates' \in Seq(LogState) /\ Len(LogStates') = Len(journal) - 1
      /\ \A i \in 1..Len(journal)-1 : LogStates'[i] = Seen(journal'[i])
  BY <1>1, <1>2 DEF LogStates
<1>4. /\ Tail(LogStates) \in Seq(LogState) /\ Len(Tail(LogStates)) = Len(journal) - 1
      /\ \A i \in 1..Len(journal)-1 : Tail(LogStates)[i] = LogStates[i+1]
  BY <1>1, <1>2
<1>5. \A i \in 1..Len(journal)-1 : LogStates'[i] = Tail(LogStates)[i]
  BY <1>1, <1>2, <1>3, <1>4
<1>6. LogStates' = Tail(LogStates)
  BY <1>3, <1>4, <1>5, SeqEqual
<1>7. QED
  BY <1>1, <1>2, <1>6 DEF Log!Persist

LEMMA LogReopen ==
  ASSUME NEW S, \A s \in S : Seen(s) \in LogState, journal \in Seq(S), journal # << >>,
         NEW n, Reopen(n)
  PROVE  Log!Recover
<1>1. n \in 1..Len(journal) /\ journal' = <<journal[n]>>
  BY DEF Reopen
<1>2. LogStates[n] = Seen(journal[n]) /\ n \in DOMAIN LogStates
  BY <1>1, LogStatesType
<1>3. LogStates' = <<Seen(journal[n])>>
  BY <1>1 DEF LogStates
<1>4. QED
  BY <1>2, <1>3 DEF Log!Recover

LEMMA LogInit == Init => Log!Init
<1> SUFFICES ASSUME Init PROVE Log!Init
  OBVIOUS
<1>1. LogStates = <<Seen(Empty)>>
  BY DEF Init, LogStates
<1>2. Seen(Empty) = [recorded |-> {}, current |-> NoRoot]
  BY DEF Seen, RootsOf, Empty
<1>3. QED
  BY <1>1, <1>2 DEF Log!Init

LEMMA LogStep ==
  ASSUME StrictClock, TypeOK, ArgIsRoot, SafeInv, [Next]_vars
  PROVE  Log!Next \/ UNCHANGED LogStates
<1>0. /\ journal \in Seq(Contents) /\ journal # << >>
      /\ Store \in Contents /\ Store \in Kept /\ now \in Nat /\ stamp \in Times
      /\ Log!Latest = Seen(Store)
      /\ \A e \in Store.hist : e.key \in Nat
  <2>1. /\ journal \in Seq(Contents) /\ journal # << >> /\ stamp \in Times
        /\ Store \in Contents /\ Store \in Kept
    BY StoreIsKept DEF TypeOK
  <2>2. now \in Nat /\ \A e \in Store.hist : e.key \in Nat
    BY <2>1, TimeAssumption DEF TypeOK, Times, Contents, Entry
  <2>3. QED
    BY <2>1, <2>2, SeenType, LogStatesType
<1>1. ASSUME NEW r \in Roots, NEW t \in Times, BeginUpdate(r, t)
      PROVE  UNCHANGED LogStates
  BY <1>1 DEF BeginUpdate, LogStates
<1>2. ASSUME NEW t \in Times, PutHistory(t)
      PROVE  Log!Next \/ UNCHANGED LogStates
  <2> DEFINE s == WithHistory(Store, t, arg, stamp)
  <2>1. CASE Write(s)
    <3>1. arg \in Roots /\ now < t /\ t \in Nat
      BY <1>2, TimeAssumption DEF PutHistory, ReadClock, ArgIsRoot, Times
    <3>2. /\ s \in Contents /\ s.cur = Store.cur
          /\ s.hist = {e \in Store.hist : e.key # t}
                        \cup {[key |-> t, root |-> arg, ts |-> stamp]}
      BY <1>0, <3>1, WithHistoryType
    <3>3. \A e \in Store.hist : e.key # t
      BY <1>0, <3>1 DEF SafeInv, KeysArePast
    <3> HIDE DEF s
    <3>4. s.hist = Store.hist \cup {[key |-> t, root |-> arg, ts |-> stamp]}
      BY <3>2, <3>3
    <3>5. RootsOf(s.hist) = Log!Latest.recorded \cup {arg}
      <4> DEFINE f == [key |-> t, root |-> arg, ts |-> stamp]
      <4>1. f.root = arg
        OBVIOUS
      <4> HIDE DEF f
      <4>2. RootsOf(Store.hist \cup {f}) = RootsOf(Store.hist) \cup {f.root}
        BY RootsOfUnion
      <4>3. Log!Latest.recorded = RootsOf(Store.hist)
        BY <1>0, SeenChanges
      <4>4. s.hist = Store.hist \cup {f}
        BY <3>4 DEF f
      <4>5. QED
        BY <4>1, <4>2, <4>3, <4>4
    <3>6. Seen(s) = [Log!Latest EXCEPT !.recorded = @ \cup {arg}]
      BY <1>0, <3>2, <3>5, SeenChanges
    <3>7. Log!Becomes(Seen(s)) \/ UNCHANGED LogStates
      BY <1>0, <2>1, <3>2, SeenType, LogWrite
    <3>8. QED
      BY <3>1, <3>6, <3>7 DEF Log!Next, Log!Record
  <2>2. CASE FailedWrite
    BY <2>2 DEF FailedWrite, LogStates
  <2>3. QED
    BY <1>2, <2>1, <2>2 DEF PutHistory
<1>3. CASE PutCurrent
  <2> DEFINE s == WithCurrent(Store, arg)
  <2>1. CASE Write(s)
    <3>1. arg \in Roots /\ HasRoot(Store, arg)
      BY <1>3 DEF PutCurrent, ArgIsRoot, SafeInv
    <3>2. s \in Contents /\ s.cur = arg /\ s.hist = Store.hist
      BY <1>0, <3>1, WithCurrentType
    <3> HIDE DEF s
    <3>3. arg \in Log!Latest.recorded
      BY <1>0, <3>1 DEF HasRoot, Seen, RootsOf
    <3>4. Seen(s) = [Log!Latest EXCEPT !.current = arg]
      BY <1>0, <3>2, SeenChanges
    <3>5. Log!Becomes(Seen(s)) \/ UNCHANGED LogStates
      BY <1>0, <2>1, <3>2, SeenType, LogWrite
    <3>6. QED
      BY <3>1, <3>3, <3>4, <3>5 DEF Log!Next, Log!Adopt
  <2>2. CASE FailedWrite
    BY <2>2 DEF FailedWrite, LogStates
  <2>3. QED
    BY <1>3, <2>1, <2>2 DEF PutCurrent
<1>4. CASE ClearCurrent
  <2> DEFINE s == WithCurrent(Store, NoRoot)
  <2>1. CASE Write(s)
    <3>1. s \in Contents /\ s.cur = NoRoot /\ s.hist = Store.hist
      BY <1>0, WithCurrentType
    <3> HIDE DEF s
    <3>2. Seen(s) = [Log!Latest EXCEPT !.current = NoRoot]
      BY <1>0, <3>1, SeenChanges
    <3>3. Log!Becomes(Seen(s)) \/ UNCHANGED LogStates
      BY <1>0, <2>1, <3>1, SeenType, LogWrite
    <3>4. QED
      BY <3>2, <3>3 DEF Log!Next, Log!Retire
  <2>2. CASE FailedWrite
    BY <2>2 DEF FailedWrite, LogStates
  <2>3. QED
    BY <1>4, <2>1, <2>2 DEF ClearCurrent
<1>5. CASE ClearHistory
  <2> DEFINE s == WithoutHistory(Store)
  <2>1. CASE Write(s)
    <3>1. Store.cur = NoRoot
      BY <1>5 DEF ClearHistory, SafeInv
    <3>2. s \in Contents /\ s.cur = Store.cur /\ s.hist = {}
      BY <1>0, WithoutHistoryType
    <3> HIDE DEF s
    <3>3. Seen(s) = [Log!Latest EXCEPT !.recorded = {}]
      BY <1>0, <3>2, SeenChanges DEF RootsOf
    <3>4. Log!Latest.current = NoRoot
      BY <1>0, <3>1 DEF Seen
    <3>5. Log!Becomes(Seen(s)) \/ UNCHANGED LogStates
      BY <1>0, <2>1, <3>2, SeenType, LogWrite
    <3>6. QED
      BY <3>3, <3>4, <3>5 DEF Log!Next, Log!Purge
  <2>2. CASE FailedWrite
    BY <2>2 DEF FailedWrite, LogStates
  <2>3. QED
    BY <1>5, <2>1, <2>2 DEF ClearHistory
<1>6. ASSUME NEW n, Reopen(n)
      PROVE  Log!Next
  BY <1>0, <1>6, SeenType, LogReopen DEF Log!Next
<1>7. CASE StoreWriteBack
  BY <1>0, <1>7, SeenType, LogWriteBack DEF StoreWriteBack, Log!Next
<1>8. CASE UNCHANGED vars
  BY <1>8 DEF vars, LogStates
<1>9. QED
  BY <1>1, <1>2, <1>3, <1>4, <1>5, <1>6, <1>7, <1>8 DEF Next, ProcessRestart, MachineRestart

(* As long as the clock does not repeat a reading, everything the trie does to its
   store, crashes included, is allowed by RootLog: roots are recorded before they
   become current and dropped only after they ceased to be. *)
THEOREM Refinement == StrictClock => (Spec => ImplementsRootLog)
<1> SUFFICES ASSUME StrictClock PROVE Spec => ImplementsRootLog
  OBVIOUS
<1>1. Init => Log!Init
  BY LogInit
<1>2. TypeOK /\ ArgIsRoot /\ SafeInv /\ [Next]_vars => [Log!Next]_LogStates
  BY LogStep
<1>3. Spec => [](TypeOK /\ ArgIsRoot /\ SafeInv)
  BY SafeAlways
<1>4. QED
  BY <1>1, <1>2, <1>3, PTL DEF Spec, ImplementsRootLog, Log!Spec

-----------------------------------------------------------------------------
(* A restart between operations.                                             *)

(* After an operation that returned nil the cache holds nothing or what the store
   holds; a restart that comes upon an unfinished operation makes it a failed one. *)
CacheIsStored == pc = "idle" /\ outcome = "ok" => cached \in {NoRoot, Store.cur}

LEMMA CacheInit == Init => CacheIsStored
BY DEF Init, InitTrie, CacheIsStored

LEMMA CacheStep == TypeOK /\ ArgIsRoot /\ CacheIsStored /\ [Next]_vars => CacheIsStored'
<1> SUFFICES ASSUME TypeOK, ArgIsRoot, CacheIsStored, [Next]_vars PROVE CacheIsStored'
  OBVIOUS
<1> USE DEF CacheIsStored
<1>0. journal \in Seq(Contents) /\ journal # << >> /\ Store \in Contents
  BY StoreIsKept DEF TypeOK
<1>1. CASE pc' # "idle" \/ outcome' = "failed"
  BY <1>1
<1>2. CASE PutCurrent
  <2>1. CASE Write(WithCurrent(Store, arg)) /\ cached' = arg
    <3>1. WithCurrent(Store, arg) \in Contents /\ WithCurrent(Store, arg).cur = arg
      BY <1>0, <1>2, WithCurrentType DEF PutCurrent, ArgIsRoot
    <3>2. Store' = WithCurrent(Store, arg)
      BY <1>0, <2>1, <3>1, WriteKeeps
    <3>3. QED
      BY <2>1, <3>1, <3>2
  <2>2. QED
    BY <1>1, <1>2, <2>1 DEF PutCurrent, Done
<1>3. CASE ClearHistory
  BY <1>1, <1>3 DEF ClearHistory, Done
<1>4. CASE ProcessRestart
  <2>1. Store' = journal'[1]
    BY <1>0, <1>4, ReopenKeeps DEF ProcessRestart
  <2>2. QED
    BY <1>1, <1>4, <2>1 DEF ProcessRestart, NewStateTrie
<1>5. CASE StoreWriteBack
  <2>1. Store' = Store
    BY <1>0, <1>5, WriteBackKeeps DEF StoreWriteBack
  <2>2. QED
    BY <1>5, <2>1 DEF StoreWriteBack, trieVars
<1>6. CASE UNCHANGED vars
  BY <1>6 DEF vars, trieVars, Store
<1>7. QED
  BY <1>1, <1>2, <1>3, <1>4, <1>5, <1>6
     DEF Next, BeginUpdate, PutHistory, ClearCurrent, MachineRestart, Done

(* With any clock, whatever failed before: a restart after an operation that
   returned nil does not change the current root. *)
THEOREM RestartSafety == Spec => RestartKeepsRoot
<1>1. TypeOK /\ CacheIsStored =>
        (ProcessRestart /\ pc = "idle" /\ outcome = "ok" => GetCurrentRoot' = GetCurrentRoot)
  <2> SUFFICES ASSUME TypeOK, CacheIsStored, ProcessRestart, pc = "idle", outcome = "ok"
               PROVE  GetCurrentRoot' = GetCurrentRoot
    OBVIOUS
  <2>1. Store' = journal'[1] /\ journal'[1] = Store
    BY DEF ProcessRestart, Reopen, Store, TypeOK
  <2>2. cached \in {NoRoot, Store.cur} /\ cached' \in {NoRoot, Store.cur}
    BY <2>1 DEF CacheIsStored, ProcessRestart, NewStateTrie
  <2>3. QED
    BY <2>1, <2>2 DEF GetCurrentRoot
<1>2. Init => TypeOK /\ ArgIsRoot /\ CacheIsStored
  BY TypeInit, CacheInit
<1>3. TypeOK /\ ArgIsRoot /\ CacheIsStored /\ [Next]_vars => (TypeOK /\ ArgIsRoot /\ CacheIsStored)'
  BY TypeStep, CacheStep
<1>4. QED
  BY <1>1, <1>2, <1>3, PTL DEF Spec, RestartKeepsRoot

-----------------------------------------------------------------------------
(* The past.                                                                 *)

(* An answer about t rests on the entries that are not after t. *)
LEMMA EntriesTell ==
  ASSUME NEW t, NEW s, NEW u,
         \A e : e \in s.hist /\ e.ts <= t <=> e \in u.hist /\ e.ts <= t
  PROVE  GetRootAtTime(u, t) = GetRootAtTime(s, t)
<1> DEFINE Closest(c) == CHOOSE e \in c.hist : IsClosest(c, t, e)
<1>1. \A e : e \in s.hist /\ IsClosest(s, t, e) <=> e \in u.hist /\ IsClosest(u, t, e)
  BY DEF IsClosest
<1>2. Closest(s) = Closest(u)
  BY <1>1
<1>3. \A c : GetRootAtTime(c, t) = IF \E e \in c.hist : e.ts <= t THEN Closest(c).root ELSE NoRoot
  BY DEF GetRootAtTime
<1> HIDE DEF Closest
<1>4. QED
  BY <1>2, <1>3

LEMMA PastStep ==
  ASSUME StrictClock, TypeOK, ArgIsRoot, SafeInv, [Next]_vars, ~ClearHistory, ~MachineRestart,
         NEW t \in 0..now, pc = "putHistory" => t < stamp
  PROVE  GetRootAtTime(Store', t) = GetRootAtTime(Store, t)
<1>0. /\ journal \in Seq(Contents) /\ journal # << >>
      /\ Store \in Contents /\ Store \in Kept
      /\ now \in Nat /\ stamp \in Times /\ stamp \in Nat /\ t \in Nat
      /\ \A e \in Store.hist : e.key \in Nat /\ e.ts \in Nat
  <2>1. /\ journal \in Seq(Contents) /\ journal # << >> /\ stamp \in Times
        /\ Store \in Contents /\ Store \in Kept
    BY StoreIsKept DEF TypeOK
  <2>2. now \in Nat /\ stamp \in Nat /\ \A e \in Store.hist : e.key \in Nat /\ e.ts \in Nat
    BY <2>1, TimeAssumption DEF TypeOK, Times, Contents, Entry
  <2>3. QED
    BY <2>1, <2>2
<1>1. CASE Store'.hist = Store.hist
  BY <1>1, EntriesTell
<1>2. ASSUME NEW k \in Times, PutHistory(k)
      PROVE  GetRootAtTime(Store', t) = GetRootAtTime(Store, t)
  <2> DEFINE s == WithHistory(Store, k, arg, stamp)
             f == [key |-> k, root |-> arg, ts |-> stamp]
  <2>1. CASE Write(s)
    <3>1. arg \in Roots /\ now < k /\ k \in Nat /\ t < stamp
      BY <1>2, TimeAssumption DEF PutHistory, ReadClock, ArgIsRoot, Times
    <3>2. s \in Contents /\ s.hist = {e \in Store.hist : e.key # k} \cup {f}
      BY <1>0, <3>1, WithHistoryType
    <3>3. \A e \in Store.hist : e.key # k
      BY <1>0, <3>1 DEF SafeInv, KeysArePast
    <3>4. f.ts = stamp
      OBVIOUS
    <3>5. Store' = s
      BY <1>0, <2>1, <3>2, WriteKeeps
    <3> HIDE DEF s, f
    <3>6. Store'.hist = Store.hist \cup {f}
      BY <3>2, <3>3, <3>5
    <3>7. \A e : e \in Store.hist /\ e.ts <= t <=> e \in Store'.hist /\ e.ts <= t
      BY <1>0, <3>1, <3>4, <3>6
    <3>8. QED
      BY <3>7, EntriesTell
  <2>2. CASE FailedWrite
    BY <1>1, <2>2 DEF FailedWrite, Store
  <2>3. QED
    BY <1>2, <2>1, <2>2 DEF PutHistory
<1>3. ASSUME NEW r \in Roots \cup {NoRoot},
             Write(WithCurrent(Store, r)) \/ FailedWrite
      PROVE  GetRootAtTime(Store', t) = GetRootAtTime(Store, t)
  <2>1. CASE Write(WithCurrent(Store, r))
    <3>1. WithCurrent(Store, r) \in Contents /\ WithCurrent(Store, r).hist = Store.hist
      BY <1>0, WithCurrentType
    <3>2. Store' = WithCurrent(Store, r)
      BY <1>0, <2>1, <3>1, WriteKeeps
    <3>3. QED
      BY <1>1, <3>1, <3>2
  <2>2. CASE FailedWrite
    BY <1>1, <2>2 DEF FailedWrite, Store
  <2>3. QED
    BY <1>3, <2>1, <2>2
<1>4. CASE PutCurrent
  BY <1>3, <1>4 DEF PutCurrent, ArgIsRoot
<1>5. CASE ClearCurrent
  BY <1>3, <1>5 DEF ClearCurrent
<1>6. CASE ProcessRestart
  <2>1. Store' = Store
    BY <1>0, <1>6 DEF ProcessRestart, Reopen, Store
  <2>2. QED
    BY <1>1, <2>1
<1>7. CASE StoreWriteBack
  <2>1. Store' = Store
    BY <1>0, <1>7, WriteBackKeeps DEF StoreWriteBack
  <2>2. QED
    BY <1>1, <2>1
<1>8. CASE UNCHANGED journal
  BY <1>1, <1>8 DEF Store
<1>9. QED
  BY <1>2, <1>4, <1>5, <1>6, <1>7, <1>8 DEF Next, BeginUpdate, vars

(* As long as the clock does not repeat a reading, an answer about a moment before
   the update under way does not change until Clear or a power loss takes entries. *)
THEOREM PastSafety == StrictClock => (Spec => PastIsStable)
<1> SUFFICES ASSUME StrictClock PROVE Spec => PastIsStable
  OBVIOUS
<1>1. TypeOK /\ ArgIsRoot /\ SafeInv /\ [Next]_vars =>
        (~ClearHistory /\ ~MachineRestart =>
           \A t \in 0..now : (pc = "putHistory" => t < stamp) =>
             GetRootAtTime(Store', t) = GetRootAtTime(Store, t))
  BY PastStep
<1>2. QED
  BY <1>1, SafeAlways, PTL DEF Spec, PastIsStable
-----------------------------------------------------------------------------
(* The three ways to ask for the root.                                       *)

(* r is the root of the newest entry, which is later than every other by its key and
   by its Timestamp; without entries there is none. *)
Leads(s, r) ==
  IF s.hist = {} THEN r = NoRoot
  ELSE \E e \in s.hist : e.root = r /\ \A f \in s.hist \ {e} : f.key < e.key /\ f.ts < e.ts

LEMMA LeaderAtTime ==
  ASSUME NEW s \in Contents, NEW r, Leads(s, r), NEW t \in Nat, \A e \in s.hist : e.ts <= t
  PROVE  GetRootAtTime(s, t) = r
<1>0. \A e \in s.hist : e.key \in Nat /\ e.ts \in Nat
  BY TimeAssumption DEF Contents, Entry, Times
<1>1. CASE s.hist = {}
  BY <1>1 DEF Leads, GetRootAtTime
<1>2. CASE s.hist # {}
  <2>1. PICK e \in s.hist : e.root = r /\ \A f \in s.hist \ {e} : f.key < e.key /\ f.ts < e.ts
    BY <1>2 DEF Leads
  <2>2. IsClosest(s, t, e)
    BY <1>0, <2>1 DEF IsClosest
  <2>3. \A c \in s.hist : IsClosest(s, t, c) => c = e
    BY <1>0, <2>1 DEF IsClosest
  <2>4. (CHOOSE c \in s.hist : IsClosest(s, t, c)) = e
    BY <2>1, <2>2, <2>3
  <2>5. QED
    BY <2>1, <2>4 DEF GetRootAtTime
<1>3. QED
  BY <1>1, <1>2

LEMMA LeaderIsFirst ==
  ASSUME NEW s \in Contents, NEW r, Leads(s, r), IsFiniteSet(s.hist)
  PROVE  LET newest == GetRootHistory(s, 1)
         IN  IF s.hist = {} THEN newest = << >> ELSE newest # << >> /\ newest[1].root = r
<1> DEFINE Later(e) == {f \in s.hist : f.key > e.key}
           length == IF 1 < Cardinality(s.hist) THEN 1 ELSE Cardinality(s.hist)
           newest == [i \in 1..length |-> CHOOSE e \in s.hist : Cardinality(Later(e)) = i - 1]
<1>0. \A e \in s.hist : e.key \in Nat
  BY TimeAssumption DEF Contents, Entry, Times
<1>1. GetRootHistory(s, 1) = newest
  BY DEF GetRootHistory
<1>2. Cardinality(s.hist) \in Nat /\ (Cardinality(s.hist) = 0 <=> s.hist = {})
  BY FS_CardinalityType, FS_EmptySet
<1>3. CASE s.hist = {}
  <2>1. length = 0
    BY <1>2, <1>3
  <2> HIDE DEF length
  <2>2. newest = << >>
    BY <2>1
  <2>3. QED
    BY <1>1, <1>3, <2>2
<1>4. CASE s.hist # {}
  <2>1. length = 1
    BY <1>2, <1>4
  <2>2. PICK e \in s.hist : e.root = r /\ \A f \in s.hist \ {e} : f.key < e.key /\ f.ts < e.ts
    BY <1>4 DEF Leads
  <2>3. ASSUME NEW c \in s.hist
        PROVE  Cardinality(Later(c)) = 0 <=> c = e
    <3>1. IsFiniteSet(Later(c))
      BY FS_Subset
    <3>2. Cardinality(Later(c)) = 0 <=> Later(c) = {}
      BY <3>1, FS_EmptySet
    <3>3. Later(c) = {} <=> c = e
      BY <1>0, <2>2
    <3>4. QED
      BY <3>2, <3>3
  <2> HIDE DEF Later
  <2>4. (CHOOSE c \in s.hist : Cardinality(Later(c)) = 0) = e
    BY <2>3
  <2> HIDE DEF length
  <2>5. newest[1] = e /\ newest # << >>
    BY <2>1, <2>4
  <2>6. QED
    BY <1>1, <1>4, <2>2, <2>5
<1>5. QED
  BY <1>3, <1>4

(* QueriesAgree is not inductive: the entry that PutCurrent makes current was stored two
   steps before, and that it is the newest one rests on no kept contents having an entry
   of a later moment, whichever of them a crash went back to. *)
NewestInv ==
  /\ \A s \in Kept : IsFiniteSet(s.hist) /\ \A e \in s.hist : e.ts <= now
  /\ pc = "putHistory" => stamp <= now /\ \A e \in Store.hist : e.ts < stamp
  /\ pc = "putCurrent" => Leads(Store, arg)
  /\ pc = "idle" /\ outcome = "ok" => Leads(Store, Store.cur)

LEMMA NewestInit == Init => NewestInv
BY FS_EmptySet DEF Init, InitTrie, NewestInv, Kept, Empty, Store, Leads

LEMMA NewestStep ==
  ASSUME StrictClock, TypeOK, ArgIsRoot, SafeInv, NewestInv, [Next]_vars
  PROVE  NewestInv'
<1>0. /\ journal \in Seq(Contents) /\ journal # << >>
      /\ Store \in Contents /\ Store \in Kept
      /\ now \in Nat /\ stamp \in Times /\ stamp \in Nat
      /\ \A s \in Kept : \A e \in s.hist : e.key \in Nat /\ e.ts \in Nat
  <2>1. /\ journal \in Seq(Contents) /\ journal # << >> /\ stamp \in Times
        /\ Store \in Contents /\ Store \in Kept
    BY StoreIsKept DEF TypeOK
  <2>2. now \in Nat /\ stamp \in Nat
    BY <2>1, TimeAssumption DEF TypeOK, Times
  <2>3. \A s \in Kept : s \in Contents
    BY <2>1 DEF Kept
  <2>4. \A s \in Kept : \A e \in s.hist : e.key \in Nat /\ e.ts \in Nat
    BY <2>3, TimeAssumption DEF Contents, Entry, Times
  <2>5. QED
    BY <2>1, <2>2, <2>4
<1>1. ASSUME NEW r \in Roots, NEW t \in Times, BeginUpdate(r, t)
      PROVE  NewestInv'
  <2>1. /\ now < t /\ now' = t /\ stamp' = t /\ pc' = "putHistory" /\ t \in Nat
        /\ Kept' = Kept /\ Store' = Store
    BY <1>1, TimeAssumption DEF BeginUpdate, ReadClock, Kept, Store, Times
  <2>2. \A s \in Kept : IsFiniteSet(s.hist) /\ \A e \in s.hist : e.ts < t
    BY <1>0, <2>1 DEF NewestInv
  <2>3. QED
    BY <1>0, <2>1, <2>2 DEF NewestInv
<1>2. ASSUME NEW t \in Times, PutHistory(t)
      PROVE  NewestInv'
  <2> DEFINE s == WithHistory(Store, t, arg, stamp)
             f == [key |-> t, root |-> arg, ts |-> stamp]
  <2>1. /\ now < t /\ now' = t /\ arg' = arg /\ arg \in Roots /\ t \in Nat
        /\ stamp <= now /\ \A e \in Store.hist : e.ts < stamp /\ e.key <= now
    BY <1>0, <1>2, TimeAssumption
       DEF PutHistory, ReadClock, Times, ArgIsRoot, NewestInv, SafeInv, KeysArePast
  <2>2. \A c \in Kept : IsFiniteSet(c.hist) /\ \A e \in c.hist : e.ts <= t
    BY <1>0, <2>1 DEF NewestInv
  <2>3. CASE Write(s) /\ pc' = "putCurrent"
    <3>1. s \in Contents /\ s.hist = {e \in Store.hist : e.key # t} \cup {f}
      BY <1>0, <2>1, WithHistoryType
    <3>2. f.key = t /\ f.root = arg /\ f.ts = stamp
      OBVIOUS
    <3> HIDE DEF s, f
    <3>3. s.hist = Store.hist \cup {f}
      BY <1>0, <2>1, <3>1
    <3>4. Leads(s, arg)
      <4>1. \A e \in s.hist \ {f} : e.key < f.key /\ e.ts < f.ts
        BY <1>0, <2>1, <3>2, <3>3
      <4>2. QED
        BY <3>2, <3>3, <4>1 DEF Leads
    <3>5. IsFiniteSet(s.hist) /\ \A e \in s.hist : e.ts <= t
      BY <1>0, <2>1, <2>2, <3>2, <3>3, FS_AddElement
    <3>6. Store' = s /\ Kept' \subseteq Kept \cup {s}
      BY <1>0, <2>3, <3>1, WriteKeeps
    <3>7. QED
      BY <2>1, <2>2, <2>3, <3>4, <3>5, <3>6 DEF NewestInv
  <2>4. CASE FailedWrite /\ pc' = "idle" /\ outcome' = "failed"
    <3>1. Kept' = Kept
      BY <2>4 DEF FailedWrite, Kept
    <3>2. QED
      BY <2>1, <2>2, <2>4, <3>1 DEF NewestInv
  <2>5. QED
    BY <1>2, <2>3, <2>4 DEF PutHistory, Done
<1>3. CASE PutCurrent
  <2> DEFINE s == WithCurrent(Store, arg)
  <2>1. pc' = "idle" /\ now' = now /\ arg \in Roots /\ Leads(Store, arg)
    BY <1>3 DEF PutCurrent, Done, ArgIsRoot, NewestInv
  <2>2. CASE Write(s)
    <3>1. s \in Contents /\ s.cur = arg /\ s.hist = Store.hist
      BY <1>0, <2>1, WithCurrentType
    <3> HIDE DEF s
    <3>2. Leads(s, s.cur)
      BY <2>1, <3>1 DEF Leads
    <3>3. Store' = s /\ Kept' \subseteq Kept \cup {s}
      BY <1>0, <2>2, <3>1, WriteKeeps
    <3>4. QED
      BY <1>0, <2>1, <3>1, <3>2, <3>3 DEF NewestInv
  <2>3. CASE FailedWrite /\ outcome' = "failed"
    BY <2>1, <2>3 DEF FailedWrite, NewestInv, Kept
  <2>4. QED
    BY <1>3, <2>2, <2>3 DEF PutCurrent, Done
<1>4. CASE ClearCurrent
  <2> DEFINE s == WithCurrent(Store, NoRoot)
  <2>1. now' = now
    BY <1>4 DEF ClearCurrent
  <2>2. CASE Write(s) /\ pc' = "clearHistory"
    <3>1. s \in Contents /\ s.hist = Store.hist
      BY <1>0, WithCurrentType
    <3> HIDE DEF s
    <3>2. Kept' \subseteq Kept \cup {s}
      BY <1>0, <2>2, <3>1, WriteKeeps
    <3>3. QED
      BY <1>0, <2>1, <2>2, <3>1, <3>2 DEF NewestInv
  <2>3. CASE FailedWrite /\ pc' = "idle" /\ outcome' = "failed"
    BY <2>1, <2>3 DEF FailedWrite, NewestInv, Kept
  <2>4. QED
    BY <1>4, <2>2, <2>3 DEF ClearCurrent, Done
<1>5. CASE ClearHistory
  <2> DEFINE s == WithoutHistory(Store)
  <2>1. pc' = "idle" /\ now' = now /\ Store.cur = NoRoot
    BY <1>5 DEF ClearHistory, Done, SafeInv
  <2>2. CASE Write(s)
    <3>1. s \in Contents /\ s.cur = NoRoot /\ s.hist = {}
      BY <1>0, <2>1, WithoutHistoryType
    <3> HIDE DEF s
    <3>2. Leads(s, s.cur) /\ IsFiniteSet(s.hist)
      BY <3>1, FS_EmptySet DEF Leads
    <3>3. Store' = s /\ Kept' \subseteq Kept \cup {s}
      BY <1>0, <2>2, <3>1, WriteKeeps
    <3>4. QED
      BY <2>1, <3>1, <3>2, <3>3 DEF NewestInv
  <2>3. CASE FailedWrite /\ outcome' = "failed"
    BY <2>1, <2>3 DEF FailedWrite, NewestInv, Kept
  <2>4. QED
    BY <1>5, <2>2, <2>3 DEF ClearHistory, Done
<1>6. CASE ProcessRestart
  <2>1. Store' = Store /\ Kept' \subseteq Kept
    BY <1>0, <1>6, ReopenKeeps DEF ProcessRestart, Reopen, Store
  <2>2. pc' = "idle" /\ now' = now /\ (outcome' = "ok" => pc = "idle" /\ outcome = "ok")
    BY <1>6 DEF ProcessRestart, NewStateTrie
  <2>3. QED
    BY <2>1, <2>2 DEF NewestInv
<1>7. CASE MachineRestart
  <2>1. Kept' \subseteq Kept
    BY <1>0, <1>7, ReopenKeeps DEF MachineRestart
  <2>2. pc' = "idle" /\ now' = now /\ outcome' = "failed"
    BY <1>7 DEF MachineRestart, NewStateTrie
  <2>3. QED
    BY <2>1, <2>2 DEF NewestInv
<1>8. CASE StoreWriteBack
  <2>1. Store' = Store /\ Kept' \subseteq Kept
    BY <1>0, <1>8, WriteBackKeeps DEF StoreWriteBack
  <2>2. QED
    BY <1>8, <2>1 DEF StoreWriteBack, trieVars, NewestInv
<1>9. CASE UNCHANGED vars
  BY <1>9 DEF vars, trieVars, NewestInv, Store, Kept
<1>10. QED
  BY <1>1, <1>2, <1>3, <1>4, <1>5, <1>6, <1>7, <1>8, <1>9 DEF Next

(* As long as the clock does not repeat a reading: after an operation that returned nil
   the current root, the root at this time and the newest entry of the history are one,
   whatever failed, died or was lost before. *)
THEOREM QueriesSafety == StrictClock => (Spec => []QueriesAgree)
<1> SUFFICES ASSUME StrictClock PROVE Spec => []QueriesAgree
  OBVIOUS
<1>1. TypeOK /\ CacheIsStored /\ NewestInv => QueriesAgree
  <2> SUFFICES ASSUME TypeOK, CacheIsStored, NewestInv, pc = "idle", outcome = "ok"
               PROVE  /\ GetRootAtTime(Store, now) = GetCurrentRoot
                      /\ LET newest == GetRootHistory(Store, 1)
                         IN  IF GetCurrentRoot = NoRoot THEN newest = << >>
                             ELSE newest # << >> /\ newest[1].root = GetCurrentRoot
    BY DEF QueriesAgree
  <2>1. Store \in Contents /\ Store \in Kept /\ now \in Nat
    <3>1. Store \in Contents /\ Store \in Kept
      BY StoreIsKept DEF TypeOK
    <3>2. QED
      BY <3>1, TimeAssumption DEF TypeOK, Times
  <2>2. GetCurrentRoot = Store.cur
    BY DEF CacheIsStored, GetCurrentRoot
  <2>3. /\ Leads(Store, Store.cur) /\ IsFiniteSet(Store.hist)
        /\ \A e \in Store.hist : e.ts <= now
    BY <2>1 DEF NewestInv
  <2>4. Store.hist = {} <=> Store.cur = NoRoot
    BY <2>1, <2>3, RootsAssumption DEF Leads, Contents, Entry
  <2>5. QED
    BY <2>1, <2>2, <2>3, <2>4, LeaderAtTime, LeaderIsFirst
<1>2. Init => TypeOK /\ ArgIsRoot /\ SafeInv /\ CacheIsStored /\ NewestInv
  BY TypeInit, SafeInit, CacheInit, NewestInit
<1>3. TypeOK /\ ArgIsRoot /\ SafeInv /\ CacheIsStored /\ NewestInv /\ [Next]_vars
        => (TypeOK /\ ArgIsRoot /\ SafeInv /\ CacheIsStored /\ NewestInv)'
  BY TypeStep, SafeStep, CacheStep, NewestStep
<1>4. QED
  BY <1>1, <1>2, <1>3, PTL DEF Spec
=============================================================================
