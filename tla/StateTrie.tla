----------------------------- MODULE StateTrie -----------------------------
(***************************************************************************)
(* pkg/storage/state_trie.go: the current Merkle root and the history of   *)
(* roots, kept under two kinds of key of one LevelDB store plus a cached   *)
(* copy in memory.  UpdateRoot and Clear are sequences of separate writes, *)
(* so they are sequences of steps here; any write may return an error, and *)
(* the process or the machine may die between any two of them.             *)
(*                                                                         *)
(* The trie has no lock and the program gives it to one caller: operations *)
(* do not overlap.                                                         *)
(***************************************************************************)
EXTENDS LevelDB, FiniteSets

CONSTANTS
  Roots,         \* the Merkle roots callers pass to UpdateRoot
  NoRoot,        \* a nil currentRoot, an absent meta:current_root key
  MaxTime,       \* bound on the wall clock
  StrictClock    \* TRUE: every reading of the clock is later than the one before
                 \* FALSE: the wall clock may repeat a reading or be set back

ASSUME RootsAssumption == NoRoot \notin Roots
ASSUME TimeAssumption == MaxTime \in Nat /\ StrictClock \in BOOLEAN

VARIABLES
  cached,        \* StateTrie.currentRoot
  pc,            \* where the operation under way has got to
  arg,           \* newRoot of the UpdateRoot under way
  stamp,         \* Timestamp of the entry that UpdateRoot will store
  now,           \* the last reading of the wall clock
  outcome        \* how the last operation ended

trieVars == <<cached, pc, arg, stamp, now, outcome>>
vars == <<journal, trieVars>>

Times == 0..MaxTime
Entry == [key : Times, root : Roots, ts : Times]
Contents == [hist : SUBSET Entry, cur : Roots \cup {NoRoot}]
Empty == [hist |-> {}, cur |-> NoRoot]

-----------------------------------------------------------------------------
(* The queries, as functions of a store's contents s. *)

(* HasRoot, when the iteration meets no error. *)
HasRoot(s, r) == \E e \in s.hist : e.root = r

(* Mutation: history in key order, the oldest entry first. *)
OldestFirst(s, limit) ==
  [i \in 1..(IF limit < Cardinality(s.hist) THEN limit ELSE Cardinality(s.hist)) |->
     CHOOSE e \in s.hist : Cardinality({f \in s.hist : f.key < e.key}) = i - 1]

(* GetRootHistory: entries in descending key order, at most limit of them. *)
GetRootHistory(s, limit) ==
  [i \in 1..(IF limit < Cardinality(s.hist) THEN limit ELSE Cardinality(s.hist)) |->
     CHOOSE e \in s.hist : Cardinality({f \in s.hist : f.key > e.key}) = i - 1]

(* Mutation: the comparison with the moment asked for is forgotten. *)
IsLatest(s, t, e) ==
  /\ e \in s.hist
  /\ \A f \in s.hist : f.ts < e.ts \/ (f.ts = e.ts /\ e.key <= f.key)

(* The entry GetRootAtTime settles on: the latest Timestamp not after t, the
   smallest key among equals because the scan is in key order. *)
IsClosest(s, t, e) ==
  /\ e \in s.hist /\ e.ts <= t
  /\ \A f \in s.hist : f.ts <= t => f.ts < e.ts \/ (f.ts = e.ts /\ e.key <= f.key)

(* GetRootAtTime, with NoRoot for ErrNotFound. *)
GetRootAtTime(s, t) ==
  IF \E e \in s.hist : e.ts <= t THEN (CHOOSE e \in s.hist : IsClosest(s, t, e)).root
                                 ELSE NoRoot

(* GetCurrentRoot: the cached root, else the stored one. *)
GetCurrentRoot == IF cached # NoRoot THEN cached ELSE Store.cur

-----------------------------------------------------------------------------
(* The writes. *)

(* Mutation: the entry is made of the root that is replaced. *)
WithReplacedRoot(s, k, r, t) ==
  [s EXCEPT !.hist = {e \in s.hist : e.key # k} \cup {[key |-> k, root |-> s.cur, ts |-> t]}]

(* Mutation: the key has no more digits than it takes to tell every fifth reading. *)
WithCoarseKey(s, k, r, t) ==
  LET coarse == k - (k % 5)
  IN  [s EXCEPT !.hist = {e \in s.hist : e.key # coarse} \cup {[key |-> coarse, root |-> r, ts |-> t]}]

(* Put of a history entry: an entry with the same key is overwritten. *)
WithHistory(s, k, r, t) ==
  [s EXCEPT !.hist = {e \in s.hist : e.key # k} \cup {[key |-> k, root |-> r, ts |-> t]}]

WithCurrent(s, r) == [s EXCEPT !.cur = r]
WithoutHistory(s) == [s EXCEPT !.hist = {}]

(* time.Now() returns t. *)
ReadClock(t) ==
  /\ StrictClock => t > now
  /\ now' = t

Done(how) == pc' = "idle" /\ outcome' = how

(* NewStateTrie on an empty store. *)
InitTrie ==
  /\ cached = NoRoot
  /\ pc = "idle"
  /\ arg = NoRoot
  /\ stamp = 0
  /\ now = 0
  /\ outcome = "ok"

Init == journal = <<Empty>> /\ InitTrie

(* Mutation: the cache is set before anything is stored. *)
BeginUpdateInCache(r, t) ==
  /\ pc = "idle"
  /\ ReadClock(t)
  /\ pc' = "putHistory" /\ arg' = r /\ stamp' = t /\ cached' = r
  /\ UNCHANGED <<journal, outcome>>

(* UpdateRoot builds the entry; the first of its two readings of the clock. *)
BeginUpdate(r, t) ==
  /\ pc = "idle"
  /\ ReadClock(t)
  /\ pc' = "putHistory" /\ arg' = r /\ stamp' = t
  /\ UNCHANGED <<journal, cached, outcome>>

(* Mutation: an error of the first Put is ignored. *)
PutHistoryUnchecked(t) ==
  /\ pc = "putHistory"
  /\ ReadClock(t)
  /\ Write(WithHistory(Store, t, arg, stamp)) \/ FailedWrite
  /\ pc' = "putCurrent"
  /\ UNCHANGED <<cached, arg, stamp, outcome>>

(* UpdateRoot stores the entry under a key made of its second reading. *)
PutHistory(t) ==
  /\ pc = "putHistory"
  /\ ReadClock(t)
  /\ \/ Write(WithHistory(Store, t, arg, stamp)) /\ pc' = "putCurrent" /\ UNCHANGED outcome
     \/ FailedWrite /\ Done("failed")
  /\ UNCHANGED <<cached, arg, stamp>>

(* Mutation: an error of the second Put is ignored. *)
PutCurrentUnchecked ==
  /\ pc = "putCurrent"
  /\ cached' = arg
  /\ Write(WithCurrent(Store, arg)) \/ FailedWrite
  /\ Done("ok")
  /\ UNCHANGED <<arg, stamp, now>>

(* Mutation: the cache keeps the root it had. *)
PutCurrentUncached ==
  /\ pc = "putCurrent"
  /\ \/ Write(WithCurrent(Store, arg)) /\ Done("ok")
     \/ FailedWrite /\ Done("failed")
  /\ UNCHANGED <<cached, arg, stamp, now>>

(* UpdateRoot sets the cache, then stores the current root: the cache keeps
   the new root when the store refuses it. *)
PutCurrent ==
  /\ pc = "putCurrent"
  /\ cached' = arg
  /\ \/ Write(WithCurrent(Store, arg)) /\ Done("ok")
     \/ FailedWrite /\ Done("failed")
  /\ UNCHANGED <<arg, stamp, now>>

(* Clear deletes the current root ... *)
ClearCurrent ==
  /\ pc = "idle"
  /\ \/ Write(WithCurrent(Store, NoRoot)) /\ pc' = "clearHistory" /\ UNCHANGED outcome
     \/ FailedWrite /\ Done("failed")
  /\ UNCHANGED <<cached, arg, stamp, now>>

(* Mutation: the history keys are deleted one by one, the oldest first. *)
ClearHistoryKeyByKey ==
  /\ pc = "clearHistory"
  /\ IF Cardinality(Store.hist) > 1
     THEN /\ LET oldest == CHOOSE e \in Store.hist : \A f \in Store.hist : e.key <= f.key
             IN  Write([Store EXCEPT !.hist = @ \ {oldest}])
          /\ UNCHANGED <<pc, outcome, cached>>
     ELSE Write(WithoutHistory(Store)) /\ cached' = NoRoot /\ Done("ok")
  /\ UNCHANGED <<arg, stamp, now>>

(* ... then collects the history keys and deletes them in one batch, and only
   then forgets the cached root; an error on the way returns before that. *)
ClearHistory ==
  /\ pc = "clearHistory"
  /\ \/ Write(WithoutHistory(Store)) /\ cached' = NoRoot /\ Done("ok")
     \/ FailedWrite /\ UNCHANGED cached /\ Done("failed")
  /\ UNCHANGED <<arg, stamp, now>>

(* NewStateTrie loads the current root; an error of the load is ignored. *)
NewStateTrie ==
  /\ cached' \in {journal'[1].cur, NoRoot}
  /\ pc' = "idle"
  /\ UNCHANGED <<arg, stamp, now>>

(* The process dies, or closes the store, and a new one opens it. *)
ProcessRestart ==
  /\ Reopen(Len(journal))
  /\ NewStateTrie
  /\ outcome' = IF pc = "idle" THEN outcome ELSE "failed"

(* The machine dies: the records from some point on are gone. *)
MachineRestart ==
  /\ \E n \in DOMAIN journal : Reopen(n)
  /\ NewStateTrie
  /\ outcome' = "failed"

StoreWriteBack == WriteBack /\ UNCHANGED trieVars

Next ==
  \/ \E r \in Roots, t \in Times : BeginUpdate(r, t)
  \/ \E t \in Times : PutHistory(t)
  \/ PutCurrent
  \/ ClearCurrent
  \/ ClearHistory
  \/ ProcessRestart
  \/ MachineRestart
  \/ StoreWriteBack

Spec == Init /\ [][Next]_vars

-----------------------------------------------------------------------------
(* Every variable has its type. *)
TypeOK ==
  /\ journal \in Seq(Contents) /\ journal # <<>>
  /\ cached \in Roots \cup {NoRoot}
  /\ pc \in {"idle", "putHistory", "putCurrent", "clearHistory"}
  /\ arg \in Roots \cup {NoRoot}
  /\ stamp \in Times
  /\ now \in Times
  /\ outcome \in {"ok", "failed"}

(* Whatever a crash leaves on disk, and whenever it strikes, a stored current
   root has an entry in the stored history: UpdateRoot writes the history first,
   Clear deletes it last, and the loss of a suffix of the journal keeps that
   order.  Holds when the clock never repeats a reading: a history key that is
   used again overwrites the entry of the root that is still current. *)
CurrentInHistory ==
  \A i \in DOMAIN journal : journal[i].cur # NoRoot => HasRoot(journal[i], journal[i].cur)

(* The root GetCurrentRoot answers from memory is one HasRoot knows, at every
   step of every operation, also after operations that failed half-way and left
   the cache ahead of (UpdateRoot) or behind (Clear) the store. *)
CachedInHistory == cached # NoRoot => HasRoot(Store, cached)

(* After an operation that returned nil, GetCurrentRoot, GetRootAtTime(now) and
   the first entry of GetRootHistory tell of the same root, whatever failed or
   was interrupted before that operation. *)
QueriesAgree ==
  pc = "idle" /\ outcome = "ok" =>
    /\ GetRootAtTime(Store, now) = GetCurrentRoot
    /\ LET newest == GetRootHistory(Store, 1)
       IN  IF GetCurrentRoot = NoRoot THEN newest = << >>
                                      ELSE newest # << >> /\ newest[1].root = GetCurrentRoot

(* A restart of the process between operations changes what GetCurrentRoot
   answers only if the last operation returned an error (the cache then held a
   root the store refused, or one the store had already deleted). *)
RestartKeepsRoot ==
  [][ProcessRestart /\ pc = "idle" /\ outcome = "ok" => GetCurrentRoot' = GetCurrentRoot]_vars

(* While the clock advances, what GetRootAtTime answers for a past moment does
   not change any more, unless Clear deletes the history, the machine loses it,
   or the moment is not before the Timestamp of an update still under way. *)
PastIsStable ==
  [][~ClearHistory /\ ~MachineRestart =>
       \A t \in 0..now : (pc = "putHistory" => t < stamp) =>
         GetRootAtTime(Store', t) = GetRootAtTime(Store, t)]_vars

(* The store behind the trie is a RootLog: seen through "which roots are recorded"
   and "which root is current", every write of UpdateRoot and Clear, complete or
   cut short, is one of its steps, and so is every crash. *)
RootsOf(hist) == {e.root : e \in hist}
Seen(s) == [recorded |-> RootsOf(s.hist), current |-> s.cur]
LogStates == [i \in DOMAIN journal |-> Seen(journal[i])]
Log == INSTANCE RootLog WITH states <- LogStates
ImplementsRootLog == Log!Spec

(* What the comment of GetRootAtTime promises ("returns the root that was active
   at the given time"), asked between operations about the present: the root
   GetCurrentRoot answers.  It breaks when the process dies between the two puts
   of an update, and when it restarts after the second one failed; until then the
   cache, which takes the new root before that put, hides the failure. *)
ActiveRootIsCurrent ==
  pc = "idle" => GetRootAtTime(Store, now) = GetCurrentRoot
=============================================================================
