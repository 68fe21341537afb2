------------------------------ MODULE RWMutex ------------------------------
(***************************************************************************)
(* Go's sync.RWMutex, as the callers of pkg/prover can tell: a goroutine   *)
(* that asks for the write lock keeps out readers that come after it and   *)
(* waits for those that came before; when it unlocks, the readers that     *)
(* waited for it come in together.                                         *)
(***************************************************************************)
CONSTANT NoCaller

VARIABLE mu
  \* writer: who holds or awaits the write lock; readers: who holds the read lock
  \* waiting: who asked for the read lock after writer asked for the write lock

Free == [writer |-> NoCaller, readers |-> {}, waiting |-> {}]

(* The first half of Lock; the second is to wait for Locked(c). *)
AskLock(c) == mu.writer = NoCaller /\ mu' = [mu EXCEPT !.writer = c]
Locked(c) == mu.writer = c /\ mu.readers = {}
Unlock == mu' = [writer |-> NoCaller, readers |-> mu.waiting, waiting |-> {}]

(* The first half of RLock; the second is to wait for RLocked(c). *)
AskRLock(c) ==
  mu' = IF mu.writer = NoCaller THEN [mu EXCEPT !.readers = @ \cup {c}]
                                ELSE [mu EXCEPT !.waiting = @ \cup {c}]
RLocked(c) == c \in mu.readers
RUnlock(c) == mu' = [mu EXCEPT !.readers = @ \ {c}]
=============================================================================
