------------------------------ MODULE LevelDB ------------------------------
(***************************************************************************)
(* The store of pkg/storage/leveldb.go, seen through what its callers can  *)
(* tell apart: the contents a reader sees now, and the contents a crash    *)
(* may leave behind.  A component that keeps data in the store EXTENDS     *)
(* this module and says what a "contents" is.                              *)
(*                                                                         *)
(* Every write of the repository passes nil write options, so goleveldb    *)
(* appends it to the write-ahead journal without fsync: the death of the   *)
(* process loses nothing, the death of the machine loses a suffix of what  *)
(* the operating system has not yet written back.  A batch is one journal  *)
(* record, so it is never half lost.                                       *)
(***************************************************************************)
EXTENDS Naturals, Sequences

VARIABLE journal
  \* The contents after each journal record that is not yet known to be on
  \* disk, oldest first.  journal[1] is on disk, the last one is what reads see.

Store == journal[Len(journal)]

(* Put, Delete and BatchWrite: the store's contents become s.  A record that
   changes nothing (the deletion of an absent key) is not told apart. *)
Write(s) == journal' = IF s = Store THEN journal ELSE Append(journal, s)

(* A write that returns an error leaves the contents as they were. *)
FailedWrite == UNCHANGED journal

(* The operating system writes the oldest pending record back. *)
WriteBack == Len(journal) > 1 /\ journal' = Tail(journal)

(* NewLevelDBStore on the files a crash left: the journal is replayed up to
   record n and its contents are flushed into a synced table. *)
Reopen(n) == n \in DOMAIN journal /\ journal' = <<journal[n]>>
=============================================================================
