----------------------------- MODULE Connector -----------------------------
(***************************************************************************)
(* The per-record format and the conditional update that every backend     *)
(* connector offers (src/benchmarks/db/redis/db.go, interface Connector,   *)
(* lines 68-77).  The connector implementations are not in src/; their     *)
(* semantics are pinned by the connector tests in                          *)
(* src/pkg/datastore/redis/redis_connection_test.go, which the operators    *)
(* below translate.                                                        *)
(*                                                                         *)
(* Data abstraction: a value is the transaction that wrote it (NoTxn for   *)
(* the data loaded before any transaction), timestamps and leases are left *)
(* out, and the Prev chain keeps one level, which is all that a rollback   *)
(* of a PREPARED head reads.                                               *)
(***************************************************************************)
EXTENDS Naturals

CONSTANTS
    Key,        \* keys; each key is held by its own datastore participant
    Txn,        \* transaction ids (TxnId)
    NoTxn,      \* writer of the initially loaded records
    NoRecord    \* GetItem answers KeyNotFound: no record is stored

Writer == Txn \cup {NoTxn}

(* An Item as a transaction holds it in its read cache: its Version, its   *)
(* value (the writer) and IsDeleted.  Version 0 stands for "no record was  *)
(* stored", the empty Version string of a freshly built item.              *)
Item == [ver : Nat, txn : Writer, del : BOOLEAN]

Absent == [ver |-> 0, txn |-> NoTxn, del |-> TRUE]

(* A stored record: the Item fields plus TxnState and the Prev item.       *)
Record == [ver : Nat, txn : Writer, st : {"COMMITTED", "PREPARED"},
           del : BOOLEAN, prev : Item]

ItemOf(r) == [ver |-> r.ver, txn |-> r.txn, del |-> r.del]

(* ConditionalUpdate(key, item, doCreate) succeeds iff: with doCreate the  *)
(* key holds no record (an existing record is a VersionMismatch whatever   *)
(* its version); without doCreate a record exists and its Version equals   *)
(* the item's.                                                             *)
CUAccepts(stored, ver, doCreate) ==
    IF doCreate THEN stored = NoRecord
                ELSE stored # NoRecord /\ stored.ver = ver

(* On success the stored record is the item with its Version plus one.     *)
CUStore(r) == [r EXCEPT !.ver = r.ver + 1]

(* Roll-forward of a PREPARED head: the same item, now COMMITTED.          *)
RolledForward(r) == CUStore([r EXCEPT !.st = "COMMITTED"])

(* Rollback of a PREPARED head to its Prev item.  An empty Prev (the key   *)
(* was absent when the owner read it) is written back as a COMMITTED       *)
(* tombstone: ConditionalUpdate can only replace a record, never remove    *)
(* it, so the key keeps its Version and no ABA on the Version can occur.   *)
RolledBack(r) ==
    CUStore([ver |-> r.ver, txn |-> r.prev.txn, st |-> "COMMITTED",
             del |-> r.prev.del, prev |-> Absent])

=============================================================================
