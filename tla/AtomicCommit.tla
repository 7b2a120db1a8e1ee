---------------------------- MODULE AtomicCommit ----------------------------
(***************************************************************************)
(* What the transaction layer promises (spec.md section 1 and P2/P3), with *)
(* no records, versions, TSR or readers: every transaction is decided at   *)
(* most once, commit or abort; a write is applied only in the direction of *)
(* its transaction's decision; and a committed write replaces exactly the  *)
(* value its transaction read (first committer wins, no lost update).      *)
(* Transaction refines this specification.                                 *)
(***************************************************************************)
CONSTANTS
    Key,    \* keys
    Txn,    \* transactions
    NoTxn   \* writer of the data present before any transaction

(* A value of a key: the transaction that wrote it and whether it is a     *)
(* delete; the key absent is the delete of NoTxn.                          *)
Value == [txn : Txn \cup {NoTxn}, del : BOOLEAN]
Nothing == [txn |-> NoTxn, del |-> TRUE]

VARIABLES
    decision, \* decision[t]: "undecided", "commit" or "abort"
    fate,     \* fate[t][k]: what became of t's write of k
    value,    \* value[k]: the committed value of k
    readFrom  \* readFrom[t][k]: the value t read of k (Nothing if unread)

avars == <<decision, fate, value, readFrom>>

Init ==
    /\ decision = [t \in Txn |-> "undecided"]
    /\ fate = [t \in Txn |-> [k \in Key |-> "none"]]
    /\ value \in [Key -> {Nothing, [txn |-> NoTxn, del |-> FALSE]}]
    /\ readFrom = [t \in Txn |-> [k \in Key |-> Nothing]]

Decide(t, d) ==
    /\ decision[t] = "undecided"
    /\ decision' = [decision EXCEPT ![t] = d]
    /\ UNCHANGED <<fate, value, readFrom>>

Read(t, k) ==
    /\ decision[t] = "undecided"
    /\ readFrom' = [readFrom EXCEPT ![t][k] = value[k]]
    /\ UNCHANGED <<decision, fate, value>>

(* A resolving reader r may take the value the step leaves as its read.    *)
Observed(k) ==
    \/ UNCHANGED readFrom
    \/ \E r \in Txn : /\ decision[r] = "undecided"
                      /\ readFrom' = [readFrom EXCEPT ![r][k] = value'[k]]

ApplyCommit(t, k) ==
    /\ decision[t] = "commit" /\ fate[t][k] = "none"
    /\ value[k] = readFrom[t][k]
    /\ \E del \in BOOLEAN : value' = [value EXCEPT ![k] = [txn |-> t, del |-> del]]
    /\ fate' = [fate EXCEPT ![t][k] = "committed"]
    /\ Observed(k)
    /\ UNCHANGED decision

ApplyRollback(t, k) ==
    /\ decision[t] = "abort" /\ fate[t][k] = "none"
    /\ fate' = [fate EXCEPT ![t][k] = "rolledback"]
    /\ Observed(k)
    /\ UNCHANGED <<decision, value>>

Next ==
    \E t \in Txn :
        \/ \E d \in {"commit", "abort"} : Decide(t, d)
        \/ \E k \in Key : Read(t, k) \/ ApplyCommit(t, k) \/ ApplyRollback(t, k)

Spec == Init /\ [][Next]_avars
=============================================================================
