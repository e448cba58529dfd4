------------------------------ MODULE TxLedger ------------------------------
(***************************************************************************)
(* What the backend promises about the status column of users_transfers    *)
(* and users_swaps, seen by a user who polls the history endpoints: a row  *)
(* is opened, the backend is told a hash for it, and the row shows success *)
(* or failed only when the chain holds that outcome for a hash the backend *)
(* was told.  How the backend finds out (cron queue, processor, snapshots) *)
(* is TxStatus, which implements this module.                              *)
(***************************************************************************)
EXTENDS FiniteSets, Integers

CONSTANTS Rows,         \* transfer and swap rows
          Hashes,       \* transaction hashes
          Malformed     \* the strings in Hashes that no transaction can have

VARIABLES status,       \* what the history endpoint shows for the row
          claims,       \* the hashes the backend was ever told for the row
          receipt       \* the outcome the chain holds for the hash

ledgerVars == <<status, claims, receipt>>

Outcomes == {"success", "failed"}

LedgerInit ==
  /\ status = [t \in Rows |-> "none"]
  /\ claims = [t \in Rows |-> {}]
  /\ receipt = [h \in Hashes |-> "none"]

\* A non-custody row is opened before anything is broadcast.
Open(t) ==
  /\ status[t] = "none"
  /\ status' = [status EXCEPT ![t] = "initial"]
  /\ UNCHANGED <<claims, receipt>>

\* A custody row is opened once its own transaction succeeded.
OpenSent(t, h) ==
  /\ status[t] = "none"
  /\ receipt[h] = "success"
  /\ status' = [status EXCEPT ![t] = "success"]
  /\ claims' = [claims EXCEPT ![t] = @ \union {h}]
  /\ UNCHANGED receipt

\* The user reports at most one more hash; the row is awaiting a check again,
\* unless the report only amends the hash of a row that is already settled.
Report(t, H) ==
  /\ status[t] \notin {"none", "gone"}
  /\ \/ status' = [status EXCEPT ![t] = "pending"]
     \/ UNCHANGED status
  /\ claims' = [claims EXCEPT ![t] = @ \union H]
  /\ UNCHANGED receipt

\* The backend shows the outcome the chain holds for some hash it was told.
Settle(t) ==
  /\ status[t] \in {"pending", "success", "failed"}
  /\ \E h \in claims[t] :
       /\ receipt[h] \in Outcomes
       /\ status' = [status EXCEPT ![t] = receipt[h]]
  /\ UNCHANGED <<claims, receipt>>

\* A user leaves, and the rows of that user with him.
Remove(T) ==
  /\ status' = [t \in Rows |-> IF t \in T THEN "gone" ELSE status[t]]
  /\ UNCHANGED <<claims, receipt>>

\* The chain executes a transaction, once and for all.
Execute(h, o) ==
  /\ h \notin Malformed
  /\ receipt[h] = "none"
  /\ receipt' = [receipt EXCEPT ![h] = o]
  /\ UNCHANGED <<status, claims>>

LedgerNext ==
  \/ \E t \in Rows : Open(t) \/ Settle(t)
  \/ \E t \in Rows, h \in Hashes : OpenSent(t, h) \/ Report(t, {h})
  \/ \E t \in Rows : Report(t, {})
  \/ \E T \in SUBSET Rows : Remove(T)
  \/ \E h \in Hashes, o \in Outcomes : Execute(h, o)

LedgerSpec == LedgerInit /\ [][LedgerNext]_ledgerVars

=============================================================================
