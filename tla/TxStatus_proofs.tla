--------------------------- MODULE TxStatus_proofs ---------------------------
(***************************************************************************)
(* Theorems about TxStatus for every number of rows, users, hashes,        *)
(* workers and requests.  One inductive invariant, IInv, carries them all. *)
(***************************************************************************)
EXTENDS TxStatus, TLAPS

\* The hash a row shows, and every hash a job has read, was told for that row.
HashesAreClaimed ==
  \A t \in Rows :
    /\ txId[t] \in claims[t] \union {Null}
    /\ \A w \in Workers : snap[w][t] \in claims[t] \union {Null}

\* A row that waits for a check or is being checked was attached to its user,
\* and so was the row of a report in flight.
AttachedInv ==
  /\ \A t \in Rows : status[t] = "pending" => attached[t]
  /\ \A r \in Requests : req[r].op = "save" =>
       attached[req[r].row] /\ status[req[r].row] # "none"
  /\ \A w \in Workers, t \in Rows :
       t \in todo[w] \/ t = cur[w] =>
         attached[t] /\ status[t] \notin {"none", "initial"}

\* A worker about to save has seen the receipt; the row it settles is no
\* longer on its list.
SavingInv ==
  \A w \in Workers :
    /\ pc[w] \in {"save", "notify"} => cur[w] \in Rows \ todo[w]
    /\ pc[w] = "save" => /\ snap[w][cur[w]] \in Hashes
                         /\ receipt[snap[w][cur[w]]] \in Outcomes

\* Worker w may still settle row t without a further report.
MaySettle(w, t) ==
  \/ status[t] = "pending"
  \/ t \in todo[w]
  \/ pc[w] = "save" /\ cur[w] = t

\* Worker w is about to send a notification for row t.
Notifying(w, t) == pc[w] = "notify" /\ cur[w] = t

\* Every notification sent, about to be sent, or still possible is covered by
\* a report of its own.
NotifyInv ==
  \A t \in Rows, w \in Workers :
    /\ notified[t][w] <= reports[t]
    /\ MaySettle(w, t) \/ Notifying(w, t) => notified[t][w] + 1 <= reports[t]
    /\ MaySettle(w, t) /\ Notifying(w, t) => notified[t][w] + 2 <= reports[t]

Core ==
  /\ HashesAreClaimed
  /\ SettledIsJustified
  /\ AttachedInv
  /\ SavingInv
  /\ NotifyInv

IInv == TypeOK /\ Core

-----------------------------------------------------------------------------
LEMMA TypeStep == ASSUME TypeOK, SavingInv, [Next]_vars PROVE TypeOK'
<1> USE TxStatusAssumption DEF TypeOK, Rows, TxIds, Outcomes, Absent, Idle, NoSnap, Continuations,
  vars, rowVars, workerVars, historyVars, envVars, EndJob, ReadTransfers, Pending, Turn
<1>1. ASSUME NEW r \in Requests, NEW t \in Rows, CreateTransfer(r, t) PROVE TypeOK'
  BY <1>1 DEF CreateTransfer
<1>2. ASSUME NEW r \in Requests, NEW t \in Rows, NEW h \in Hashes, CreateSentTransfer(r, t, h) PROVE TypeOK'
  BY <1>2 DEF CreateSentTransfer
<1>3. ASSUME NEW r \in Requests, AttachTransfer(r) PROVE TypeOK'
  BY <1>3 DEF AttachTransfer
<1>4. ASSUME NEW t \in Rows, CreateSwap(t) PROVE TypeOK'
  BY <1>4 DEF CreateSwap
<1>5. ASSUME NEW t \in Rows, NEW h \in Hashes, CreateSentSwap(t, h) PROVE TypeOK'
  BY <1>5 DEF CreateSentSwap
<1>6. ASSUME NEW r \in Requests, NEW t \in Rows, NEW h \in TxIds, UpdateStatusRead(r, t, h) PROVE TypeOK'
  BY <1>6 DEF UpdateStatusRead
<1>7. ASSUME NEW r \in Requests, UpdateStatusSave(r) PROVE TypeOK'
  <2> DEFINE t == req[r].row
  <2>0. t \in Rows /\ req[r].hash \in TxIds
    BY <1>7 DEF UpdateStatusSave
  <2>1. CASE status[t] = "gone"
    BY <1>7, <2>0, <2>1 DEF UpdateStatusSave
  <2>2. CASE status[t] # "gone"
    <3> DEFINE h == req[r].hash
               s == IF req[r].seenStatus = "pending" THEN status[t] ELSE "pending"
    <3>1. /\ status' = [status EXCEPT ![t] = s]
          /\ txId' = [txId EXCEPT ![t] = h] \/ txId' = txId
          /\ claims' = [claims EXCEPT ![t] = claims[t] \union ({h} \ {Null})]
          /\ reports' = [reports EXCEPT ![t] = reports[t] + 1]
          /\ req' = [req EXCEPT ![r] = Idle]
      BY <1>7, <2>2 DEF UpdateStatusSave
    <3>2. s \in {"initial", "pending"} \union Outcomes \union Absent /\ h \in TxIds
      BY <2>0
    <3> HIDE DEF t, h, s, Continuations
    <3>3. status' \in [Rows -> {"initial", "pending"} \union Outcomes \union Absent]
      BY <2>0, <3>1, <3>2
    <3>4. txId' \in [Rows -> TxIds]
      <4>1. CASE txId' = [txId EXCEPT ![t] = h]
        BY <2>0, <3>2, <4>1
      <4> QED
        BY <3>1, <4>1
    <3>5. claims' \in [Rows -> SUBSET Hashes] /\ reports' \in [Rows -> Nat]
      BY <2>0, <3>1 DEF h
    <3>6. req' \in [Requests -> Continuations]
      BY <3>1 DEF Continuations
    <3> QED
      BY <1>7, <2>2, <3>3, <3>5, <3>6, <3>4 DEF UpdateStatusSave
  <2> QED
    BY <2>1, <2>2
<1>8. ASSUME NEW u \in Users, DeleteUser(u) PROVE TypeOK'
  BY <1>8 DEF DeleteUser
<1>9. ASSUME NEW n \in Networks, SetMode(n) PROVE TypeOK'
  <2>1. mode' \in Networks
    BY <1>9 DEF SetMode
  <2>2. modeChanges' \in 0..MaxModeChanges
    BY <1>9 DEF SetMode
  <2> QED
    BY <1>9, <2>1, <2>2 DEF SetMode
<1>10. ASSUME NEW h \in Hashes, NEW o \in Outcomes, Mine(h, o) PROVE TypeOK'
  BY <1>10 DEF Mine
<1>11. ASSUME handleTxCron PROVE TypeOK'
  <2>1. queue' \in Seq(Networks) /\ Len(queue') <= MaxQueue
    BY <1>11 DEF handleTxCron
  <2> QED
    BY <1>11, <2>1 DEF handleTxCron
<1>12. ASSUME NEW w \in Workers, StartJob(w) PROVE TypeOK'
  <2>1. queue' \in Seq(Networks) /\ Len(queue') <= MaxQueue /\ Head(queue) \in Networks
    BY <1>12 DEF StartJob
  <2>2. jobMode' \in [Workers -> Networks \union {Null}]
    BY <1>12, <2>1 DEF StartJob
  <2>3. /\ pc' \in [Workers -> {"idle", "swaps", "check", "save", "notify", "stalled"}]
        /\ todo' \in [Workers -> SUBSET Rows] /\ snap' \in [Workers -> [Rows -> TxIds]]
    BY <1>12 DEF StartJob
  <2> QED
    BY <1>12, <2>1, <2>2, <2>3 DEF StartJob
<1>13. ASSUME NEW w \in Workers, RestartJob(w) PROVE TypeOK'
  BY <1>13 DEF RestartJob
<1>14. ASSUME NEW w \in Workers, ReadSwaps(w) PROVE TypeOK'
  BY <1>14 DEF ReadSwaps
<1>15. ASSUME NEW w \in Workers, NEW t \in Rows, SkipSwap(w, t) PROVE TypeOK'
  BY <1>15 DEF SkipSwap
<1>16. ASSUME NEW w \in Workers, NEW t \in Rows, CheckRefused(w, t) PROVE TypeOK'
  BY <1>16 DEF CheckRefused
<1>17. ASSUME NEW w \in Workers, NEW t \in Rows, CheckUnmined(w, t) PROVE TypeOK'
  BY <1>17 DEF CheckUnmined
<1>18. ASSUME NEW w \in Workers, NEW t \in Rows, CheckMined(w, t) PROVE TypeOK'
  BY <1>18 DEF CheckMined
<1>19. ASSUME NEW w \in Workers, SaveOutcome(w) PROVE TypeOK'
  <2>1. status' \in [Rows -> {"initial", "pending"} \union Outcomes \union Absent]
    BY <1>19 DEF SaveOutcome, SavingInv
  <2>2. pc' \in [Workers -> {"idle", "swaps", "check", "save", "notify", "stalled"}]
    BY <1>19 DEF SaveOutcome
  <2> QED
    BY <1>19, <2>1, <2>2 DEF SaveOutcome
<1>20. ASSUME NEW w \in Workers, Notify(w) PROVE TypeOK'
  <2>1. notified' \in [Rows -> [Workers -> Nat]]
    <3>1. cur[w] \in Rows
      BY <1>20 DEF Notify, SavingInv
    <3> QED
      BY <1>20, <3>1 DEF Notify
  <2>2. pc' \in [Workers -> {"idle", "swaps", "check", "save", "notify", "stalled"}]
    BY <1>20 DEF Notify
  <2>3. cur' \in [Workers -> Rows \union {Null}]
    BY <1>20 DEF Notify
  <2> QED
    BY <1>20, <2>1, <2>2, <2>3 DEF Notify
<1>21. ASSUME NEW w \in Workers, NotifyDeletedUser(w) PROVE TypeOK'
  BY <1>21 DEF NotifyDeletedUser
<1>22. ASSUME NEW w \in Workers, Finish(w) PROVE TypeOK'
  BY <1>22 DEF Finish
<1>23. ASSUME NEW w \in Workers, FailJob(w) PROVE TypeOK'
  <2>1. faults' \in 0..MaxFaults
    BY <1>23 DEF FailJob
  <2>2. cut' \subseteq Rows
    BY <1>23 DEF FailJob, Unannounced, SavingInv
  <2> QED
    BY <1>23, <2>1, <2>2 DEF FailJob
<1>24. ASSUME NEW w \in Workers, DropStalled(w) PROVE TypeOK'
  BY <1>24 DEF DropStalled
<1>25. ASSUME Crash PROVE TypeOK'
  <2>1. cut' \subseteq Rows
    BY <1>25 DEF Crash, Unannounced, SavingInv
  <2>2. faults' \in 0..MaxFaults
    BY <1>25 DEF Crash
  <2> QED
    BY <1>25, <2>1, <2>2 DEF Crash
<1>26. ASSUME UNCHANGED vars PROVE TypeOK'
  BY <1>26 DEF vars
<1> HIDE TxStatusAssumption DEF TypeOK, Rows, TxIds, Outcomes, Absent, Idle, NoSnap, Continuations, vars, rowVars, workerVars, historyVars, envVars, EndJob, ReadTransfers, Pending, Turn
<1> QED
  BY <1>1, <1>2, <1>3, <1>4, <1>5, <1>6, <1>7, <1>8, <1>9, <1>10, <1>11, <1>12, <1>13, <1>14, <1>15, <1>16, <1>17, <1>18, <1>19, <1>20, <1>21, <1>22, <1>23, <1>24, <1>25, <1>26 DEF Next, Handler, transfersProcessor, Resume

-----------------------------------------------------------------------------
(* The steps that leave TypeOK aside, one lemma per effect.                 *)

LEMMA ContinuationRow ==
  ASSUME TypeOK, NEW r \in Requests, req[r].op # "idle"
  PROVE  /\ req[r].row \in Rows
         /\ req[r].op = "save" => req[r].hash \in TxIds
BY DEF TypeOK, Continuations, Idle, Rows

LEMMA QuietStep ==
  ASSUME Core, UNCHANGED <<rowVars, receipt, workerVars, req, historyVars>>
  PROVE  Core'
BY DEF Core, HashesAreClaimed, SettledIsJustified, AttachedInv, SavingInv,
       NotifyInv, MaySettle, Notifying, rowVars, workerVars, historyVars

\* A row appears: nobody has heard of it, so no invariant speaks of it yet.
LEMMA CreateStep ==
  ASSUME TypeOK, Core,
         NEW t \in Rows, status[t] = "none", NEW s \in {"initial", "success"},
         status' = [status EXCEPT ![t] = s],
         \/ s = "initial" /\ UNCHANGED claims
         \/ \E h \in Hashes : /\ receipt[h] = s
                              /\ claims' = [claims EXCEPT ![t] = @ \union {h}],
         \A v \in Rows : attached[v] => attached'[v],
         \A q \in Requests : req'[q] = req[q] \/ req'[q].op = "attach",
         UNCHANGED <<txId, receipt, workerVars, reports, notified>>
  PROVE  Core'
<1> USE DEF workerVars
<1>a. /\ status'[t] = s
      /\ \A v \in Rows : v # t => status'[v] = status[v]
  BY DEF TypeOK
<1>b. /\ \A v \in Rows : claims[v] \subseteq claims'[v]
      /\ s = "initial" \/ \E h \in claims'[t] : receipt[h] = s
  <2>1. claims \in [Rows -> SUBSET Hashes]
    BY DEF TypeOK
  <2>2. CASE s = "initial" /\ UNCHANGED claims
    BY <2>2
  <2>3. ASSUME NEW h \in Hashes, receipt[h] = s,
               claims' = [claims EXCEPT ![t] = @ \union {h}]
        PROVE  /\ \A v \in Rows : claims[v] \subseteq claims'[v]
               /\ \E g \in claims'[t] : receipt[g] = s
    BY <2>1, <2>3
  <2> QED
    BY <2>2, <2>3
<1>1. /\ status'[t] = s
      /\ \A v \in Rows : v # t => status'[v] = status[v]
      /\ \A v \in Rows : claims[v] \subseteq claims'[v]
      /\ s = "initial" \/ \E h \in claims'[t] : receipt[h] = s
  BY <1>a, <1>b
<1>2. HashesAreClaimed'
  BY <1>1 DEF Core, HashesAreClaimed
<1>3. SettledIsJustified'
  BY <1>1 DEF Core, SettledIsJustified, Outcomes
<1>4. AttachedInv'
  <2>1. \A v \in Rows : status'[v] = "pending" => attached'[v]
    BY <1>1 DEF Core, AttachedInv
  <2>2. ASSUME NEW q \in Requests, req'[q].op = "save"
        PROVE  attached'[req'[q].row] /\ status'[req'[q].row] # "none"
    <3>1. req'[q] = req[q] /\ req[q].op = "save"
      BY <2>2
    <3>2. req[q].row \in Rows
      BY <3>1, ContinuationRow
    <3> QED
      BY <1>1, <3>1, <3>2 DEF Core, AttachedInv
  <2>3. \A w \in Workers, v \in Rows :
          v \in todo'[w] \/ v = cur'[w] =>
            attached'[v] /\ status'[v] \notin {"none", "initial"}
    BY <1>1 DEF Core, AttachedInv
  <2> QED
    BY <2>1, <2>2, <2>3 DEF AttachedInv
<1>5. SavingInv'
  BY DEF Core, SavingInv
<1>6. NotifyInv'
  BY <1>1 DEF Core, NotifyInv, MaySettle, Notifying
<1> QED
  BY <1>2, <1>3, <1>4, <1>5, <1>6 DEF Core

LEMMA AttachStep ==
  ASSUME TypeOK, Core, NEW r \in Requests, AttachTransfer(r)
  PROVE  Core'
<1> USE DEF AttachTransfer, workerVars, historyVars, envVars, Idle
<1>1. \A v \in Rows : attached[v] => attached'[v]
  BY DEF TypeOK
<1>2. AttachedInv'
  BY <1>1 DEF Core, AttachedInv, TypeOK
<1> QED
  BY <1>2 DEF Core, HashesAreClaimed, SettledIsJustified, SavingInv, NotifyInv,
              MaySettle, Notifying

LEMMA ReportReadStep ==
  ASSUME TypeOK, Core, NEW r \in Requests, NEW t \in Rows, NEW h \in TxIds,
         UpdateStatusRead(r, t, h)
  PROVE  Core'
<1> USE DEF UpdateStatusRead, rowVars, workerVars, historyVars, envVars
<1>1. AttachedInv'
  BY DEF Core, AttachedInv, TypeOK, Absent
<1> QED
  BY <1>1 DEF Core, HashesAreClaimed, SettledIsJustified, SavingInv, NotifyInv,
              MaySettle, Notifying

LEMMA ReportSaveStep ==
  ASSUME TypeOK, Core, NEW r \in Requests, UpdateStatusSave(r)
  PROVE  Core'
<1> DEFINE t == req[r].row
           h == req[r].hash
<1>0. t \in Rows /\ h \in TxIds /\ attached[t] /\ status[t] # "none"
  BY ContinuationRow DEF UpdateStatusSave, Core, AttachedInv
<1>1. /\ UNCHANGED <<attached, workerVars, notified, receipt>>
      /\ req' = [req EXCEPT ![r] = Idle]
  BY DEF UpdateStatusSave, rowVars, historyVars, envVars
<1>2. /\ \A v \in Rows : v # t => status'[v] = status[v] /\ txId'[v] = txId[v]
      /\ status'[t] \in {status[t], "pending"}
      /\ txId'[t] \in {txId[t], h}
  BY <1>0 DEF UpdateStatusSave, rowVars, TypeOK
<1>3. /\ \A v \in Rows : claims[v] \subseteq claims'[v]
      /\ txId'[t] \in claims'[t] \union {Null, txId[t]}
  <2>1. CASE status[t] = "gone"
    BY <2>1 DEF UpdateStatusSave, historyVars, rowVars
  <2>2. CASE status[t] # "gone"
    <3>1. claims' = [claims EXCEPT ![t] = claims[t] \union ({h} \ {Null})]
      BY <2>2 DEF UpdateStatusSave
    <3>2. claims \in [Rows -> SUBSET Hashes]
      BY DEF TypeOK
    <3> QED
      BY <1>0, <1>2, <3>1, <3>2
  <2> QED
    BY <2>1, <2>2
<1>4. /\ \A v \in Rows : reports'[v] >= reports[v] /\ reports'[v] \in Nat
      /\ status'[t] = "pending" /\ status[t] # "pending" => reports'[t] = reports[t] + 1
  BY <1>0 DEF UpdateStatusSave, historyVars, rowVars, TypeOK
<1> HIDE DEF t, h
<1>5. HashesAreClaimed'
  BY <1>0, <1>1, <1>2, <1>3 DEF Core, HashesAreClaimed, workerVars
<1>6. SettledIsJustified'
  BY <1>0, <1>1, <1>2, <1>3 DEF Core, SettledIsJustified, Outcomes
<1>7. AttachedInv'
  <2>1. \A v \in Rows : status'[v] = "pending" => attached'[v]
    BY <1>0, <1>1, <1>2 DEF Core, AttachedInv
  <2>2. ASSUME NEW q \in Requests, req'[q].op = "save"
        PROVE  attached'[req'[q].row] /\ status'[req'[q].row] # "none"
    <3>1. req'[q] = req[q] /\ req[q].op = "save"
      BY <1>1, <2>2 DEF Idle, TypeOK
    <3>2. req[q].row \in Rows
      BY <3>1, ContinuationRow
    <3> QED
      BY <1>0, <1>1, <1>2, <3>1, <3>2 DEF Core, AttachedInv
  <2>3. \A w \in Workers, v \in Rows :
          v \in todo'[w] \/ v = cur'[w] =>
            attached'[v] /\ status'[v] \notin {"none", "initial"}
    BY <1>0, <1>1, <1>2 DEF Core, AttachedInv, workerVars
  <2> QED
    BY <2>1, <2>2, <2>3 DEF AttachedInv
<1>8. SavingInv'
  BY <1>1 DEF Core, SavingInv, workerVars
<1>9. NotifyInv'
  <2>1. ASSUME NEW v \in Rows, NEW w \in Workers
        PROVE  /\ notified'[v][w] = notified[v][w] /\ notified[v][w] \in Nat
               /\ reports[v] \in Nat
               /\ Notifying(w, v)' = Notifying(w, v)
    BY <1>1 DEF TypeOK, Notifying, workerVars
  <2>2. ASSUME NEW v \in Rows, NEW w \in Workers, MaySettle(w, v)', ~MaySettle(w, v)
        PROVE  reports'[v] = reports[v] + 1
    BY <1>0, <1>1, <1>2, <1>4, <2>2 DEF MaySettle, workerVars
  <2>3. ASSUME NEW v \in Rows, NEW w \in Workers
        PROVE  /\ notified'[v][w] <= reports'[v]
               /\ (MaySettle(w, v) \/ Notifying(w, v))' => notified'[v][w] + 1 <= reports'[v]
               /\ (MaySettle(w, v) /\ Notifying(w, v))' => notified'[v][w] + 2 <= reports'[v]
    <3>1. /\ notified[v][w] <= reports[v]
          /\ MaySettle(w, v) \/ Notifying(w, v) => notified[v][w] + 1 <= reports[v]
          /\ MaySettle(w, v) /\ Notifying(w, v) => notified[v][w] + 2 <= reports[v]
      BY DEF Core, NotifyInv
    <3> QED
      BY <1>4, <2>1, <2>2, <3>1
  <2> QED
    BY <2>3 DEF NotifyInv
<1> QED
  BY <1>5, <1>6, <1>7, <1>8, <1>9 DEF Core

LEMMA DeleteStep ==
  ASSUME TypeOK, Core, NEW u \in Users, DeleteUser(u)
  PROVE  Core'
<1> USE DEF DeleteUser, workerVars, historyVars
<1>1. \A v \in Rows : status'[v] = status[v] \/ status'[v] = "gone"
  OBVIOUS
<1>2. SettledIsJustified'
  BY <1>1 DEF Core, SettledIsJustified, Outcomes
<1>3. AttachedInv'
  <2>1. \A r \in Requests : req[r].op = "save" => req[r].row \in Rows
    BY ContinuationRow
  <2> QED
    BY <1>1, <2>1 DEF Core, AttachedInv
<1>4. NotifyInv'
  BY <1>1 DEF Core, NotifyInv, MaySettle, Notifying
<1> QED
  BY <1>2, <1>3, <1>4 DEF Core, HashesAreClaimed, SavingInv

\* A new receipt contradicts none that was used before.
LEMMA MineStep ==
  ASSUME TypeOK, Core, NEW g \in Hashes, NEW o \in Outcomes, Mine(g, o)
  PROVE  Core'
<1> USE DEF Mine, rowVars, workerVars, historyVars
<1>1. \A h \in Hashes : receipt[h] \in Outcomes => receipt'[h] = receipt[h]
  BY DEF TypeOK, Outcomes
<1>2. SettledIsJustified'
  <2>1. ASSUME NEW t \in Rows, status[t] \in Outcomes
        PROVE  \E h \in claims[t] : receipt'[h] = status[t]
    <3>1. PICK h \in claims[t] : receipt[h] = status[t]
      BY <2>1 DEF Core, SettledIsJustified
    <3>2. h \in Hashes
      BY <3>1 DEF TypeOK
    <3> QED
      BY <1>1, <2>1, <3>1, <3>2
  <2> QED
    BY <2>1 DEF SettledIsJustified
<1>3. SavingInv'
  BY <1>1 DEF Core, SavingInv
<1> QED
  BY <1>2, <1>3 DEF Core, HashesAreClaimed, AttachedInv, NotifyInv, MaySettle, Notifying

\* A job begins: its list holds only rows that are pending right now.
LEMMA ReadTransfersStep ==
  ASSUME TypeOK, Core, NEW w \in Workers, pc[w] \in {"idle", "stalled"},
         ReadTransfers(w),
         UNCHANGED <<rowVars, cur, req, historyVars, receipt>>
  PROVE  Core'
<1> USE DEF rowVars, historyVars
<1>1. /\ pc'[w] = "swaps" /\ todo'[w] = Pending(Transfers)
      /\ \A t \in Rows : snap'[w][t] \in {txId[t], Null}
      /\ \A x \in Workers : x # w =>
           pc'[x] = pc[x] /\ todo'[x] = todo[x] /\ snap'[x] = snap[x]
  BY DEF ReadTransfers, TypeOK
<1>2. HashesAreClaimed'
  BY <1>1 DEF Core, HashesAreClaimed
<1>3. AttachedInv'
  BY <1>1 DEF Core, AttachedInv, Pending
<1>4. SavingInv'
  BY <1>1 DEF Core, SavingInv
<1>5. NotifyInv'
  BY <1>1 DEF Core, NotifyInv, MaySettle, Notifying, Pending
<1> QED
  BY <1>2, <1>3, <1>4, <1>5 DEF Core, SettledIsJustified

LEMMA ReadSwapsStep ==
  ASSUME TypeOK, Core, NEW w \in Workers, ReadSwaps(w)
  PROVE  Core'
<1> USE DEF rowVars, historyVars, envVars
<1>1. /\ pc[w] = "swaps" /\ pc'[w] = "check"
      /\ todo'[w] = todo[w] \union Pending(Swaps)
      /\ \A t \in Rows : snap'[w][t] \in {txId[t], snap[w][t]}
      /\ \A x \in Workers : x # w =>
           pc'[x] = pc[x] /\ todo'[x] = todo[x] /\ snap'[x] = snap[x]
      /\ UNCHANGED <<rowVars, cur, req, historyVars, receipt>>
  BY DEF ReadSwaps, TypeOK
<1>2. HashesAreClaimed'
  BY <1>1 DEF Core, HashesAreClaimed
<1>3. AttachedInv'
  BY <1>1 DEF Core, AttachedInv, Pending
<1>4. SavingInv'
  BY <1>1 DEF Core, SavingInv
<1>5. NotifyInv'
  BY <1>1 DEF Core, NotifyInv, MaySettle, Notifying, Pending
<1> QED
  BY <1>1, <1>2, <1>3, <1>4, <1>5 DEF Core, SettledIsJustified

\* The worker strikes a row off its list.
LEMMA SkipStep ==
  ASSUME TypeOK, Core, NEW w \in Workers, NEW t \in Rows,
         todo' = [todo EXCEPT ![w] = @ \ {t}],
         UNCHANGED <<rowVars, pc, snap, cur, req, historyVars, receipt>>
  PROVE  Core'
<1> USE DEF rowVars, historyVars
<1>1. \A x \in Workers : todo'[x] \subseteq todo[x]
  BY DEF TypeOK
<1> QED
  BY <1>1 DEF Core, HashesAreClaimed, SettledIsJustified, AttachedInv, SavingInv,
              NotifyInv, MaySettle, Notifying

LEMMA CheckMinedStep ==
  ASSUME TypeOK, Core, NEW w \in Workers, NEW t \in Rows, CheckMined(w, t)
  PROVE  Core'
<1> USE DEF rowVars, historyVars, envVars
<1>1. /\ pc[w] = "check" /\ pc'[w] = "save" /\ cur'[w] = t
      /\ t \in todo[w] /\ todo'[w] = todo[w] \ {t}
      /\ \A x \in Workers : x # w =>
           pc'[x] = pc[x] /\ todo'[x] = todo[x] /\ cur'[x] = cur[x]
      /\ UNCHANGED <<rowVars, snap, req, historyVars, receipt>>
  BY DEF CheckMined, Turn, TypeOK
<1>2. snap[w][t] \in Hashes /\ receipt[snap[w][t]] \in Outcomes
  BY DEF CheckMined, ReceiptSeen, Outcomes
<1>3. AttachedInv'
  BY <1>1 DEF Core, AttachedInv
<1>4. SavingInv'
  BY <1>1, <1>2 DEF Core, SavingInv
<1>5. NotifyInv'
  BY <1>1 DEF Core, NotifyInv, MaySettle, Notifying
<1> QED
  BY <1>1, <1>3, <1>4, <1>5 DEF Core, SettledIsJustified, HashesAreClaimed

LEMMA SaveStep ==
  ASSUME TypeOK, Core, NEW w \in Workers, SaveOutcome(w)
  PROVE  Core'
<1> USE DEF rowVars, historyVars, envVars
<1> DEFINE t == cur[w]
<1>1. /\ pc[w] = "save" /\ t \in Rows /\ t \notin todo[w]
      /\ snap[w][t] \in claims[t] /\ receipt[snap[w][t]] \in Outcomes
      /\ attached[t] /\ status[t] \notin {"none", "initial"}
  <2>1. pc[w] = "save" /\ t \in Rows /\ t \notin todo[w]
    BY DEF SaveOutcome, Core, SavingInv
  <2>2. snap[w][t] \in Hashes /\ receipt[snap[w][t]] \in Outcomes
    BY <2>1 DEF Core, SavingInv
  <2>3. snap[w][t] \in claims[t] \union {Null} /\ Null \notin Hashes
    BY <2>1, TxStatusAssumption DEF Core, HashesAreClaimed
  <2>4. attached[t] /\ status[t] \notin {"none", "initial"}
    BY <2>1 DEF Core, AttachedInv
  <2> QED
    BY <2>1, <2>2, <2>3, <2>4
<1>2. /\ pc'[w] = "notify"
      /\ \A x \in Workers : x # w => pc'[x] = pc[x]
      /\ status'[t] \in {"gone", receipt[snap[w][t]]}
      /\ \A v \in Rows : v # t => status'[v] = status[v]
      /\ UNCHANGED <<txId, attached, todo, snap, cur, req, historyVars, receipt>>
  BY <1>1 DEF SaveOutcome, TypeOK
<1> HIDE DEF t
<1>3. SettledIsJustified'
  BY <1>1, <1>2 DEF Core, SettledIsJustified, Outcomes
<1>4. AttachedInv'
  <2>1. \A r \in Requests : req[r].op = "save" => req[r].row \in Rows
    BY ContinuationRow
  <2> QED
    BY <1>1, <1>2, <2>1 DEF Core, AttachedInv, Outcomes
<1>5. SavingInv'
  BY <1>1, <1>2 DEF Core, SavingInv, t
<1>6. NotifyInv'
  BY <1>1, <1>2 DEF Core, NotifyInv, MaySettle, Notifying, Outcomes, t
<1> QED
  BY <1>2, <1>3, <1>4, <1>5, <1>6 DEF Core, HashesAreClaimed

LEMMA NotifyStep ==
  ASSUME TypeOK, Core, NEW w \in Workers, Notify(w)
  PROVE  Core'
<1> USE DEF rowVars, historyVars, envVars
<1> DEFINE t == cur[w]
<1>1. pc[w] = "notify" /\ t \in Rows /\ t \notin todo[w]
  BY DEF Notify, Core, SavingInv
<1>2. /\ pc'[w] = "check" /\ cur'[w] = Null
      /\ \A x \in Workers : x # w => pc'[x] = pc[x] /\ cur'[x] = cur[x]
      /\ notified'[t][w] = notified[t][w] + 1
      /\ \A v \in Rows, x \in Workers :
           v # t \/ x # w => notified'[v][x] = notified[v][x]
      /\ UNCHANGED <<rowVars, todo, snap, req, claims, reports, receipt>>
  BY <1>1 DEF Notify, TypeOK
<1>3. \A v \in Rows, x \in Workers : notified[v][x] \in Nat /\ reports[v] \in Nat
  BY DEF TypeOK
<1>4. Null \notin Rows
  BY TxStatusAssumption
<1> HIDE DEF t
<1>5. AttachedInv'
  BY <1>1, <1>2, <1>4 DEF Core, AttachedInv
<1>6. SavingInv'
  BY <1>1, <1>2 DEF Core, SavingInv
<1>7. NotifyInv'
  BY <1>1, <1>2, <1>3, <1>4 DEF Core, NotifyInv, MaySettle, Notifying, t
<1> QED
  BY <1>2, <1>5, <1>6, <1>7 DEF Core, HashesAreClaimed, SettledIsJustified

\* A job that ends, however it ends, forgets everything it had read.
LEMMA EndJobStep ==
  ASSUME TypeOK, Core, NEW w \in Workers, EndJob(w),
         UNCHANGED <<rowVars, req, claims, reports, notified, receipt>>
  PROVE  Core'
<1> USE DEF rowVars
<1>1. /\ pc'[w] = "idle" /\ todo'[w] = {} /\ cur'[w] = Null
      /\ \A t \in Rows : snap'[w][t] = Null
      /\ \A x \in Workers : x # w =>
           pc'[x] = pc[x] /\ todo'[x] = todo[x] /\ snap'[x] = snap[x] /\ cur'[x] = cur[x]
      /\ Null \notin Rows
  BY TxStatusAssumption DEF EndJob, NoSnap, TypeOK
<1>2. HashesAreClaimed'
  BY <1>1 DEF Core, HashesAreClaimed
<1>3. AttachedInv'
  BY <1>1 DEF Core, AttachedInv
<1>4. SavingInv'
  BY <1>1 DEF Core, SavingInv
<1>5. NotifyInv'
  BY <1>1 DEF Core, NotifyInv, MaySettle, Notifying
<1> QED
  BY <1>2, <1>3, <1>4, <1>5 DEF Core, SettledIsJustified

LEMMA CrashStep ==
  ASSUME TypeOK, Core, Crash
  PROVE  Core'
<1> USE DEF rowVars, Crash
<1>1. /\ \A w \in Workers :
           /\ pc'[w] \in {"idle", "stalled"} /\ todo'[w] = {} /\ cur'[w] = Null
           /\ \A t \in Rows : snap'[w][t] = Null
      /\ Null \notin Rows
  BY TxStatusAssumption DEF NoSnap, TypeOK
<1>2. \A r \in Requests : req'[r].op = "idle"
  BY DEF Idle
<1>3. HashesAreClaimed'
  BY <1>1 DEF Core, HashesAreClaimed
<1>4. AttachedInv'
  BY <1>1, <1>2 DEF Core, AttachedInv
<1>5. SavingInv'
  BY <1>1 DEF SavingInv
<1>6. NotifyInv'
  BY <1>1 DEF Core, NotifyInv, MaySettle, Notifying
<1> QED
  BY <1>3, <1>4, <1>5, <1>6 DEF Core, SettledIsJustified

LEMMA CoreStep ==
  ASSUME TypeOK, Core, [Next]_vars
  PROVE  Core'
<1>1. ASSUME NEW r \in Requests, NEW t \in Rows, CreateTransfer(r, t) PROVE Core'
  <2>1. \A q \in Requests : req'[q] = req[q] \/ req'[q].op = "attach"
    BY <1>1 DEF CreateTransfer, TypeOK
  <2> QED
    BY <1>1, <2>1, CreateStep DEF CreateTransfer, rowVars, workerVars, historyVars, envVars
<1>2. ASSUME NEW r \in Requests, NEW t \in Rows, NEW h \in Hashes, CreateSentTransfer(r, t, h) PROVE Core'
  <2>1. \A q \in Requests : req'[q] = req[q] \/ req'[q].op = "attach"
    BY <1>2 DEF CreateSentTransfer, TypeOK
  <2> QED
    BY <1>2, <2>1, CreateStep DEF CreateSentTransfer, rowVars, workerVars, historyVars, envVars
<1>3. ASSUME NEW r \in Requests, AttachTransfer(r) PROVE Core'
  BY <1>3, AttachStep
<1>4. ASSUME NEW t \in Rows, CreateSwap(t) PROVE Core'
  <2>1. \A v \in Rows : attached[v] => attached'[v]
    BY <1>4 DEF CreateSwap, TypeOK
  <2> QED
    BY <1>4, <2>1, CreateStep DEF CreateSwap, rowVars, workerVars, historyVars, envVars
<1>5. ASSUME NEW t \in Rows, NEW h \in Hashes, CreateSentSwap(t, h) PROVE Core'
  <2>1. \A v \in Rows : attached[v] => attached'[v]
    BY <1>5 DEF CreateSentSwap, TypeOK
  <2> QED
    BY <1>5, <2>1, CreateStep DEF CreateSentSwap, rowVars, workerVars, historyVars, envVars
<1>6. ASSUME NEW r \in Requests, NEW t \in Rows, NEW h \in TxIds, UpdateStatusRead(r, t, h) PROVE Core'
  BY <1>6, ReportReadStep
<1>7. ASSUME NEW r \in Requests, UpdateStatusSave(r) PROVE Core'
  BY <1>7, ReportSaveStep
<1>8. ASSUME NEW u \in Users, DeleteUser(u) PROVE Core'
  BY <1>8, DeleteStep
<1>9. ASSUME NEW n \in Networks, SetMode(n) PROVE Core'
  BY <1>9, QuietStep DEF SetMode, rowVars, workerVars, historyVars, envVars
<1>10. ASSUME NEW h \in Hashes, NEW o \in Outcomes, Mine(h, o) PROVE Core'
  BY <1>10, MineStep
<1>11. CASE handleTxCron
  BY <1>11, QuietStep DEF handleTxCron, rowVars, workerVars, historyVars, envVars
<1>12. ASSUME NEW w \in Workers, StartJob(w) PROVE Core'
  BY <1>12, ReadTransfersStep DEF StartJob, rowVars, workerVars, historyVars, envVars
<1>13. ASSUME NEW w \in Workers, RestartJob(w) PROVE Core'
  BY <1>13, ReadTransfersStep DEF RestartJob, rowVars, workerVars, historyVars, envVars
<1>14. ASSUME NEW w \in Workers, ReadSwaps(w) PROVE Core'
  BY <1>14, ReadSwapsStep
<1>15. ASSUME NEW w \in Workers, NEW t \in Rows, SkipSwap(w, t) PROVE Core'
  BY <1>15, SkipStep DEF SkipSwap, rowVars, workerVars, historyVars, envVars
<1>16. ASSUME NEW w \in Workers, NEW t \in Rows, CheckRefused(w, t) PROVE Core'
  BY <1>16, EndJobStep DEF CheckRefused, rowVars, workerVars, historyVars, envVars
<1>17. ASSUME NEW w \in Workers, NEW t \in Rows, CheckUnmined(w, t) PROVE Core'
  BY <1>17, SkipStep DEF CheckUnmined, rowVars, workerVars, historyVars, envVars
<1>18. ASSUME NEW w \in Workers, NEW t \in Rows, CheckMined(w, t) PROVE Core'
  BY <1>18, CheckMinedStep
<1>19. ASSUME NEW w \in Workers, SaveOutcome(w) PROVE Core'
  BY <1>19, SaveStep
<1>20. ASSUME NEW w \in Workers, Notify(w) PROVE Core'
  BY <1>20, NotifyStep
<1>21. ASSUME NEW w \in Workers, NotifyDeletedUser(w) PROVE Core'
  BY <1>21, EndJobStep DEF NotifyDeletedUser, rowVars, workerVars, historyVars, envVars
<1>22. ASSUME NEW w \in Workers, Finish(w) PROVE Core'
  BY <1>22, EndJobStep DEF Finish, rowVars, workerVars, historyVars, envVars
<1>23. ASSUME NEW w \in Workers, FailJob(w) PROVE Core'
  BY <1>23, EndJobStep DEF FailJob, rowVars, workerVars, historyVars, envVars
<1>24. ASSUME NEW w \in Workers, DropStalled(w) PROVE Core'
  BY <1>24, EndJobStep DEF DropStalled, rowVars, workerVars, historyVars, envVars
<1>25. CASE Crash
  BY <1>25, CrashStep
<1>26. CASE UNCHANGED vars
  BY <1>26, QuietStep DEF vars, rowVars, workerVars, historyVars, envVars
<1> QED
  BY <1>1, <1>2, <1>3, <1>4, <1>5, <1>6, <1>7, <1>8, <1>9, <1>10, <1>11, <1>12, <1>13, <1>14, <1>15, <1>16, <1>17, <1>18, <1>19, <1>20, <1>21, <1>22, <1>23, <1>24, <1>25, <1>26
  DEF Next, Handler, transfersProcessor, Resume

LEMMA StatusWriters ==
  ASSUME [Next]_vars
  PROVE  \/ UNCHANGED <<status, claims, receipt>>
         \/ \E r \in Requests, t \in Rows :
              CreateTransfer(r, t) \/ \E h \in Hashes : CreateSentTransfer(r, t, h)
         \/ \E t \in Rows : CreateSwap(t) \/ \E h \in Hashes : CreateSentSwap(t, h)
         \/ \E r \in Requests : UpdateStatusSave(r)
         \/ \E u \in Users : DeleteUser(u)
         \/ \E w \in Workers : SaveOutcome(w)
         \/ \E h \in Hashes, o \in Outcomes : Mine(h, o)
<1> USE DEF rowVars, workerVars, historyVars, envVars
<1>1. CASE UNCHANGED vars
  BY <1>1 DEF vars
<1>2. CASE Handler
  BY <1>2 DEF Handler, AttachTransfer, UpdateStatusRead, SetMode
<1>3. ASSUME NEW w \in Workers, StartJob(w) \/ Resume(w) \/ FailJob(w)
      PROVE  UNCHANGED <<status, claims, receipt>>
  BY <1>3 DEF StartJob, Resume, RestartJob, DropStalled, FailJob
<1>4. ASSUME NEW w \in Workers, transfersProcessor(w)
      PROVE  UNCHANGED <<status, claims, receipt>> \/ SaveOutcome(w)
  BY <1>4 DEF transfersProcessor, ReadSwaps, SkipSwap, CheckRefused, CheckUnmined,
              CheckMined, Notify, NotifyDeletedUser, Finish
<1>5. CASE handleTxCron \/ Crash
  BY <1>5 DEF handleTxCron, Crash
<1> QED
  BY <1>1, <1>2, <1>3, <1>4, <1>5 DEF Next

-----------------------------------------------------------------------------
\* The inductive invariant holds in every reachable state.
THEOREM Invariance == Spec => []IInv
<1>1. Init => IInv
  <2> SUFFICES ASSUME Init PROVE IInv
    OBVIOUS
  <2> USE TxStatusAssumption DEF Init
  <2>1. TypeOK
    BY DEF TypeOK, TxIds, Rows, Outcomes, Absent, NoSnap, Continuations, Idle
  <2>2. HashesAreClaimed /\ SettledIsJustified
    BY DEF HashesAreClaimed, SettledIsJustified, NoSnap, Outcomes
  <2>3. AttachedInv /\ SavingInv
    BY DEF AttachedInv, SavingInv, Idle
  <2>4. NotifyInv
    BY DEF NotifyInv, MaySettle, Notifying
  <2> QED
    BY <2>1, <2>2, <2>3, <2>4 DEF IInv, Core
<1>2. IInv /\ [Next]_vars => IInv'
  BY TypeStep, CoreStep DEF IInv, Core
<1> QED
  BY <1>1, <1>2, PTL DEF Spec

\* Type correctness of the rows, the queue, the jobs and the requests.
THEOREM TypeCorrect == Spec => []TypeOK
<1>1. IInv => TypeOK
  BY DEF IInv
<1> QED
  BY <1>1, Invariance, PTL

\* Whatever the interleaving of jobs and reports, a settled row is justified by
\* the receipt of a hash that was reported for it.
THEOREM SettledJustified == Spec => []SettledIsJustified
<1>1. IInv => SettledIsJustified
  BY DEF IInv, Core
<1> QED
  BY <1>1, Invariance, PTL

\* No worker sends more notifications for a row than the row got reports.
THEOREM NotifiedBound == Spec => []NotifiedOncePerReport
<1>1. IInv => NotifiedOncePerReport
  BY DEF IInv, Core, NotifyInv, NotifiedOncePerReport
<1> QED
  BY <1>1, Invariance, PTL

\* The processor handles only rows that belong to a user.
THEOREM CheckedOwned == Spec => []CheckedRowsHaveOwner
<1>1. IInv => CheckedRowsHaveOwner
  BY DEF IInv, Core, AttachedInv, CheckedRowsHaveOwner
<1> QED
  BY <1>1, Invariance, PTL

\* A late job never flips the outcome of a row of which one hash is known.
THEOREM SettledStable == Spec => SettledIsStable
<1> DEFINE Stable(t) ==
             /\ status[t] \in Outcomes
             /\ \A g, h \in claims'[t] : g = h
             /\ reports'[t] = reports[t]
             => status'[t] \in {status[t], "gone"}
<1>1. ASSUME IInv, [Next]_vars, NEW t \in Rows
      PROVE  Stable(t)
  <2> USE DEF Outcomes
  <2>1. ASSUME NEW v \in Rows, status[v] = "none", NEW s,
               status' = [status EXCEPT ![v] = s]
        PROVE  Stable(t)
    BY <1>1, <2>1 DEF IInv, TypeOK
  <2>2. ASSUME NEW r \in Requests, UpdateStatusSave(r)
        PROVE  Stable(t)
    <3>1. req[r].row \in Rows
      BY <1>1, <2>2, ContinuationRow DEF UpdateStatusSave, IInv
    <3>2. CASE t = req[r].row /\ status[t] # "gone"
      <4>1. reports'[t] = reports[t] + 1 /\ reports[t] \in Nat
        BY <1>1, <2>2, <3>1, <3>2 DEF UpdateStatusSave, IInv, TypeOK
      <4> QED
        BY <4>1
    <3>3. CASE t # req[r].row
      BY <1>1, <2>2, <3>1, <3>3 DEF UpdateStatusSave, IInv, TypeOK, rowVars
    <3> QED
      BY <3>2, <3>3
  <2>3. ASSUME NEW u \in Users, DeleteUser(u)
        PROVE  Stable(t)
    BY <2>3 DEF DeleteUser
  <2>4. ASSUME NEW w \in Workers, SaveOutcome(w), status[t] \in Outcomes,
               \A g, h \in claims'[t] : g = h
        PROVE  status'[t] \in {status[t], "gone"}
    <3>1. PICK h \in claims[t] : receipt[h] = status[t]
      BY <1>1, <2>4 DEF IInv, Core, SettledIsJustified
    <3>2. CASE cur[w] = t
      <4>1. snap[w][t] \in claims[t] /\ UNCHANGED claims
        BY <1>1, <2>4, <3>2, TxStatusAssumption
        DEF SaveOutcome, IInv, Core, SavingInv, HashesAreClaimed, historyVars
      <4>2. status'[t] \in {"gone", receipt[snap[w][t]]}
        BY <1>1, <2>4, <3>2 DEF SaveOutcome, IInv, TypeOK
      <4> QED
        BY <2>4, <3>1, <4>1, <4>2
    <3>3. CASE cur[w] # t
      BY <1>1, <2>4, <3>3 DEF SaveOutcome, IInv, TypeOK
    <3> QED
      BY <3>2, <3>3
  <2>5. ASSUME UNCHANGED status
        PROVE  Stable(t)
    BY <2>5
  <2> QED
    BY <1>1, StatusWriters, <2>1, <2>2, <2>3, <2>4, <2>5
    DEF CreateTransfer, CreateSentTransfer, CreateSwap, CreateSentSwap, Mine, rowVars
<1>2. IInv /\ [Next]_vars => [\A t \in Rows : Stable(t)]_vars
  BY <1>1
<1> QED
  BY <1>2, Invariance, PTL DEF Spec, SettledIsStable

\* The cron, the queue, the overlapping jobs and the two-step handlers implement
\* the abstract ledger of TxLedger.
THEOREM Refinement == Spec => ImplementsLedger
<1> USE DEF Rows
<1>1. Init => Ledger!LedgerInit
  BY DEF Init, Ledger!LedgerInit
<1>2. ASSUME IInv, [Next]_vars
      PROVE  [Ledger!LedgerNext]_(Ledger!ledgerVars)
  <2> USE DEF Ledger!LedgerNext, Ledger!ledgerVars
  <2>1. CASE UNCHANGED <<status, claims, receipt>>
    BY <2>1
  <2>2. ASSUME NEW r \in Requests, NEW t \in Rows,
               \/ CreateTransfer(r, t)
               \/ \E h \in Hashes : CreateSentTransfer(r, t, h)
        PROVE  Ledger!LedgerNext
    BY <2>2 DEF CreateTransfer, CreateSentTransfer, historyVars, envVars,
                Ledger!Open, Ledger!OpenSent
  <2>3. ASSUME NEW t \in Rows,
               CreateSwap(t) \/ \E h \in Hashes : CreateSentSwap(t, h)
        PROVE  Ledger!LedgerNext
    BY <2>3 DEF CreateSwap, CreateSentSwap, historyVars, envVars,
                Ledger!Open, Ledger!OpenSent
  <2>4. ASSUME NEW r \in Requests, UpdateStatusSave(r)
        PROVE  [Ledger!LedgerNext]_(Ledger!ledgerVars)
    <3> DEFINE t == req[r].row
               h == req[r].hash
    <3>1. t \in Rows /\ h \in TxIds /\ status[t] # "none"
      BY <1>2, <2>4, ContinuationRow DEF UpdateStatusSave, IInv, Core, AttachedInv
    <3>2. CASE status[t] = "gone"
      BY <2>4, <3>2 DEF UpdateStatusSave, rowVars, historyVars, envVars
    <3>3. CASE status[t] # "gone"
      <4>1. \/ status' = [status EXCEPT ![t] = "pending"]
            \/ UNCHANGED status
        BY <1>2, <2>4, <3>1, <3>3 DEF UpdateStatusSave, IInv, TypeOK
      <4>2. claims' = [claims EXCEPT ![t] = @ \union ({h} \ {Null})]
        BY <2>4, <3>3 DEF UpdateStatusSave
      <4>3. UNCHANGED receipt
        BY <2>4 DEF UpdateStatusSave, envVars
      <4>4. Ledger!Report(t, {h} \ {Null})
        BY <3>1, <3>3, <4>1, <4>2, <4>3 DEF Ledger!Report
      <4>5. {h} \ {Null} = {} \/ (h \in Hashes /\ {h} \ {Null} = {h})
        BY <3>1 DEF TxIds
      <4> HIDE DEF t, h
      <4> QED
        BY <3>1, <4>4, <4>5
    <3> QED
      BY <3>2, <3>3
  <2>5. ASSUME NEW u \in Users, DeleteUser(u)
        PROVE  Ledger!LedgerNext
    <3> DEFINE T == {t \in Rows : Owner[t] = u /\ attached[t]}
    <3>1. Ledger!Remove(T)
      BY <2>5 DEF DeleteUser, historyVars, Ledger!Remove
    <3>2. T \in SUBSET Rows
      OBVIOUS
    <3> HIDE DEF T
    <3> QED
      BY <3>1, <3>2
  <2>6. ASSUME NEW w \in Workers, SaveOutcome(w)
        PROVE  [Ledger!LedgerNext]_(Ledger!ledgerVars)
    <3> DEFINE t == cur[w]
    <3>1. /\ t \in Rows
          /\ snap[w][t] \in claims[t] /\ receipt[snap[w][t]] \in Outcomes
          /\ status[t] \notin {"none", "initial"}
      <4>1. t \in Rows /\ snap[w][t] \in Hashes /\ receipt[snap[w][t]] \in Outcomes
        BY <1>2, <2>6 DEF SaveOutcome, IInv, Core, SavingInv
      <4>2. snap[w][t] \in claims[t]
        BY <1>2, <4>1, TxStatusAssumption DEF IInv, Core, HashesAreClaimed
      <4>3. status[t] \notin {"none", "initial"}
        BY <1>2, <4>1 DEF IInv, Core, AttachedInv
      <4> QED
        BY <4>1, <4>2, <4>3
    <3>2. UNCHANGED <<claims, receipt>>
      BY <2>6 DEF SaveOutcome, historyVars, envVars
    <3>3. CASE status[t] = "gone"
      BY <1>2, <2>6, <3>2, <3>3 DEF SaveOutcome, IInv, TypeOK
    <3>4. CASE status[t] # "gone"
      <4>1. status' = [status EXCEPT ![t] = receipt[snap[w][t]]]
        BY <2>6, <3>4 DEF SaveOutcome
      <4>2. status[t] \in {"pending", "success", "failed"}
        BY <1>2, <3>1, <3>4 DEF IInv, TypeOK, Outcomes, Absent
      <4>3. Ledger!Settle(t)
        BY <3>1, <3>2, <4>1, <4>2 DEF Ledger!Settle, Ledger!Outcomes, Outcomes
      <4> HIDE DEF t
      <4> QED
        BY <3>1, <4>3
    <3> QED
      BY <3>3, <3>4
  <2>7. ASSUME NEW h \in Hashes, NEW o \in Outcomes, Mine(h, o)
        PROVE  Ledger!LedgerNext
    BY <2>7 DEF Mine, rowVars, historyVars, Ledger!Execute, Ledger!Outcomes, Outcomes
  <2> HIDE DEF Ledger!LedgerNext, Ledger!ledgerVars, Rows
  <2>8. [Ledger!LedgerNext]_(Ledger!ledgerVars) \/ ~UNCHANGED <<status, claims, receipt>>
    BY <2>1
  <2> QED
    BY <1>2, StatusWriters, <2>2, <2>3, <2>4, <2>5, <2>6, <2>7, <2>8
<1> QED
  BY <1>1, <1>2, Invariance, PTL DEF Spec, ImplementsLedger, Ledger!LedgerSpec

=============================================================================
