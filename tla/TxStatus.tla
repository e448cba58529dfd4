------------------------------ MODULE TxStatus ------------------------------
(***************************************************************************)
(* The life of a transaction row in the wallet backend:                    *)
(*   - HTTP handlers open rows (transferExt, donationExt, swapExt, and the *)
(*     custody handlers, which record what they already sent) and take the *)
(*     user's report of a hash (updateStatus);                             *)
(*   - a cron tick adds a 'tx' job to the Bull queue every minute;         *)
(*   - up to Cardinality(Workers) sandboxed processors (tx.processor.ts)   *)
(*     take snapshots of the pending rows, ask the chain for receipts,     *)
(*     save the outcome and notify the user;                               *)
(*   - the chain mines transactions, an administrator switches the network *)
(*     mode, users delete their accounts, processes die.                   *)
(* One action is the code between two awaits whose effects can interleave. *)
(***************************************************************************)
EXTENDS FiniteSets, Integers, Sequences

CONSTANTS
  Transfers, Swaps,       \* rows of users_transfers and of users_swaps
  Users, Owner,           \* Owner[t]: the user on whose behalf row t is made
  Hashes,                 \* transaction hashes users may report
  Malformed,              \* reported strings a node refuses to look up
  Null,                   \* NULL in the txId column, undefined elsewhere
  Networks, Home,         \* Home[h]: the network transaction h was signed for
  Workers,                \* Bull runs this many 'tx' jobs at once (3)
  Requests,               \* HTTP requests in flight at once
  MaxQueue,               \* bound: jobs waiting in the queue
  MaxReports,             \* bound: reports accepted per row
  MaxFaults,              \* bound: RPC errors, process deaths
  MaxModeChanges          \* bound: switches of the network mode

Rows == Transfers \union Swaps
TxIds == Hashes \union {Null}

ASSUME TxStatusAssumption ==
  /\ Transfers \intersect Swaps = {}
  /\ Owner \in [Rows -> Users]
  /\ Malformed \subseteq Hashes
  /\ Null \notin Hashes \union Rows \union Networks
  /\ Home \in [Hashes -> Networks]
  /\ {MaxQueue, MaxReports, MaxFaults, MaxModeChanges} \subseteq Nat

VARIABLES
  status,    \* column status ("none": no row yet, "gone": cascaded delete)
  txId,      \* column txId
  attached,  \* column userId is set
  users,     \* accounts that exist
  receipt,   \* what the Home network answers for a hash
  mode,      \* app_config.mode
  queue,     \* 'tx' jobs waiting in Bull: each carries its mode
  pc, jobMode, todo, snap, cur, \* per worker: position, job.data.mode, rows
                                \* still to check, their txId when read, row
                                \* being settled
  req,       \* per request slot: the continuation of a handler after an await
  claims,    \* history: hashes the backend was told or broadcast, per row
  reports,   \* history: reports saved, per row
  notified,  \* history: notifications sent, per row and worker
  cut,       \* history: rows whose job ended between the save of their outcome
             \* and the push message
  faults, modeChanges   \* bounded counters

vars == <<status, txId, attached, users, receipt, mode, queue, pc, jobMode,
          todo, snap, cur, req, claims, reports, notified, cut, faults, modeChanges>>

rowVars == <<status, txId, attached>>
workerVars == <<pc, jobMode, todo, snap, cur>>
historyVars == <<claims, reports, notified, cut>>
envVars == <<users, receipt, mode, faults, modeChanges>>

Outcomes == {"success", "failed"}
Absent == {"none", "gone"}
Idle == [op |-> "idle"]
NoSnap == [t \in Rows |-> Null]

\* What getTransactionReceipt answers to a processor connected to network n.
ReceiptSeen(n, h) == IF Home[h] = n THEN receipt[h] ELSE "none"

-----------------------------------------------------------------------------
(* HTTP handlers                                                           *)

\* transfersRepo.create({ ..., status: 'initial' }): the row exists but its
\* userId is set by a second statement.
CreateTransfer(r, t) ==
  /\ req[r] = Idle
  /\ t \in Transfers /\ status[t] = "none" /\ Owner[t] \in users
  /\ status' = [status EXCEPT ![t] = "initial"]
  /\ req' = [req EXCEPT ![r] = [op |-> "attach", row |-> t]]
  /\ UNCHANGED <<txId, attached, queue, workerVars, historyVars, envVars>>

\* The custody handlers: sendSignedTransaction resolved with a receipt, which
\* web3 does only for a transaction that did not revert; txId stays NULL.
CreateSentTransfer(r, t, h) ==
  /\ req[r] = Idle
  /\ t \in Transfers /\ status[t] = "none" /\ Owner[t] \in users
  /\ receipt[h] = "success"
  /\ status' = [status EXCEPT ![t] = "success"]
  /\ claims' = [claims EXCEPT ![t] = @ \union {h}]
  /\ req' = [req EXCEPT ![r] = [op |-> "attach", row |-> t]]
  /\ UNCHANGED <<txId, attached, queue, workerVars, reports, notified, cut, envVars>>

\* user.$add('user_transfer', [id]): an UPDATE of userId, which the foreign
\* key refuses when the user was deleted meanwhile.
AttachTransfer(r) ==
  /\ req[r].op = "attach"
  /\ LET t == req[r].row IN
       attached' = [attached EXCEPT ![t] = @ \/ Owner[t] \in users]
  /\ req' = [req EXCEPT ![r] = Idle]
  /\ UNCHANGED <<status, txId, queue, workerVars, historyVars, envVars>>

\* user.$create('user_swap', ...) sets userId in the insert itself.
CreateSwap(t) ==
  /\ t \in Swaps /\ status[t] = "none" /\ Owner[t] \in users
  /\ status' = [status EXCEPT ![t] = "initial"]
  /\ attached' = [attached EXCEPT ![t] = TRUE]
  /\ UNCHANGED <<txId, queue, workerVars, req, historyVars, envVars>>

\* The same insert by swapCust, with the outcome it has just seen.
CreateSentSwap(t, h) ==
  /\ t \in Swaps /\ status[t] = "none" /\ Owner[t] \in users
  /\ receipt[h] = "success"
  /\ status' = [status EXCEPT ![t] = "success"]
  /\ attached' = [attached EXCEPT ![t] = TRUE]
  /\ claims' = [claims EXCEPT ![t] = @ \union {h}]
  /\ UNCHANGED <<txId, queue, workerVars, req, reports, notified, cut, envVars>>

\* updateStatus, first half: findOne({ id, userId }).
UpdateStatusRead(r, t, h) ==
  /\ req[r] = Idle
  /\ status[t] \notin Absent /\ attached[t]
  /\ reports[t] < MaxReports
  /\ req' = [req EXCEPT ![r] = [op |-> "save", row |-> t, hash |-> h,
                                seenStatus |-> status[t], seenTxId |-> txId[t]]]
  /\ UNCHANGED <<rowVars, queue, workerVars, historyVars, envVars>>

\* updateStatus, second half: tx.save() writes the columns whose value differs
\* from the one that was read, and no row if the row is gone.  A hash left out
\* of the body (undefined, not null) differs even from a NULL column.
UpdateStatusSave(r) ==
  /\ req[r].op = "save"
  /\ LET t == req[r].row
         h == req[r].hash IN
     IF status[t] = "gone" THEN UNCHANGED <<rowVars, historyVars>>
     ELSE /\ status' = [status EXCEPT ![t] =
                          IF req[r].seenStatus = "pending" THEN @ ELSE "pending"]
          /\ \/ /\ h = Null \/ req[r].seenTxId # h
                /\ txId' = [txId EXCEPT ![t] = h]
             \/ /\ req[r].seenTxId = h
                /\ UNCHANGED txId
          /\ claims' = [claims EXCEPT ![t] = @ \union ({h} \ {Null})]
          /\ reports' = [reports EXCEPT ![t] = @ + 1]
          /\ UNCHANGED <<attached, notified, cut>>
  /\ req' = [req EXCEPT ![r] = Idle]
  /\ UNCHANGED <<queue, workerVars, envVars>>

\* DELETE /users/delete: destroy, with ON DELETE CASCADE on tokens and rows.
DeleteUser(u) ==
  /\ u \in users
  /\ users' = users \ {u}
  /\ status' = [t \in Rows |->
                  IF Owner[t] = u /\ attached[t] THEN "gone" ELSE status[t]]
  /\ UNCHANGED <<txId, attached, queue, workerVars, req, historyVars,
                 receipt, mode, faults, modeChanges>>

\* PATCH of the app configuration by an administrator.
SetMode(n) ==
  /\ n # mode /\ modeChanges < MaxModeChanges
  /\ mode' = n
  /\ modeChanges' = modeChanges + 1
  /\ UNCHANGED <<rowVars, queue, workerVars, req, historyVars, users, receipt, faults>>

\* The chain executes a transaction; its receipt is final.
Mine(h, o) ==
  /\ h \notin Malformed /\ receipt[h] = "none"
  /\ receipt' = [receipt EXCEPT ![h] = o]
  /\ UNCHANGED <<rowVars, queue, workerVars, req, historyVars, users, mode,
                 faults, modeChanges>>

-----------------------------------------------------------------------------
(* The cron tick and the processor                                         *)

\* Fault: the mode is read once, when the process starts.
handleTxCron_FixedMode ==
  /\ Len(queue) < MaxQueue
  /\ queue' = Append(queue, CHOOSE n \in Networks : TRUE)
  /\ UNCHANGED <<rowVars, workerVars, req, historyVars, envVars>>

handleTxCron ==
  /\ Len(queue) < MaxQueue
  /\ queue' = Append(queue, mode)
  /\ UNCHANGED <<rowVars, workerVars, req, historyVars, envVars>>

\* Fault: findAll selects the settled rows again.
Pending_AnyReported(T) == {t \in T : status[t] \in {"pending"} \union Outcomes}

Pending(T) == {t \in T : status[t] = "pending"}

\* The worker drops its job, finished or failed: Bull does not retry it.
EndJob(w) ==
  /\ pc' = [pc EXCEPT ![w] = "idle"]
  /\ todo' = [todo EXCEPT ![w] = {}]
  /\ snap' = [snap EXCEPT ![w] = NoSnap]
  /\ cur' = [cur EXCEPT ![w] = Null]
  /\ jobMode' = [jobMode EXCEPT ![w] = Null]

\* Transfer.findAll({ where: { status: 'pending' } }).
ReadTransfers(w) ==
  /\ todo' = [todo EXCEPT ![w] = Pending(Transfers)]
  /\ snap' = [snap EXCEPT ![w] =
                [t \in Rows |-> IF t \in Pending(Transfers) THEN txId[t] ELSE Null]]
  /\ pc' = [pc EXCEPT ![w] = "swaps"]

\* Bull hands the oldest waiting job to a free worker.
StartJob(w) ==
  /\ pc[w] = "idle" /\ queue # <<>>
  /\ queue' = Tail(queue)
  /\ jobMode' = [jobMode EXCEPT ![w] = Head(queue)]
  /\ ReadTransfers(w)
  /\ UNCHANGED <<rowVars, cur, req, historyVars, envVars>>

\* Bull's stalled-job check gives the job of a dead process back to be run.
RestartJob(w) ==
  /\ pc[w] = "stalled"
  /\ ReadTransfers(w)
  /\ UNCHANGED <<rowVars, queue, jobMode, cur, req, historyVars, envVars>>

\* Swap.findAll, a second statement and so a second snapshot.
ReadSwaps(w) ==
  /\ pc[w] = "swaps"
  /\ todo' = [todo EXCEPT ![w] = @ \union Pending(Swaps)]
  /\ snap' = [snap EXCEPT ![w] =
                [t \in Rows |-> IF t \in Pending(Swaps) THEN txId[t] ELSE @[t]]]
  /\ pc' = [pc EXCEPT ![w] = "check"]
  /\ UNCHANGED <<rowVars, queue, jobMode, cur, req, historyVars, envVars>>

\* findAll has no ORDER BY: any row next, but all transfers before the swaps.
Turn(w, t) ==
  /\ pc[w] = "check" /\ t \in todo[w]
  /\ t \in Swaps => todo[w] \intersect Transfers = {}

\* The loop over the swaps skips a row that has no hash.
SkipSwap(w, t) ==
  /\ Turn(w, t) /\ t \in Swaps /\ snap[w][t] = Null
  /\ todo' = [todo EXCEPT ![w] = @ \ {t}]
  /\ UNCHANGED <<rowVars, queue, pc, jobMode, snap, cur, req, historyVars, envVars>>

\* The node refuses to look up a NULL or malformed hash: the exception ends
\* the job.  The loop over the transfers has no guard against it.
CheckRefused(w, t) ==
  /\ Turn(w, t)
  /\ snap[w][t] \in Malformed \/ (t \in Transfers /\ snap[w][t] = Null)
  /\ EndJob(w)
  /\ UNCHANGED <<rowVars, queue, req, historyVars, envVars>>

\* No receipt yet on the network of the job: the next job will ask again.
CheckUnmined(w, t) ==
  /\ Turn(w, t) /\ snap[w][t] \in Hashes \ Malformed
  /\ ReceiptSeen(jobMode[w], snap[w][t]) = "none"
  /\ todo' = [todo EXCEPT ![w] = @ \ {t}]
  /\ UNCHANGED <<rowVars, queue, pc, jobMode, snap, cur, req, historyVars, envVars>>

\* A receipt: the row will be saved with its outcome.
CheckMined(w, t) ==
  /\ Turn(w, t) /\ snap[w][t] \in Hashes \ Malformed
  /\ ReceiptSeen(jobMode[w], snap[w][t]) \in Outcomes
  /\ todo' = [todo EXCEPT ![w] = @ \ {t}]
  /\ cur' = [cur EXCEPT ![w] = t]
  /\ pc' = [pc EXCEPT ![w] = "save"]
  /\ UNCHANGED <<rowVars, queue, jobMode, snap, req, historyVars, envVars>>

\* Fault: any receipt counts as success.
SaveOutcome_AnyReceiptIsSuccess(w) ==
  /\ pc[w] = "save"
  /\ status' = [status EXCEPT ![cur[w]] = IF @ = "gone" THEN @ ELSE "success"]
  /\ pc' = [pc EXCEPT ![w] = "notify"]
  /\ UNCHANGED <<txId, attached, queue, jobMode, todo, snap, cur, req, historyVars, envVars>>

\* Fault: the row is written back even when it was deleted (an upsert).
SaveOutcome_Upsert(w) ==
  /\ pc[w] = "save"
  /\ LET t == cur[w] IN status' = [status EXCEPT ![t] = receipt[snap[w][t]]]
  /\ pc' = [pc EXCEPT ![w] = "notify"]
  /\ UNCHANGED <<txId, attached, queue, jobMode, todo, snap, cur, req, historyVars, envVars>>

\* Fault: the loop continues before the notification.
SaveOutcome_Silent(w) ==
  /\ pc[w] = "save"
  /\ LET t == cur[w] IN
       status' = [status EXCEPT ![t] = IF @ = "gone" THEN @ ELSE receipt[snap[w][t]]]
  /\ pc' = [pc EXCEPT ![w] = "check"]
  /\ UNCHANGED <<txId, attached, queue, jobMode, todo, snap, cur, req, historyVars, envVars>>

\* row.status = ...; row.save(): an UPDATE by id of the status alone, whatever
\* the row holds by now.
SaveOutcome(w) ==
  /\ pc[w] = "save"
  /\ LET t == cur[w] IN
       status' = [status EXCEPT ![t] = IF @ = "gone" THEN @ ELSE receipt[snap[w][t]]]
  /\ pc' = [pc EXCEPT ![w] = "notify"]
  /\ UNCHANGED <<txId, attached, queue, jobMode, todo, snap, cur, req, historyVars, envVars>>

\* UserToken.findOne finds the device token: the notification goes out.
Notify(w) ==
  /\ pc[w] = "notify" /\ Owner[cur[w]] \in users
  /\ notified' = [notified EXCEPT ![cur[w]][w] = @ + 1]
  /\ pc' = [pc EXCEPT ![w] = "check"]
  /\ cur' = [cur EXCEPT ![w] = Null]
  /\ UNCHANGED <<rowVars, queue, jobMode, todo, snap, req, claims, reports, cut, envVars>>

\* The user is gone and his tokens with him: userTokens is null, and reading
\* its firebase_secret throws.
NotifyDeletedUser(w) ==
  /\ pc[w] = "notify" /\ Owner[cur[w]] \notin users
  /\ EndJob(w)
  /\ UNCHANGED <<rowVars, queue, req, historyVars, envVars>>

Finish(w) ==
  /\ pc[w] = "check" /\ todo[w] = {}
  /\ EndJob(w)
  /\ UNCHANGED <<rowVars, queue, req, historyVars, envVars>>

-----------------------------------------------------------------------------
(* Faults                                                                  *)

\* Rows these workers have settled and not announced yet.
Unannounced(W) == {cur[w] : w \in {v \in W : pc[v] = "notify"}}

\* Fault: the failing job puts the row it was at back to pending.
FailJob_Rollback(w) ==
  /\ pc[w] = "notify" /\ faults < MaxFaults
  /\ faults' = faults + 1
  /\ status' = [status EXCEPT ![cur[w]] = "pending"]
  /\ EndJob(w)
  /\ UNCHANGED <<txId, attached, queue, req, historyVars, users, receipt, mode, modeChanges>>

\* An await of the processor rejects (RPC node, database), or its sandboxed
\* child process dies: the job fails.
FailJob(w) ==
  /\ pc[w] \notin {"idle", "stalled"} /\ faults < MaxFaults
  /\ faults' = faults + 1
  /\ EndJob(w)
  /\ cut' = cut \union Unannounced({w})
  /\ UNCHANGED <<rowVars, queue, req, claims, reports, notified, users, receipt, mode, modeChanges>>

\* The backend process dies with its children: handlers in flight are lost,
\* active jobs stall in Redis.
Crash ==
  /\ faults < MaxFaults
  /\ faults' = faults + 1
  /\ req' = [r \in Requests |-> Idle]
  /\ pc' = [w \in Workers |-> IF pc[w] = "idle" THEN "idle" ELSE "stalled"]
  /\ todo' = [w \in Workers |-> {}]
  /\ snap' = [w \in Workers |-> NoSnap]
  /\ cur' = [w \in Workers |-> Null]
  /\ cut' = cut \union Unannounced(Workers)
  /\ UNCHANGED <<rowVars, queue, jobMode, claims, reports, notified, users, receipt, mode, modeChanges>>

\* A job that stalled more than once fails instead of being run again.
DropStalled(w) ==
  /\ pc[w] = "stalled"
  /\ EndJob(w)
  /\ UNCHANGED <<rowVars, queue, req, historyVars, envVars>>

-----------------------------------------------------------------------------
Init ==
  /\ status = [t \in Rows |-> "none"]
  /\ txId = [t \in Rows |-> Null]
  /\ attached = [t \in Rows |-> FALSE]
  /\ users = Users
  /\ receipt = [h \in Hashes |-> "none"]
  /\ mode \in Networks
  /\ queue = <<>>
  /\ pc = [w \in Workers |-> "idle"]
  /\ jobMode = [w \in Workers |-> Null]
  /\ todo = [w \in Workers |-> {}]
  /\ snap = [w \in Workers |-> NoSnap]
  /\ cur = [w \in Workers |-> Null]
  /\ req = [r \in Requests |-> Idle]
  /\ claims = [t \in Rows |-> {}]
  /\ reports = [t \in Rows |-> 0]
  /\ notified = [t \in Rows |-> [w \in Workers |-> 0]]
  /\ cut = {}
  /\ faults = 0
  /\ modeChanges = 0

Handler ==
  \/ \E r \in Requests, t \in Rows :
       \/ CreateTransfer(r, t)
       \/ \E h \in Hashes : CreateSentTransfer(r, t, h)
       \/ \E h \in TxIds : UpdateStatusRead(r, t, h)
  \/ \E r \in Requests : AttachTransfer(r) \/ UpdateStatusSave(r)
  \/ \E t \in Rows : CreateSwap(t) \/ \E h \in Hashes : CreateSentSwap(t, h)
  \/ \E u \in Users : DeleteUser(u)
  \/ \E n \in Networks : SetMode(n)

\* transfersProcessor: whatever worker w does next with the job it holds.
transfersProcessor(w) ==
  \/ ReadSwaps(w) \/ SaveOutcome(w) \/ Notify(w) \/ NotifyDeletedUser(w) \/ Finish(w)
  \/ \E t \in Rows : \/ SkipSwap(w, t) \/ CheckRefused(w, t)
                      \/ CheckUnmined(w, t) \/ CheckMined(w, t)

Resume(w) == RestartJob(w) \/ DropStalled(w)

Next ==
  \/ Handler
  \/ \E h \in Hashes, o \in Outcomes : Mine(h, o)
  \/ handleTxCron
  \/ \E w \in Workers : StartJob(w) \/ transfersProcessor(w) \/ Resume(w) \/ FailJob(w)
  \/ Crash

Spec == Init /\ [][Next]_vars

\* The scheduler keeps firing the cron, Bull keeps handing out waiting and
\* stalled jobs, and a running job goes on.  Nothing makes users act or
\* transactions be mined.
Fairness ==
  /\ WF_vars(handleTxCron)
  /\ WF_vars(\E w \in Workers : StartJob(w))
  /\ \A w \in Workers : WF_vars(transfersProcessor(w)) /\ WF_vars(Resume(w))

FairSpec == Spec /\ Fairness

-----------------------------------------------------------------------------
(* Safety                                                                  *)

Continuations ==
  {Idle}
  \union [op : {"attach"}, row : Transfers]
  \union [op : {"save"}, row : Rows, hash : TxIds,
          seenStatus : {"initial", "pending"} \union Outcomes, seenTxId : TxIds]

\* Every variable stays in its range; a job holds a mode and rows only while
\* it runs.
TypeOK ==
  /\ status \in [Rows -> {"initial", "pending"} \union Outcomes \union Absent]
  /\ txId \in [Rows -> TxIds]
  /\ attached \in [Rows -> BOOLEAN]
  /\ users \in SUBSET Users
  /\ receipt \in [Hashes -> {"none"} \union Outcomes]
  /\ mode \in Networks
  /\ queue \in Seq(Networks) /\ Len(queue) <= MaxQueue
  /\ pc \in [Workers -> {"idle", "swaps", "check", "save", "notify", "stalled"}]
  /\ jobMode \in [Workers -> Networks \union {Null}]
  /\ todo \in [Workers -> SUBSET Rows]
  /\ snap \in [Workers -> [Rows -> TxIds]]
  /\ cur \in [Workers -> Rows \union {Null}]
  /\ req \in [Requests -> Continuations]
  /\ claims \in [Rows -> SUBSET Hashes]
  /\ reports \in [Rows -> Nat]
  /\ notified \in [Rows -> [Workers -> Nat]]
  /\ cut \subseteq Rows
  /\ faults \in 0..MaxFaults /\ modeChanges \in 0..MaxModeChanges

\* A row that shows success or failed does so because the chain gave that
\* outcome to a hash the backend was told for this row, however the snapshots
\* of overlapping jobs and the reports of the user interleave
\* (transfersProcessor saves by id a row it read many awaits ago).
SettledIsJustified ==
  \A t \in Rows :
    status[t] \in Outcomes => \E h \in claims[t] : receipt[h] = status[t]

\* No worker notifies the user of a row more often than the row was reported:
\* a job run again after a crash, or a row settled twice, does not repeat the
\* push message of the same report from the same worker.
NotifiedOncePerReport ==
  \A t \in Rows, w \in Workers : notified[t][w] <= reports[t]

\* The processor only ever handles rows that belong to somebody: a row whose
\* userId was never set (the handler died before $add) stays out of its hands.
CheckedRowsHaveOwner ==
  \A w \in Workers, t \in Rows :
    t \in todo[w] \/ t = cur[w] => attached[t]

\* Once settled, a row of which one single hash is known changes only when its
\* user reports again or leaves; in particular no late job flips it.
SettledIsStable ==
  [][\A t \in Rows :
       /\ status[t] \in Outcomes
       /\ \A g, h \in claims'[t] : g = h
       /\ reports'[t] = reports[t]
       => status'[t] \in {status[t], "gone"}]_vars

\* The abstract promise (module TxLedger).
Ledger == INSTANCE TxLedger
ImplementsLedger == Ledger!LedgerSpec

-----------------------------------------------------------------------------
(* Liveness                                                                *)

\* A pending row that makes the node refuse the look-up, and so ends the job.
Refused(t) ==
  /\ status[t] = "pending"
  /\ txId[t] \in Malformed \/ (t \in Transfers /\ txId[t] = Null)

\* A pending row that a job of the current mode would settle.
Ripe(t) ==
  /\ status[t] = "pending" /\ txId[t] \in Hashes \ Malformed
  /\ ReceiptSeen(mode, txId[t]) \in Outcomes

\* No row stays ripe for ever, unless some row makes every job fail.
RipeRowsSettle ==
  \A t \in Rows : []<>(~Ripe(t) \/ \E p \in Rows : Refused(p))

\* The user of a row that was settled after a report is notified at least once,
\* whatever else fails, crashes or is deleted, unless he left himself or the job that
\* saved the outcome of this very row ended before its push message
\* (transfersProcessor).
SettledRowsAreNotified ==
  \A t \in Rows :
    status[t] \in Outcomes /\ reports[t] > 0
      ~> \/ \E w \in Workers : notified[t][w] > 0
         \/ Owner[t] \notin users
         \/ t \in cut

\* The README's promise again: when no report is being saved and no job runs,
\* a settled row shows the outcome of the hash it shows.
QuietRowsAgree ==
  (\A r \in Requests : req[r] = Idle) /\ (\A w \in Workers : pc[w] = "idle") =>
    \A t \in Rows :
      status[t] \in Outcomes /\ txId[t] \in Hashes => receipt[txId[t]] = status[t]
=============================================================================
