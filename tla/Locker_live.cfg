SPECIFICATION FairLockerSpec
CONSTANTS
  Requests = {q1, q2}
  MaxTxs = 4
  Owner = owner
  Others <- OtherAccounts
  Batches <- SmallBatches
  Withdrawals = {1}
  Receivers = {holder}
  FloatErrors <- Errors
  Funds = 3
  MaxDeposits = 3
  LastTime = 2
  owner = owner
  holder = holder
  q1 = q1
  q2 = q2
CHECK_DEADLOCK FALSE
INVARIANT BooksAgree
INVARIANT ApprovalsAreUsed
 
