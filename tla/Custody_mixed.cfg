SPECIFICATION FairCustodySpec
CONSTANTS
  Ops = {o1, o2, o3}
  Accounts = {a1}
  Wallet <- OneWallet
  Kind <- Mixed
  Amount <- One
  Funds <- Two
  a1 = a1
  o1 = o1
  o2 = o2
  o3 = o3
CHECK_DEADLOCK FALSE
INVARIANT AcceptedIsNext
INVARIANT HistoryExplainsBalance
INVARIANT AnsweredIsRecorded
PROPERTY ImplementsLedger
PROPERTY PoolDrains
