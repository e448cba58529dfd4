SPECIFICATION Spec
CONSTANTS
  Users = {u1, u2}
  Addresses = {a1}
  Lists = {"wallets", "contacts", "transfers", "swaps", "payments", "notifications"}
  Donated = {"CHAT", "USDC"}
  Requests = {q1}
  Queries <- SomeQueries
  Limit = 1
  MaxRows = 3
  None = None
  u1 = u1
  u2 = u2
  a1 = a1
  q1 = q1
INVARIANT PagesAreExact
INVARIANT ListedAreCounted
INVARIANT WalletsLeaveByOwner
CHECK_DEADLOCK FALSE
