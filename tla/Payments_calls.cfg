SPECIFICATION FairSpec
CONSTANTS
  Payments = {p1}
  Wallets = {w1}
  Wallet <- ToWallet
  Users = {u1}
  User <- OneUser
  Owner <- OneOwner
  Handlers = {h1, h2}
  Last = 3
  MaxFaults = 2
  p1 = p1
  w1 = w1
  u1 = u1
  h1 = h1
  h2 = h2
CHECK_DEADLOCK FALSE
INVARIANT RedirectedIsListed
INVARIANT AnsweredIsShown
PROPERTY StagesOnlyRise
PROPERTY CallsAreAnswered
