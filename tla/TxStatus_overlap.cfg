SPECIFICATION Spec
CONSTANTS
  Transfers = {t1}
  Swaps = {}
  Users = {u1}
  Owner <- OneOwner
  Hashes = {h1, h2}
  Malformed = {}
  Null = Null
  Networks = {mainnet}
  Home <- AllMainnet
  Workers = {w1, w2}
  Requests = {r1, r2}
  MaxQueue = 1
  MaxReports = 2
  MaxFaults = 1
  MaxModeChanges = 0
  t1 = t1
  s1 = s1
  u1 = u1
  u2 = u2
  r1 = r1
  r2 = r2
  w1 = w1
  w2 = w2
  h1 = h1
  h2 = h2
  bad = bad
  mainnet = mainnet
  testnet = testnet
SYMMETRY Symmetry
INVARIANT SettledIsJustified
INVARIANT NotifiedOncePerReport
PROPERTY SettledIsStable
PROPERTY ImplementsLedger
