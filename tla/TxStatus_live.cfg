SPECIFICATION FairSpec
CONSTANTS
  Transfers = {t1}
  Swaps = {s1}
  Users = {u1, u2}
  Owner <- TwoOwners
  Hashes = {h2, bad}
  Malformed = {bad}
  Null = Null
  Networks = {mainnet, testnet}
  Home <- TwoHomes
  Workers = {w1}
  Requests = {r1}
  MaxQueue = 2
  MaxReports = 1
  MaxFaults = 1
  MaxModeChanges = 1
  t1 = t1
  s1 = s1
  u1 = u1
  u2 = u2
  r1 = r1
  r2 = r2
  w1 = w1
  w2 = w2
  h1 = h1
  h2 = h2
  bad = bad
  mainnet = mainnet
  testnet = testnet
PROPERTY RipeRowsSettle
PROPERTY SettledRowsAreNotified
