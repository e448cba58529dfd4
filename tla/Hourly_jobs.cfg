SPECIFICATION Spec
CONSTANTS
  Users = {u1}
  Wallets = {w1, w2}
  OwnerOf <- Owners
  Early <- Held
  InitMode = "main"
  InitTokens <- SomeTokens
  MaxWork = 2
  MaxTokens = 8
  InitLedger <- Before
  MaxEdits = 2
  Edited = {3, 6}
  Moving = {w2}
  None = None
  u1 = u1
  w1 = w1
  w2 = w2
INVARIANT PricesMirrored
INVARIANT ConfigurationIsWhole
INVARIANT RewardedOncePerRun
INVARIANT ReflectionsStray
CHECK_DEADLOCK FALSE
