SPECIFICATION Spec
CONSTANTS
  Requests = {q1, q2}
  MaxTxs = 5
  Investors = {i1, i2}
  Terms <- SmallTerms
  Supply = 64
  Scale = 1000
  MaxTime = 3
  q1 = q1
  q2 = q2
  i1 = i1
  i2 = i2
CHECK_DEADLOCK FALSE
SYMMETRY Symmetry
INVARIANT PoolCanBeMade
INVARIANT EndIsPossible
INVARIANT DevGetsAFifth
INVARIANT PoolIsListed
