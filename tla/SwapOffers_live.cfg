SPECIFICATION FairSwapSpec
CONSTANTS
  Pairs = {"EthToErc20", "Erc20ToEth"}
  Requests = {"r1", "r2"}
  MaxAmount = 2
  Gas = 1
  MaxMoves = 1
CHECK_DEADLOCK FALSE
INVARIANT ExecutedSwapsHaveRow
PROPERTY SwapReached
