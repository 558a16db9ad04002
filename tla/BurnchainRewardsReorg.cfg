CONSTANTS
  g = g
  a1 = a1
  b2 = b2
  c2 = c2
  c3 = c3
  b3 = b3
  b4 = b4
  w1 = w1
  w2 = w2
  x2 = x2
  t1 = t1
  p = p
  q = q
  z = z
  None = None
  NoBlock = NoBlock
  NoBurnBlock = NoBurnBlock
  NoMessage = NoMessage
  Genesis <- g
  Block <- BackAndForth
  Parent <- BFParent
  Height <- BFHeight
  Tx = {t1}
  TxsOf <- BFTxsOf
  BurnBlock <- MCBurnBlock
  BurnParent <- MCBurnParent
  BurnHeight <- MCBurnHeight
  BurnOf <- BFBurnOf
  SlotsOf <- MCSlotsOf
  PayoutsOf <- MCPayoutsOf
  BtcOf <- MCBtcOf
  MaxCopies = 1
  MaxTasks = 1
SPECIFICATION ESpec
INVARIANT
  RewardsFollowBlocks
