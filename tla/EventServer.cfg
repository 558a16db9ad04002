CONSTANTS
  g = g
  a1 = a1
  b2 = b2
  c2 = c2
  c3 = c3
  b3 = b3
  b4 = b4
  w1 = w1
  w2 = w2
  x2 = x2
  t1 = t1
  p = p
  q = q
  z = z
  None = None
  NoBlock = NoBlock
  NoBurnBlock = NoBurnBlock
  NoMessage = NoMessage
  Genesis <- g
  Block <- MCBlock
  Parent <- MCParent
  Height <- MCHeight
  Tx = {t1}
  TxsOf <- MCTxsOf
  BurnBlock <- MCBurnBlock
  BurnParent <- MCBurnParent
  BurnHeight <- MCBurnHeight
  BurnOf <- MCBurnOf
  SlotsOf <- MCSlotsOf
  PayoutsOf <- MCPayoutsOf
  BtcOf <- MCBtcOf
  MaxCopies = 2
  MaxTasks = 2
SPECIFICATION ESpec
INVARIANTS
  ETypeOK
  AckedIsDurable
  ReplayGivesSameTip
  SlotHoldersOfOneFork
PROPERTY
  NodeIsAnswered
