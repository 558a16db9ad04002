CONSTANTS
  g = g
  a1 = a1
  a2 = a2
  b2 = b2
  a3 = a3
  b3 = b3
  t1 = t1
  t2 = t2
  t3 = t3
  t4 = t4
  alice = alice
  bob = bob
  NoBlock = NoBlock
  NoTx = NoTx
  None = None
  NoMicro = NoMicro
  NoAddress = NoAddress
  MempoolAge = 2
  Genesis <- g
  Block <- MCBlock
  Parent <- MCParent
  Height <- MCHeight
  Tx <- MCTx
  TxsOf <- MCTxsOf
  Address <- MCAddress
  Attr <- MCAttr
SPECIFICATION PSpec
INVARIANTS
  MTypeOK
  NoPendingRivalOfMined
  OneAnswerPerTx
  MempoolAnswersAgree
PROPERTIES
  OrphanedTxReturns
