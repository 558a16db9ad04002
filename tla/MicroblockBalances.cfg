CONSTANTS
  g = g
  a1 = a1
  a2 = a2
  b2 = b2
  c2 = c2
  a3 = a3
  b3 = b3
  a4 = a4
  m0 = m0
  m1 = m1
  n1 = n1
  p0 = p0
  t0 = t0
  t1 = t1
  t2 = t2
  t3 = t3
  t4 = t4
  alice = alice
  bob = bob
  carol = carol
  vault = vault
  None = None
  SendMany = SendMany
  NoBlock = NoBlock
  NoMicro = NoMicro
  CountBound = 2
  Genesis <- g
  Block <- MCBlock
  Parent <- MCParent
  Height <- MCHeight
  Tx <- MCTx
  TxsOf <- MCTxsOf
  Microblock <- MCMicroblock
  MbBase <- MCMbBase
  MbPrev <- MCMbPrev
  MbTxs <- MCMbTxs
  StreamTip <- MCStreamTip
  Batch <- MCBatch
  Burn <- MCBurn
  BurnHeight <- MCBurnHeight
  Tenure <- MCTenure
  HashOf <- MCHashOf
  EventsIn <- MCEventsIn
  TxData <- MCTxData
  Address <- MCAddress
  Contract = {vault}
SPECIFICATION ASpec
INVARIANT StreamBalancesMatchRows
