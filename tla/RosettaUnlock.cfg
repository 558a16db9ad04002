CONSTANTS
  g = g
  a1 = a1
  b1 = b1
  a2 = a2
  b2 = b2
  c2 = c2
  a3 = a3
  b3 = b3
  a4 = a4
  t1 = t1
  t2 = t2
  t3 = t3
  t4 = t4
  t5 = t5
  t6 = t6
  ca2 = ca2
  cb3 = cb3
  ca4 = ca4
  alice = alice
  bob = bob
  carol = carol
  pool = pool
  k1 = k1
  k2 = k2
  gold = gold
  None = None
  NoMicro = NoMicro
  NoBlock = NoBlock
  Genesis <- g
  Block <- MCBlock
  Parent <- MCParent
  Height <- MCHeight
  Tx <- MCTx
  TxsOf <- MCTxsOf
  Burn <- MCBurn
  BurnHeight <- MCBurnHeight
  Tenure <- MCTenure
  HashOf <- MCHashOf
  TxData <- MCTxData
  PrintedIn <- LockEndsWithBlock
  MinerRewardsOf <- MCMinerRewardsOf
  PoxSetOf <- MCPoxSetOf
  ForcedUnlock <- MCForcedUnlock
  TokenOffering <- MCTokenOffering
  FtMetadata <- MCFtMetadata
  Address <- MCAddress
  Cycle <- MCCycle
SPECIFICATION Spec
INVARIANT RosettaReconciles
