CONSTANTS
  g = g
  a1 = a1
  b1 = b1
  a2 = a2
  b2 = b2
  c2 = c2
  a3 = a3
  b3 = b3
  a4 = a4
  t1 = t1
  t2 = t2
  t3 = t3
  t4 = t4
  t5 = t5
  t6 = t6
  ca2 = ca2
  cb3 = cb3
  ca4 = ca4
  alice = alice
  bob = bob
  carol = carol
  pool = pool
  k1 = k1
  k2 = k2
  gold = gold
  None = None
  NoMicro = NoMicro
  NoBlock = NoBlock
  u0 = u0
  u1 = u1
  u2 = u2
  u3 = u3
  u4 = u4
  u5 = u5
  u6 = u6
  u7 = u7
  u8 = u8
  x = x
  y = y
  mName = mName
  nName = nName
  NoHash = NoHash
  NoAccount = NoAccount
  Genesis <- g
  Block <- MCBlock
  Parent <- MCParent
  Height <- MCHeight
  Tx <- AllTx
  TxsOf <- AllTxsOf
  Burn <- MCBurn
  BurnHeight <- MCBurnHeight
  Tenure <- MCTenure
  HashOf <- MCHashOf
  TxData <- AllTxData
  PrintedIn <- AllPrintedIn
  MinerRewardsOf <- MCMinerRewardsOf
  PoxSetOf <- MCPoxSetOf
  ForcedUnlock <- MCForcedUnlock
  TokenOffering <- MCTokenOffering
  FtMetadata <- MCFtMetadata
  Address <- MCAddress
  Cycle <- MCCycle
  Account <- MCAccount
  FeeOf <- MCFeeOf
  EventsOf <- MCEventsOf
  RewardsOf <- MCRewardsOf
  Asset <- MCAsset
  Principal <- MCPrincipal
  NftEventsOf <- MCNftEventsOf
  Name <- MCName
  BnsEventsOf <- MCBnsEventsOf
  AttachmentsOf <- MCAttachmentsOf
  NamesPerPage = 1
SPECIFICATION DSpec
INVARIANTS
  TypeOK
  CanonicalIsOneChain
  EntitiesFollowBlocks
  TxCountMatchesRows
  RosettaReconciles
  StackingAnswersAgree
  SupplyIsBalances
  BalancesMatchRows
  CustodyIsLatestEvent
  FollowerHasCanonicalChain
  
  ListedNamesResolve
PROPERTIES
  ReorgOnlyToLongerChain
  UpdateTerminates
  ShowsBestChain
