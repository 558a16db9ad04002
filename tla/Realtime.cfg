CONSTANTS
  r1 = r1
  i1 = i1
  mempool = mempool
  tx1 = tx1
  tx2 = tx2
  nft = nft
  collection = collection
  transaction = transaction
  txEvent = txEvent
  nftEvent = nftEvent
  NoTask = NoTask
  RpcClient = {r1}
  IoClient = {i1}
  Topic <- TxAndNft
  Manager <- Managers
  ManagerOf <- ManagerOfKind
  Event = {txEvent, nftEvent}
  StagesOf <- TxAndNftStages
  OneQuery = {nftEvent}
  ById = {nftEvent}
  EndsIfMissing = {nftEvent}
  Interest <- TxAndNftInterest
  MaxVersion <- TxTwice
  MaxChanges = 2
  MaxWaiting = 1
  MaxOverdue = 1
SPECIFICATION RSpec
INVARIANTS
  RTypeOK
  ClosedLeavesNothing
  OwedIsUnderWay
PROPERTIES
  OnlyTopicIsKept
  HungClientIsDropped
