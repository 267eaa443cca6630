CONSTANTS
  GenesisBlock = "g0"
  NoBlock = "none"
  NoTx = "none"
  Prev <- MCPrev
  ChainWork <- MCChainWork
  Vtx <- MCVtx
  FailsAt <- MCFailsAt
  Ins <- MCIns
  NOut <- MCNOut
  Value <- MCValue
  Subsidy <- MCSubsidy
  CoinbaseMaturity = 1
  MaxMoney = 20
  Blocks = {"g0", "g1", "g2", "a3", "a4", "c3", "k4", "e4"}
  Txs = {"cg0", "cg1", "cg2", "ca3", "t1", "t3", "ca4", "t5", "cc3", "t4", "ck4", "ce4", "t2", "t8"}
  CoinBases = {"cg0", "cg1", "cg2", "ca3", "ca4", "cc3", "ck4", "ce4"}
  Unsigned = {}
  Standard = {"t1", "t2", "t3", "t4", "t8"}
  MaxCrashes = 0
  MaxUnsynced = 0
SPECIFICATION FairSpec
INVARIANTS
  NextTxSound
  PoolIsUnconfirmed
  SupplyIsBounded
  BestHasMostWork
PROPERTIES
  BestWorkGrows
  ImplementsBestChain
  Converges
