CONSTANTS
  GenesisBlock = "g0"
  NoBlock = "none"
  NoTx = "none"
  Prev <- MCPrev
  ChainWork <- MCChainWork
  Vtx <- MCVtx
  FailsAt <- MCFailsAt
  Ins <- MCIns
  NOut <- MCNOut
  Value <- MCValue
  Subsidy <- MCSubsidy
  CoinbaseMaturity = 1
  MaxMoney = 20
  Blocks = {"g0", "g1", "g2", "a3", "b3", "b4", "u3"}
  Txs = {"cg0", "cg1", "cg2", "ca3", "t1", "t3", "cb3", "t4", "cb4", "t2", "cu3", "t7"}
  CoinBases = {"cg0", "cg1", "cg2", "ca3", "cb3", "cb4", "cu3"}
  Unsigned = {"t7"}
  Standard = {"t1", "t2", "t4"}
  MaxCrashes = 1
  MaxUnsynced = 0
SPECIFICATION MinerSpec
INVARIANTS
  MinedBlockConnects
  StaleIsNoticed
