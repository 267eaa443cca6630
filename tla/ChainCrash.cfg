CONSTANTS
  GenesisBlock = "g0"
  NoBlock = "none"
  NoTx = "none"
  Prev <- MCPrev
  ChainWork <- MCChainWork
  Vtx <- MCVtx
  FailsAt <- MCFailsAt
  Ins <- MCIns
  NOut <- MCNOut
  Value <- MCValue
  Subsidy <- MCSubsidy
  CoinbaseMaturity = 1
  MaxMoney = 20
  Blocks = {"g0", "g1", "g2", "a3", "a4", "c3", "c4", "c5", "k4", "x3", "y3", "h4"}
  Txs = {"cg0", "cg1", "cg2", "ca3", "t1", "t3", "ca4", "t5", "cc3", "t4", "cc4", "t2", "cc5", "ck4", "cx3", "cy3", "ch4"}
  CoinBases = {"cg0", "cg1", "cg2", "ca3", "ca4", "cc3", "cc4", "cc5", "ck4", "cx3", "cy3", "ch4"}
  Unsigned = {}
  Standard = {"t1", "t2", "t4"}
  MaxCrashes = 2
  MaxUnsynced = 2
SPECIFICATION Spec
INVARIANTS
  ChainInv
  Recoverable
  MemoryIsRight
  CanAlwaysDisconnect
