CONSTANTS
  GenesisBlock = "g0"
  NoBlock = "none"
  NoTx = "none"
  Prev <- OrphanPrev
  ChainWork <- OrphanWork
  Vtx <- OrphanVtx
  FailsAt <- OrphanFails
  Ins <- OrphanIns
  NOut <- OrphanNOut
  Value <- OrphanValue
  Subsidy <- OrphanSubsidy
  CoinbaseMaturity = 1
  MaxMoney = 20
  Blocks = {"g0", "g1", "g2", "n3"}
  Txs = {"cg0", "cg1", "cg2", "cn3", "p1", "q1", "p2", "r1", "s1", "v1"}
  CoinBases = {"cg0", "cg1", "cg2", "cn3"}
  Unsigned = {"v1"}
  Standard = {"p1", "q1", "p2", "r1", "s1", "v1"}
  MaxCrashes = 0
  MaxUnsynced = 0
SPECIFICATION OrphanSpec
INVARIANTS
  OrphanInv
  OrphansSettled
