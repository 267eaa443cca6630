CONSTANTS
  Long = 16
  Blocks <- LocatorBlocks
  GenesisBlock <- LocatorGenesis
  Prev <- LocatorPrev
  DenseSteps = 10
  TargetSpacing = 50
  OldTimespan = 200
  NewTimespan = 100
  RevisedFrom = 4
  FullPeriodFrom = 7
  TargetLimit = 100000
  Mantissa = 512
  Base = 8
  MedianTimeSpan = 3
  Delays <- MCDelays
  MaxHeaders = 10
  Subsidy = 96
  Halving = 210000
  LastSubsidy = 227499
  CENT = 2
  nTransactionFee = 0
  MIN_TX_FEE = 1
  InputsPerThousand = 2
  Values = {1, 3, 4, 7}
  Ages <- MCAges
  MaxCoins = 3
  MaxPay = 8
  OurChainID = 3
  MaxRootOffset = 20
  RootSize = 32
  MaxLeaves = 9
  NonceLimit = 2
  MaxPieces = 3
  MaxBest = 3
  MaxUpdates = 1
  COINBASE_MATURITY = 1
  MaturityMargin = 1
  COPY_DEPTH = 2
  MaxChainBlocks = 4
  MaxChainTxs = 7
  WIDTH = 3
  COIN = 1000
  MaxWhole = 3
  MaxInt = 131071
  MainVersion = 2
  TestVersion = 1
  HashBytes = 2
  MaxOffset = 70
  NearOffset = 5
  AccountNames = {"", "a"}
  MaxTxs = 3
  MaxAccountKeys = 3
  COINBASE_DEPTH = 2
  MaxSamples = 6
  MaxSize = 4500
  PushOnlyLimit = 20
  AUXPOW = 2
  DatedFrom = 3
  MaxSeed = 15
  BlockLengths <- MCLengths
  FileLimit = 7
  MaxBlockSize = 2
  SyncEvery = 2
  MaxStarts = 3
  LOCKTIME_THRESHOLD = 5
  SequenceFinal = 9
  LockTimes = {0, 1, 2, 3, 4, 5, 6, 7, 8}
SPECIFICATION Spec
CHECK_DEADLOCK FALSE
INVARIANTS
  BlocksAreFound
  HeadersAreSound
  PaymentIsSound
  ScriptIsSound
  WorkIsSound
  AccountsAreSound
  DepthsAreSound
  NumbersAreSound
