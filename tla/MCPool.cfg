CONSTANTS
  Assets = {"usdc", "xlm"}
  USDC = "usdc"
  Notes = {"u1", "u2", "u3", "u4", "u5", "u6", "x1", "x2", "x3"}
  AssetOf <- MCAssetOf
  ValueOf <- MCValueOf
  NulOf <- MCNulOf
  Nonces = {"c1", "c2", "c3"}
  Principals = {"deployer"}
  Deployer = "deployer"
  Solvers = {"s"}
  Signers = {"k"}
  Capacity = 4
  PriceScale = 2
  Prices = {1, 2, 3}
  I128Max = 5
  MaxAmount = 2
  Deadlines = {0}
  MaxBalance = 3
  MaxLedger = 0
SPECIFICATION ScenarioSpec
INVARIANTS
    NoDoubleSpend
    
    
    RootsAreHistory
    NonceCreditedOnce
    
CHECK_DEADLOCK FALSE
