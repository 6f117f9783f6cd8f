CONSTANTS
    Accounts = {"g1", "g2", "g3"}
    Founders <- MCFounders
    Targets = {"mock"}
    Administered = {"mock"}
    TakesReason = {"mock"}
    Wasms = {"w1"}
    NoWasm = "w0"
    Delay = 1
    MaxProposals = 2
    MaxLedger = 2
SPECIFICATION ScenarioSpec
CHECK_DEADLOCK FALSE
INVARIANTS
    
    CancelledNeverInstalled
    
    FlagMeansInitialised
    
    
PROPERTIES
    UpgradeWaits
    TimelockIsFixed
