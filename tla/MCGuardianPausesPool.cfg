CONSTANTS
  Accounts = {"g1", "g2", "g3"}
  Founders <- MCFounders
  Targets = {"shielded_pool"}
  Administered = {"shielded_pool"}
  TakesReason = {}
  Wasms = {"w1"}
  NoWasm = "w0"
  Delay = 1
  MaxProposals = 1
  MaxLedger = 2
SPECIFICATION Spec
INVARIANTS
  QuorumCanPause
CHECK_DEADLOCK FALSE
