CONSTANTS
    Assets = {"USDC", "XLM"}
    Amounts = {1, 2}
    MaxIntents = 4
SPECIFICATION ScenarioSpec
CHECK_DEADLOCK FALSE
INVARIANTS
    MatchIntentsIsRight
    MatchPricedIsRight
    TreeIsOfItsLeaves
    RestartsAreHarmless
PROPERTIES
    Terminates
