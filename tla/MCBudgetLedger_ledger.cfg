SPECIFICATION Spec
CONSTANTS
    Slots = {1, 2, 3, 4, 5}
    NoSlot = 0
    Variants = {"SINGLE_AGENT", "FIXED", "DYNAMIC"}
    MaxSlots <- MCMaxSlots
    MaxModelCalls = 4
    MaxToolCalls = 2
    MaxTokens = 5
    Floor <- MCFloor
    Inputs = {1, 2}
    MinCompletion = 0
    FixedSpecialists = 2
INVARIANTS TypeOK CapsAreKept ChargesAreRecorded ModelsFollowTools FinalJudgeIsLast BundleIsWhole
PROPERTIES TerminalIsFinal HistoryStands KeepsAccounts
CHECK_DEADLOCK FALSE
