CONSTANTS
    MaxEvents = 5
    MaxRules = 3
    MaxActs = 2
SPECIFICATION Spec
INVARIANTS
    ToldOnce
    PhaseBlockTried
PROPERTIES
    AppliedIsFinal
    NoPhaseRuleAfterBlock
    AllowSkipsRules
CHECK_DEADLOCK FALSE
