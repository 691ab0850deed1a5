\* Saves, resets and restarts with power failing between any two steps.
SPECIFICATION Spec
CONSTANTS
    Configs = {c1, c2}
    Default = factory
INVARIANTS
    TypeOK
    SavedSurvives
    RunsWithPromised
    BootHasConfig
