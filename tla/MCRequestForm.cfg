SPECIFICATION FormSpec
CONSTANTS
    Names <- MCNames
    Catalogues <- MCCatalogues
    Seconds <- MCSeconds
    Minutes <- MCMinutes
    Prompts <- MCPrompts
    MaxEdits = 3
    MaxJobs <- MCMaxJobs
INVARIANTS
    SubmittedIsAccepted
    ControlsAreValid
    ReuseAsksAgain
    LineageIsWhole
CHECK_DEADLOCK FALSE
