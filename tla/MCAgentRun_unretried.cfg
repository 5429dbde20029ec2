\* The first attempt of a model call is not retried.
SPECIFICATION Spec
CONSTANTS
    MaxMessages = 4
    MaxTokens = 4
    MaxResult = 1
    KeepResults = 1
    KeepAfterSummary = 2
    KeepAtWorst = 2
    MaxRetries = 4
    MaxContinuations = 2
    Threshold = 3
    MaxAsked = 2
    SummarySizes = {1, 3}
    Skill = {skill1, skill2}
    Allowed = {skill1, skill2}
    NoSkill = NoSkill
    Unreadable = Unreadable
    Session = {lead, other}
    Key = {key1}
    NoMemory = NoMemory
    Lead = lead
    Huge = 3
    MaxRounds = 2
    Scenarios <- ScenariosMC
INVARIANT TemporaryFailuresAreRetried
CHECK_DEADLOCK FALSE
