SPECIFICATION FairSpec
CONSTANTS
    Callers = {daemon, tool}
    Work = work
    Probe = probe
    Free = free
INVARIANTS
    TypeOK
    AnswerMatchesCommand
    EnabledMeansArmed
PROPERTIES
    SamplingGoesOn
    DisabledComesToRest
