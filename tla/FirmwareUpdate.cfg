CONSTANTS
    Factory = 1
    Releases <- Offered
    MaxHops = 3
SPECIFICATION FairSpec
INVARIANTS SurvivesReset OneJobAtATime PollTellsTheTruth
PROPERTY UpdateEnds
