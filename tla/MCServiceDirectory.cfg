CONSTANTS
    r1 = r1
    Instances = {1, 2}
    Default = 1
    Requests = {r1}
    Strategy = "round_robin"
    CacheTtl = 1
    BeatTimeout = 2
SPECIFICATION FairSpec
INVARIANT AnswerTells
PROPERTIES DeadIsForgotten TurnsAreTaken ListedIsServed
