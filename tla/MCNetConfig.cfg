SPECIFICATION FairSpec
CONSTANTS
    None = None
    s1 = s1
    s2 = s2
    s3 = s3
    a = a
    b = b
    c = c
    n1 = n1
    n2 = n2
    Servers = {s1, s2, s3}
    Says <- MCSays
    Resolvers = {s1}
    Unsigned = {s2}
    ClassC = ClassC
    Pool <- MCPool
    Names = {n1, n2}
    Ttls = {0, 9}
    RETRY_MAX = 1
    CACHE_N = 2
    MAX_TTL = 2
    AskTicks = 2
    TickMod = 6
    MaxQueries = 2
    MaxDelay = 2
INVARIANTS BoundMeansWired
PROPERTIES AnswerIsCurrent Settles
