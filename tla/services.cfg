SPECIFICATION ServicesSpec
CONSTANTS
    A = A
    B = B
    Claimants <- MCAgents
    Operator = Operator
    Questions = {1}
    Leases = {2}
    LastMoment = 3
    RingSize = 2
    QueueMax = 2
    FileMax = 2
    MaxEvents = 5
    MaxFailures = 1
    MaxRestarts = 1
    Agents <- MCAgents
    Trunk = Trunk
    MaxIdeas = 3
    MaxWork = 1
    MaxCalls = 3
    T1 = T1
    T2 = T2
    Loop = Loop
    Pool <- MCPool
    CacheMax = 1
    MaxSeq = 2
    MaxWrites = 2
    MaxRequests = 3
    MaxReboots = 1
    Wrappers <- MCAgents
    Manager = Manager
    HereHost = HereHost
    AwayHost = AwayHost
    HostOf <- MCHostOf
    MaxLive = 1
    MaxIds = 2
    MaxVisits = 4
    MaxCrashes = 1
    Keys = {k1, k2}
    AnswerSlots = {1, 2}
    BatchMax = 1
    MaxAnswers = 3
    MaxReloads = 1
SYMMETRY MCThreads
CHECK_DEADLOCK FALSE
INVARIANTS
    ServicesSound
    OneAnswerer
    NothingMissed
    WorkKept
    IdeasSound
    FreshReads
    AgentsKept
    RunningKept
    ShownOnce
PROPERTY AnswerKept
