SPECIFICATION Spec
CONSTANTS
    A = A
    B = B
    R = R
    U = U
    Anonymous = Anonymous
    Agents <- TheAgents
    Humans <- OnlyUser
    User = U
    RoleOf <- OneRole
    MaxId = 3
    CallSets <- TheCallSets
    Receivers <- OneReceiver
    Senders <- SomeSenders
    Recipients <- SomeRecipients
    Readers <- AandU
    Movers <- OnlyA
    PageLimit = 1
    MaxClock = 4
    Modes = {"ack", "claim", "peek", "poll"}
    SocketPage = 2
    RecentLimit = 1
    WaitLimit = 3
    MaxDrops = 1
    MaxKills = 1
    MaxLostAcks = 1
CHECK_DEADLOCK FALSE
INVARIANTS WalkIsComplete RepliesReachable ClaimedOnce DeliveredMeansGiven NothingSkipped
PROPERTY NothingWithdrawn
