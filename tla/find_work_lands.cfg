SPECIFICATION WorkSpec
CONSTANTS
    A = A
    B = B
    Agents <- MCAgents
    Trunk = Trunk
    MaxIdeas = 3
    MaxWork = 2
    MaxCalls = 2
CHECK_DEADLOCK FALSE
INVARIANT WorkLands
