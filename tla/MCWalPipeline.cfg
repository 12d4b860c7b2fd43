CONSTANTS
    h1 = h1
    h2 = h2
    Handlers <- MCHandlers
    Host = "127.0.0.1"
    MaxWrites = 3
    MaxFaults = 1
SPECIFICATION FairSpec
PROPERTY ChannelRefined QueueDrains
