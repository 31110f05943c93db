SPECIFICATION FairSpec
CONSTANTS
    None = None
    MaxSpawns = 2
    MaxSends = 2
    Shutdowns = {2}
    Capacity = 2
    MaxFaults = 1
PROPERTY MalformedSkipped
