CONSTANTS
    MEM_WORDS_PER_CYCLE = 4
    Rounds = 3
    Thash <- MCThash
    InitialMemories <- TwoJobMemories
    DescriptorAddresses <- TwoJobStarts
    MaxJobs = 2
    MaxStalls = 1
    MaxFaults = 1
    MaxResets = 0
SPECIFICATION Spec
INVARIANTS
    PerfAccounting
PROPERTIES
    ImplementsService
