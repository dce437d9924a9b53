CONSTANTS
    MEM_WORDS_PER_CYCLE = 2
    Rounds = 3
    Thash <- MCThash
    InitialMemories <- ResetMemories
    DescriptorAddresses <- ResetStarts
    MaxJobs = 2
    MaxStalls = 0
    MaxFaults = 1
    MaxResets = 1
SPECIFICATION Spec
INVARIANTS
    EngineAtRest
PROPERTIES
    ImplementsService
