CONSTANTS
    MEM_WORDS_PER_CYCLE = 1
    Rounds = 3
    Thash <- MCThash
    InitialMemories <- OneJobMemories
    DescriptorAddresses <- OneJobStarts
    MaxJobs = 1
    MaxStalls = 1
    MaxFaults = 1
    MaxResets = 0
SPECIFICATION Spec
INVARIANTS
    TypeOK
    BusyFlagExact
    WindowChecksAgree
    CoreCyclesAreLatency
PROPERTIES
    StallHoldsRequest
    ImplementsService
    ImplementsEngine
