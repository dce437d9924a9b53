CONSTANTS
    MEM_WORDS_PER_CYCLE = 1
    Rounds = 3
    Thash <- MCThash
    InitialMemories <- OneJobMemories
    DescriptorAddresses <- OneJobStarts
    MaxJobs = 1
    MaxStalls = 0
    MaxFaults = 0
    MaxResets = 0
SPECIFICATION Spec
INVARIANTS
    AlignmentIsBeatWidth
