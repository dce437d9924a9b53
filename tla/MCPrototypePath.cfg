CONSTANTS
    Thash <- MCThash
    Blocks = {}
    Instructions <- MCInstructions
    StreamAddr <- MCStreamAddr
SPECIFICATION Spec
INVARIANTS
    JobIsOfRegisters
PROPERTY
    ImplementsRegisterFile
