CONSTANTS
    Rounds = 4
    Thash <- MCThash
    Requests <- MCRequests
SPECIFICATION Spec
INVARIANTS
    TypeOK
    Handshake
PROPERTY
    ImplementsServer
