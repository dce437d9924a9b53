\* Two addresses and two error codes tell one job's outcome from another's.
CONSTANTS
    ErrorCodes = {1, 4}
    Addresses = {0, 4}
SPECIFICATION Spec
INVARIANTS
    StatusIsFresh
    BusyOrDone
