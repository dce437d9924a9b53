\* Two addresses and two values tell a beat from another.
CONSTANTS
    BusAddresses = {4, 8}
    BusData = {1, 2}
SPECIFICATION BusSpec
INVARIANT
    OneOutstanding
PROPERTY
    ImplementsPort
