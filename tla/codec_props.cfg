CONSTANTS
    Keys <- MCKeys
    Ints <- MCInts
SPECIFICATION Spec
INVARIANT RoundTrip
INVARIANT OrderPreserved
