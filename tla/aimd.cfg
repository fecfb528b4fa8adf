SPECIFICATION AFairSpec
CONSTANTS
    Windows = {3, 4, 5, 6, 7, 8, 9, 10, 11, 12, 13}
    InitialWindow = 4
    InitialThresh = 4
    Timeout = 1
    MaxFaults = 2
    MaxSeq = 5
    Word = 64
INVARIANTS
    NoUnderflow FlightBounded TimeoutMeansLate WindowFloor SpikeEndsSlowStart
PROPERTIES
    AckAsExpected NeverStalls
