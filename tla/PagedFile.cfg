CONSTANTS
    PageSize = 3
    MaxPages = 3
    Zero = Zero
    FileSize = 10
    MaxLen = 4
    MaxVersion = 1
SPECIFICATION Spec
INVARIANTS TypeOK PageTableBounded ReadsKeepOffsets ExactUnlessGapOrFull RoundTrip
