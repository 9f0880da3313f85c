CONSTANTS
  Lo = 0
  Hi = 6
  MaxPairs = 2
SPECIFICATION AlgebraSpec
INVARIANT TypeOK
INVARIANT RangesCanonical
INVARIANT MemberExact
INVARIANT ElementsExact
INVARIANT ListRoundTrip
INVARIANT CombinesExact
