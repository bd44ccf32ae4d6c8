SPECIFICATION FairSpec
CONSTANTS
    Poll = {p1, p2}
    Last = 5
    Ranged <- MCRanged
    Sized <- MCSized
    Text <- MCText
    Loose <- MCLoose
    Supported <- MCSupported
INVARIANTS TypeOK ThreeStrikes StrikesBounded
PROPERTIES StaysSuppressed NoEndlessRetry
