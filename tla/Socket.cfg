CONSTANTS
    s1 = s1
    s2 = s2
    s3 = s3
    Slots = {s1, s2, s3}
    Kinds <- BothKinds
    MaxMessages = 2
    MaxAttempts = 1
    MaxFaults = 2
    MaxPosts = 2
    null = null
SPECIFICATION FairSpec
CONSTRAINT FewHandshakes
CHECK_DEADLOCK FALSE
INVARIANTS
    TypeOK
    SentInOrder
    ReconnectDriven
    NothingStuck
    PageKnows
PROPERTIES
    Recovers
