CONSTANTS
    f1 = f1
    f2 = f2
    f3 = f3
    anim = anim
    readyList = readyList
    null = null
    Deferreds = {readyList, anim}
    Handlers = {f1, f2, f3}
    MaxNews = 2
    MaxHolds = 1
SPECIFICATION FairSpec
CONSTRAINT InOrder
INVARIANTS
    ReadyTypeOK
    NewsInOrder
PROPERTIES
    ImplementsPromise
    CalledWhenReady
    Delivered
    ReadyRuns
CHECK_DEADLOCK FALSE
