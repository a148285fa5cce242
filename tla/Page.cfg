CONSTANTS
    Buddies = {ann, bob, eve}
    Messages = {m1, m2}
    BoxOffset = 280
    null = null
SPECIFICATION Spec
SYMMETRY PageSymmetry
INVARIANTS
    TypeOK
    ConversationsAgree
    BoxesSideBySide
    StatusShownAlike
PROPERTIES
    ConversationKept
