CONSTANTS
    Buddies = {ann, bob}
    Messages = {m1}
    BoxOffset = 280
    null = null
SPECIFICATION Spec
PROPERTIES
    EveryMessageShown
