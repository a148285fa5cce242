CONSTANTS
    tim = tim
    joe = joe
    qiyue = qiyue
    t25 = t25
    null = null
    noGroup = noGroup
    noUser = noUser
    none = none
    idle = idle
    g1 = g1
    g2 = g2
    g3 = g3
    g4 = g4
    a1 = a1
    a2 = a2
    a3 = a3
    Groups = {g1, g2, g3, g4}
    MaxLinks = 3
    Addrs = {a1, a2, a3}
    Names = {tim, joe}
    Hosts = {a1, a2}
    Users = {tim, joe}
    MaxLines = 3
    GroupNames = {t25, qiyue}
    MaxRows = 2
    History <- MCHistory
SPECIFICATION MCSpec
SYMMETRY Symmetry
PROPERTIES
    NoUpperLevelGroupAdded
CHECK_DEADLOCK FALSE
