CONSTANTS
    home = home  other = other  k1 = k1  k2 = k2
    w1 = w1  w2 = w2  w3 = w3  g1 = g1
    Namespaces = {home, other}
    Home = home
    Keys = {k1}
    Clients = {w1, w2, w3}
    First = w1
    Readers = {}
    CallbackReads = other
    BusCap = 1
    Attempts = 1
    MaxChanges = 1
    MaxBreaks = 1
    MaxFetchFails = 1
    Absent = Absent
SPECIFICATION Spec
PROPERTIES FailedListNotStored

CHECK_DEADLOCK FALSE
