SPECIFICATION FairSpec
CONSTANTS
    Users = {u1}
    Notebooks = {n1}
    Ports = {1, 2}
    DefaultPort = 1
    None = None
    Absent = Absent
    Empty = Empty
    Garbled = Garbled
    MaxEvents = 3
PROPERTIES WindowRecovers
CHECK_DEADLOCK FALSE
