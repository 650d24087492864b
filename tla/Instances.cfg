SPECIFICATION FairSpec
CONSTANTS
    Nobody = Nobody
    Windows = {w1, w2}
    Launchers = {l1}
    Services = {s1, s2}
    Top = 2
    Others = {2}
INVARIANTS TypeOK OneWindow
PROPERTIES StartsEnd CloseEnds
CHECK_DEADLOCK FALSE
