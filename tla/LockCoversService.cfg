SPECIFICATION Spec
CONSTANTS
    Nobody = Nobody
    Windows = {w1}
    Launchers = {l1}
    Services = {s1}
    Top = 1
    Others = {1}
INVARIANTS LockCoversService
CHECK_DEADLOCK FALSE
