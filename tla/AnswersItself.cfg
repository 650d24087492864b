SPECIFICATION Spec
CONSTANTS
    Nobody = Nobody
    Windows = {w1}
    Launchers = {l1}
    Services = {s1, s2}
    Top = 2
    Others = {1}
INVARIANTS AnswersItself
CHECK_DEADLOCK FALSE
