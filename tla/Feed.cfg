SPECIFICATION FairSpec
CONSTANTS
    Consumers = {c1}
    Types = {synced, described}
    Limit = 2
    MaxEvents = 4
    MaxDrops = 2
INVARIANTS TypeOK NothingSkipped StreamGoesOn
PROPERTIES EventsArrive
CHECK_DEADLOCK FALSE
