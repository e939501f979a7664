SPECIFICATION Spec
CONSTANTS
    LastTime = 1
    Views = {temp, wind}
    MaxHost = 1
    MaxLoads = 2
    MaxEvents = 3
    Torn = Torn
    None = None
INVARIANTS
    ProbeFollowsSelection
CHECK_DEADLOCK FALSE
