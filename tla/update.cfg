\* One request and one message; nobody stops the program.
SPECIFICATION SuFairSpec
CONSTANTS
    Requests = {"r1"}
    Messages = {"t1"}
    Broken = {{}}
    MaxRevision = 1
    MaxProcesses = 2
    MaxStops = 0
CHECK_DEADLOCK FALSE
PROPERTIES
    UpdateTakesEffect
