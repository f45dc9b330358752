CONSTANTS
    V = {0, 1, 2}
    Delay <- Delays
    NumEvents = 4
    MaxEvents = 8
    StartTimes = {0, 1, 2}
SPECIFICATION Spec
INVARIANTS TypeOK ProcessedInOrder TimeFreezes
PROPERTIES ImplementsEarliestFirst
CHECK_DEADLOCK FALSE
