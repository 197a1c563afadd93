SPECIFICATION AssignmentSpec
CONSTANTS
    MaxKey = 2
    Place <- MCPlace
    Carrier <- MCCarrier
    Grid <- MCGrid
    MaxSteps = 5
INVARIANTS
    AutomaticIsClosest
PROPERTIES
    ManualStays
CHECK_DEADLOCK FALSE
