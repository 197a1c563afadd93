SPECIFICATION AssignmentSpec
CONSTANTS
    MaxKey = 2
    Place <- MCPlace
    Carrier <- MCCarrier
    Grid <- MCGrid
    MaxSteps = 5
PROPERTY NewIdIsUnique
CHECK_DEADLOCK FALSE
