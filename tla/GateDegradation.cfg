CONSTANTS
    Inputs <- MCInputs
    PlantInput <- MCPlantInput
    Plants <- MCPlants
    Labels <- MCLabels
    MaxTime = 1
SPECIFICATION Spec
INVARIANT LimitsHold
PROPERTY WorseNeverAdmits
CHECK_DEADLOCK FALSE
