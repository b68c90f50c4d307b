CONSTANTS
    Width = 6
    Modes <- MCModes
    Sizes <- MCSizes
    SectorSizes = {1, 2, 4}
    SectorsPerUnit = {1, 2}
SPECIFICATION Spec
INVARIANT AttributesMatchSpec AllocationRoundsUpInRange
