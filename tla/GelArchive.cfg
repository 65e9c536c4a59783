CONSTANTS
    Actions = {a1, a2}
    MaxRecords = 5
    MaxArchive = 6
SPECIFICATION Spec
INVARIANTS NothingLost RestoreComplete FilesVerify
SYMMETRY ActionSymmetry
