CONSTANTS
    absent = absent
    i1 = i1
    i2 = i2
    Absent <- absent
    Chunks <- MCChunks
    Blobs <- MCBlobs
    Packages <- MCPackages
    Outputs <- MCOutputs
    BarePaths <- MCBarePaths
    OldFile <- MCOldFile
SPECIFICATION Spec
INVARIANT TypeOK
INVARIANT OutputAllOrNothing
INVARIANT RetrievedIsStored
