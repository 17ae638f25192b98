CONSTANTS
    a = a
    b = b
    z = z
    u = u
    n1 = n1
    nNew = nNew
    NewAus = nNew
    InitSpecs <- MCInitSpecs
    URL <- u
    Files <- MCFiles
    ZipFiles <- MCZipFiles
    Size <- MCSize
    Limit <- MCLimit
    Inputs <- MCInputs
    MaxEdits = 1
SPECIFICATION Spec
INVARIANT TypeOK
INVARIANT ArchiveMatchesReference
INVARIANT SpecArchiveDeduplicated
