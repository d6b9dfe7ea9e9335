SPECIFICATION Spec
CONSTANTS
    Limits <- MCLimits
    Headers <- MCHeaders
    Files <- MCFiles
    Packages <- MCPackages
    Derivatives <- MCDerivatives
    Datasets <- MCDatasets
    Scores <- MCScores
    Keys <- MCKeys
    Classes <- MCClasses
INVARIANTS
    HeaderFitsItsEnvelope
    ReferenceSystemsAreResolved
    MissingRowsAreAccountedFor
    IsolationMeansNothingShared
    EveryCaseCounts
