CONSTANTS
    Files = {f1, f2}
    Decls <- MCDecls
    MaxId = 4
    MaxContent = 2
    MaxEdges = 2
    LookupLimit = 1
    MaxStale = 1
SPECIFICATION Spec
PROPERTY OwnEdgesReemitted
