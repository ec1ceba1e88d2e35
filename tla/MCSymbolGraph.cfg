CONSTANTS
    Files = {f1, f2}
    Decls <- MCDecls
    MaxId = 3
    MaxContent = 2
    MaxEdges = 2
    LookupLimit = 1
    MaxStale = 1
SYMMETRY FileSymmetry
SPECIFICATION Spec
INVARIANTS LookupsExact EvidenceExact
PROPERTIES RelinksSurvivors ReindexIsLocal
