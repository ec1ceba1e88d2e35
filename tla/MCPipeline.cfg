CONSTANTS
    FileOrder <- MCFiles
    Dir <- MCDir
    Score <- MCScore
    Contents <- MCContents
    DocName <- MCDocName
    NoFile = "none"
    Section = {"y"}
    Markdown = "md"
    MaxFiles = 2
    MaxEdits = 3
SPECIFICATION Spec
INVARIANTS LayersExact IncrementalCovers Grounded
PROPERTY RebuildIdempotent
