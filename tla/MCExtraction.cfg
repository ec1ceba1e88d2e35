CONSTANTS
    Langs <- MCLangs
    MaxNodes <- MCMaxNodes
    MaxPieces = 4
    LineEnds <- MCLineEnds
    Noise <- MCNoise
    Uses <- MCUses
    Projects <- MCProjects
    MaxData = 4
SPECIFICATION Spec
CHECK_DEADLOCK FALSE
INVARIANTS SymbolsMeant DocsAttach RefsLabelled KotlinExact LinksMeant
