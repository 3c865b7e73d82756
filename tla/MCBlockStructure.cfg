\* Every document of up to five blocks of ten kinds, and of two kinds with any
\* layout; the limits are small enough to be reached.
SPECIFICATION Spec
CONSTANTS
    Kinds = {"level1", "level5", "abstract", "references", "hinted", "line",
             "paragraph", "banner", "note", "empty"}
    LayoutKinds = {"line", "references", "abstract"}
    LayoutLevels = {1, 3}
    MaxBlocks = 5
    Labels = {"TITLE", "AUTHOR"}
    ScanLimit = 4
    FrontLimit = 3
    NearStart = 2
INVARIANTS TypeOK ParentIsNearest AbstractBelongs OneTitle NamesBeforeSections BlocksTyped JumpsFlagged
