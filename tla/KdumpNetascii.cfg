SPECIFICATION AsciiSpec
CONSTANTS
    Others = {"a"}
    Texts <- MCTexts
    Pieces <- MCPieces
    SegSizes = {1, 2, 3}
    MaxWire = 4
CHECK_DEADLOCK FALSE
INVARIANTS
    CutAnywhere
    RoundTrip
