\* Decisions taken while others are being carried out.
SPECIFICATION DimSpec
CONSTANTS
    Handlers = {h1}
    UserLevels = {4, 6}
    DimLevel = 1
    Floor = 3
    FloorLevel = 5
    ReadFails = FALSE
    PanelFails = FALSE
    SetFails = FALSE
INVARIANTS NoDoubleSave
