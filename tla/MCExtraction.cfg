CONSTANTS
    Star = "*"
    Parent = "$parent"
    items = "items"
    a = "a"
    b = "b"
    Names = {"items", "a", "b"}
    None = None
    Numeral <- Numerals
    Decimal <- Decimals
    Values <- AllValues
    Documents <- AllDocuments
    Definitions <- AllDefinitions
SPECIFICATION Spec
INVARIANTS
    TolerantTakesWhatIsThere
    StrictTakesAllOrNothing
