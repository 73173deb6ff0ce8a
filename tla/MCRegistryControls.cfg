SPECIFICATION Spec
CONSTANTS
    NameOrder <- MCNames
    Chars <- MCChars
    KeyOrder <- MCKeys
    Labels <- ControlLabels
    Controls = {"SOH", "STX"}
    MaxSamples = 4
INVARIANTS
    SeriesUnique
