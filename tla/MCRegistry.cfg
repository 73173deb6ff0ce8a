SPECIFICATION Spec
CONSTANTS
    NameOrder <- MCNames
    Chars <- MCChars
    KeyOrder <- MCKeys
    Labels <- PrintableLabels
    Controls = {"SOH", "STX"}
    MaxSamples = 4
INVARIANTS
    TypeOK
    SeriesUnique
    FirstOfEachSeries
    GroupedByName
    DropsReported
