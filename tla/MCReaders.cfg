SPECIFICATION Spec
CONSTANTS
    Sources <- SmallSources
    BatchSize = 2
    MaxRows = 3
    MaxBytes = 5
    MaxLine = 2
    Blank = Blank
    ColumnA = ColumnA
    ColumnB = ColumnB
    MaxLines = 4
    Width = 4
    DefaultSize = 2
    MaxSize = 3
    AskedPages <- SomePages
    AskedSizes <- SomeSizes
    Jobs = {1, 2, 3}
    Times = {1, 2}
    MaxChanges = 2
    MaxFaults = 1
    i1 = i1
    i2 = i2
    i3 = i3
    Instances = {i1, i2, i3}
    ServiceOf <- SomeServices
    Codes = {1, 2}
    Titles = {"t", "u"}
    Allowed = {i1, i3}
    Static = {1}
    NoTitle = NoTitle
INVARIANTS
    RowNumbersAreRight
    LimitsAreExact
    ReadyCanBeApplied
    WalkIsExact
PROPERTIES
    PageIsExact
    CatalogIsExact
CHECK_DEADLOCK FALSE
