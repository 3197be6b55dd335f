CONSTANTS
    Tables <- MCTables
    GroupString <- MCGroupString
    PerGroup <- MCPerGroup
    Sources = {"s1", "s2"}
    Outputs = {"o1", "o2"}
    MaxChosen = 1
SPECIFICATION Spec
INVARIANTS TypeOK CallIsAsAsked CalledWhenComplete DefaultsAgree RangesAgree NothingLeaks
    TablesAgree
