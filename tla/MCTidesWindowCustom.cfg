SPECIFICATION Spec
CONSTANTS
    Shares <- MCShares
    DayOf <- MCDayOf
    ValueOf <- MCValueOf
    Target = 4
    FirstDay = 2
    Kinds = {"custom"}
    None = None
    MaxShares = 4
INVARIANTS
    CustomWindowHasNoGap
CHECK_DEADLOCK FALSE
