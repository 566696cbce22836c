SPECIFICATION BuilderSpec
CONSTANTS
    RuleIds = {"r1"}
    Gallery <- MCGallery
    MaxSaves = 2
    MaxTouched = 1
INVARIANT FormStartsFromItsSource
CHECK_DEADLOCK FALSE
