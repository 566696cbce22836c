SPECIFICATION MCSpec
CONSTANTS
    a = a
    b = b
    ab = ab
    None = None
    Days = {0, 1}
    Times = {19}
    Tables = {a, b}
    Combos = {ab}
    Members <- MCMembers
    Capacity <- MCCapacity
    MaxParty = 2
    AdvanceDays = 1
    ClosedDays = {}
    Now = 12
    Offset = 3
    Duration = 2
    MaxAttempts = 2
    OthersMay <- OneOther
    Guests = {"g"}
    FormTables = {"t1"}
    FormCombos = {"c1"}
    GroupRequired = FALSE
    CountsRequired = FALSE
    ExtraKind = "number"
    ExtraRequired = FALSE
    Rulings <- MCRulings
    GroupsOffered = {"mixed"}
    MaxKeys = 2
    MaxEdits = 3
    MaxPresses = 1
INVARIANTS GuestTypeOK SecondBookingNeedsLostAnswer StalePickNeverSeats RefusalsAreForetold
PROPERTIES BookedGuestIsTaken
CHECK_DEADLOCK FALSE
