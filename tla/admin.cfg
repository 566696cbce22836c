SPECIFICATION Spec
CONSTANTS
    Calls = {c1, c2}
    MaxPairs = 3
    MaxLogins = 2
    RuleIds = {"r1"}
    Gallery <- MCGallery
    MaxSaves = 2
    MaxTouched = 1
    Rules = {"r1", "r2"}
    MaxChanges = 2
    DeskTables = {"t1"}
    DeskDays = {1}
    DeskHours = {1, 23}
    UtcOffset = 3
    PageSize = 1
    MaxOpenings = 2
    MaxSubmits = 2
    MaxChecks = 1
    Bookings = {"b1"}
    MaxRelabels = 2
    t1 = t1
    Tables = {t1, t2}
    SeatCounts = {2, 4}
    MaxTableChanges = 2
    Staffers = {"a", "b"}
    Me = "a"
    MaxCommands = 3
    MaxInvites = 1
    MaxMails = 2
    Notifications = {"notifyReminder", "notifyCancellation"}
    MaxClicks = 3
    LimitSets = {"few"}
    MaxOrders = 2
    Tabs = {t1}
    MaxForms = 3
    Customers = {"c", "d"}
    Touched = {"tier", "notes"}
    MaxCustomerSaves = 2
    Plans = {"starter", "pro"}
    PlanFields = {"price", "limits"}
    JsonFields = {"limits"}
    PlanValues = {"low", "high"}
    PageDefault = "low"
    MaxPlanSaves = 2
    Codes = {"A", "B"}
    CouponPageSize = 1
    MaxCoupons = 2
    Admins = {"x", "y"}
    MyAccount = "x"
    PlatformRoles = {"SuperAdmin", "Finance"}
    MaxTeamOrders = 2
INVARIANTS
    AdminTypeOK SessionLossNeedsMishap OneTokenPerLogin OldPasswordsOpenNothing
    ActionsSurviveEdit ListIsServers SwitchesAsAsked BookedWhereClicked
    OneBookingPerOpening OwnChangesAreShown TablesAreAsWanted OwnerRemains SavedAsEntered
    SwitchesAreKept PageTellsWhatHolds PlansAreAsTyped EmptyMeansDeactivated
    AnAdminRemains
CHECK_DEADLOCK FALSE
