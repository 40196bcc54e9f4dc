SPECIFICATION SessionSpec
CONSTANTS
    None = None
    Markets <- MCMarkets
    Zone <- MCZone
    HoursZone <- MCHoursZone
    Open <- MCOpen
    Close <- MCClose
    Calendars <- MCCalendars
    First = 624
    Last = 1290
CHECK_DEADLOCK FALSE
INVARIANTS
    SessionTypeOK
    AwakeForOpenMarkets
PROPERTIES
    StartsForAnOpening
