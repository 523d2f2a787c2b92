SPECIFICATION Spec
CONSTANTS
 Days <- FourCenturies
 Typed <- SomeTexts
 Parameters <- SomeParameters
 Error = Error
 Minutes <- SomeMinutes
 Shortcuts = {"x", "h", "q"}
 Modulus = 960
 Restored <- BackedUp
 Unset = Unset
 PageSize = 3
 MemorySize = 7
 MaxGuards = 3
INVARIANTS Base32IsCanonical EntryKeepsCode UriIsNeverAKey SavedIsKept AloneStaysLocked NeverDumped
PROPERTY CalendarTurns
CHECK_DEADLOCK FALSE
