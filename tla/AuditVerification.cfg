SPECIFICATION Spec
CONSTANTS
    Events = {login, restore}
    Forged = Forged
    MaxEntries = 3
    MaxTampers = 2
INVARIANTS
    TypeOK
    ValidMeansWritten
    UntouchedIsValid
    BrokenRowIsFirst
